-------------------------- MODULE LogBuffer_proofs --------------------------
(***************************************************************************)
(* The indices of the log buffer stay inside it, the text in it stays      *)
(* terminated, and it implements the queue of LogQueue, for every size,    *)
(* line size and set of texts.                                             *)
(***************************************************************************)
EXTENDS LogBuffer, SequenceTheorems, TLAPS

\* SMT tries every step; Zenon is named where a step is pure logic
USE SMTT(30)

\* What % fixed_size gives is a position
LEMMA ModPosition == \A x \in Int : x % Size \in Positions
  BY SizeAssumption DEF Positions

\* % fixed_size over the sums that a write computes
LEMMA ModOfSum ==
  ASSUME NEW x \in Nat, x <= 2 * Size - 1
  PROVE  x % Size = IF x < Size THEN x ELSE x - Size
  BY SizeAssumption

\* The position after a text is the one after its last character, or the start
LEMMA ModNext ==
  ASSUME NEW h \in Positions, NEW n \in 1 .. Size - 1
  PROVE  /\ (h + n) % Size \in Positions
         /\ (h + n) % Size = 0 \/ (h + n) % Size = ((h + n - 1) % Size) + 1
<1>1. /\ h \in Nat /\ n \in Nat /\ Size \in Nat
      /\ h + n \in Nat /\ h + n <= 2 * Size - 1
      /\ h + n - 1 \in Nat /\ h + n - 1 <= 2 * Size - 1
  BY SizeAssumption DEF Positions
<1>2. (h + n) % Size = IF h + n < Size THEN h + n ELSE h + n - Size
  BY <1>1, ModOfSum
<1>3. (h + n - 1) % Size = IF h + n - 1 < Size THEN h + n - 1 ELSE h + n - 1 - Size
  BY <1>1, ModOfSum
<1> QED BY <1>1, <1>2, <1>3, SizeAssumption DEF Positions

\* The positions a write moves the indices to
LEMMA IndexTypes ==
  ASSUME TypeOK, NEW n \in Nat, NEW full \in BOOLEAN
  PROVE  NewTail(n, full) \in Positions /\ NewHead(n) \in Positions
<1>1. head + n \in Int /\ head + n + 1 \in Int /\ tail \in Positions
  BY SizeAssumption DEF TypeOK, Positions
<1>2. (head + n) % Size \in Positions /\ (head + n + 1) % Size \in Positions
  BY <1>1, ModPosition
<1> QED BY <1>1, <1>2 DEF NewTail, NewHead

\* A copy of a text leaves characters in the buffer
LEMMA CopiedType ==
  ASSUME TypeOK, NEW text \in Texts
  PROVE  Copied(text) \in [0 .. Size -> Items]
<1>1. ASSUME NEW p \in 0 .. Size, (p - head) % Size < Len(text)
      PROVE  text[((p - head) % Size) + 1] \in Items
  <2>1. p - head \in Int
    BY SizeAssumption DEF TypeOK, Positions
  <2>2. (p - head) % Size \in Positions
    BY <2>1, ModPosition
  <2>3. ((p - head) % Size) + 1 \in 1 .. Len(text) /\ text \in Seq(Chars)
    BY <1>1, <2>2, SizeAssumption, TextsAssumption DEF Positions
  <2> QED BY <2>3 DEF Items
<1> QED BY <1>1, SizeAssumption DEF Copied, TypeOK, Items

\* The end item follows the text, unless the head is back at the start
LEMMA CopiedEnds ==
  ASSUME TypeOK, NEW text \in Texts
  PROVE  NewHead(Len(text)) = 0 \/ Copied(text)[NewHead(Len(text))] = End
<1>1. head \in Positions /\ Len(text) \in 1 .. Size - 1
  BY TextsAssumption DEF TypeOK
<1>2. /\ NewHead(Len(text)) \in Positions
      /\ NewHead(Len(text)) = 0 \/ NewHead(Len(text)) = ((head + Len(text) - 1) % Size) + 1
  BY <1>1, ModNext DEF NewHead
<1>3. Positions \subseteq 0 .. Size
  BY SizeAssumption DEF Positions
<1>4. ASSUME NEW p \in 0 .. Size, p = ((head + Len(text) - 1) % Size) + 1
      PROVE  Copied(text)[p] = End
  BY <1>4 DEF Copied
<1> QED BY Zenon, <1>2, <1>3, <1>4

\* What a line is filled with are characters of the buffer
LEMMA ChunkType ==
  ASSUME TypeOK, NEW p \in Nat, NEW n \in Nat
  PROVE  Chunk(p, n) \in Seq(Items)
<1>1. \A i \in 1 .. n : (IF p + i - 1 <= Size THEN buffer[p + i - 1] ELSE Junk) \in Items
  BY SizeAssumption DEF TypeOK, Items
<1> QED BY <1>1 DEF Chunk

\* Where strchr may point
LEMMA StrchrType ==
  ASSUME NEW p \in Positions, NEW end \in Strchr(p)
  PROVE  end = None \/ (end \in Nat /\ end >= p)
<1> DEFINE stops == {q \in p .. Size : buffer[q] \in {NewLine, End}}
           first == {q \in stops : \A r \in stops : q <= r}
<1>1. CASE stops = {}
  <2>1. end \in {None, Size + 1}
    BY <1>1 DEF Strchr
  <2> QED BY <2>1, SizeAssumption DEF Positions
<1>2. CASE stops # {}
  <2>1. PICK q \in first : end = IF buffer[q] = NewLine THEN q ELSE None
    BY <1>2 DEF Strchr
  <2>2. q \in p .. Size
    OBVIOUS
  <2> QED BY <2>1, <2>2, SizeAssumption DEF Positions
<1> QED BY <1>1, <1>2

\* How much consume_line takes of the first block
LEMMA WillConsumeType ==
  ASSUME TypeOK
  PROVE  WillConsume \in 0 .. LineSize
<1>1. ((IF Wraps THEN Size ELSE head_copy) - tail_copy) \in Int
  BY SizeAssumption DEF TypeOK, Positions
<1>2. Consumable \in Nat
  BY <1>1 DEF Consumable
<1> QED BY <1>2, SizeAssumption DEF WillConsume, Lesser

\* consume_line fills the line with characters and leaves a position to store
LEMMA ConsumeLineType ==
  ASSUME TypeOK, ConsumeLine
  PROVE  line' \in Seq(Items) /\ tail_copy' \in Positions
<1> DEFINE w == WillConsume
<1>1. w \in 0 .. LineSize /\ w \in Nat /\ tail_copy \in Nat
      /\ tail_copy \in Positions /\ head_copy \in Positions
  BY WillConsumeType, SizeAssumption DEF TypeOK, Positions
<1>2. LineSize \in Positions /\ LineSize \in Nat /\ tail_copy + LineSize \in Int
  BY <1>1, SizeAssumption DEF Positions
<1>3. PICK end \in Strchr(tail_copy) :
        \/ end # None /\ LineInBlock(end)
        \/ /\ end = None
           /\ IF Consumable > WillConsume THEN LineFull
              ELSE IF Wraps THEN LineAcrossEnd
              ELSE Filled(Chunk(tail_copy, WillConsume), head_copy)
  BY DEF ConsumeLine
<1>4. CASE end # None /\ LineInBlock(end)
  <2> DEFINE extra == Lesser(w, end - tail_copy + 1)
  <2>1. end \in Nat /\ end >= tail_copy
    BY <1>1, <1>4, StrchrType
  <2>2. extra \in Nat /\ tail_copy + extra \in Int
    BY <1>1, <2>1 DEF Lesser
  <2>3. Chunk(tail_copy, extra) \in Seq(Items) /\ (tail_copy + extra) % Size \in Positions
    BY <1>1, <2>2, ChunkType, ModPosition
  <2> QED BY <1>4, <2>3 DEF LineInBlock, Filled
<1>5. CASE LineFull
  <2>1. Chunk(tail_copy, LineSize) \in Seq(Items) /\ (tail_copy + LineSize) % Size \in Positions
    BY <1>1, <1>2, ChunkType, ModPosition
  <2> QED BY <1>1, <1>2, <1>5, <2>1 DEF LineFull, Filled
<1>6. CASE LineAcrossEnd
  <2>1. PICK e \in Strchr(0) :
          LET extra == IF e = None THEN 0 ELSE Lesser(LineSize - w, e + 1)
          IN  Filled(Chunk(tail_copy, w) \o Chunk(0, extra), extra % Size)
    BY <1>6 DEF LineAcrossEnd
  <2> DEFINE extra == IF e = None THEN 0 ELSE Lesser(LineSize - w, e + 1)
  <2>2. e = None \/ e \in Nat
    <3>1. 0 \in Positions
      BY <1>1, SizeAssumption DEF Positions
    <3> QED BY <3>1, StrchrType
  <2>3. extra \in Nat
    BY <1>1, <1>2, <2>2 DEF Lesser
  <2>4. Chunk(tail_copy, w) \in Seq(Items) /\ Chunk(0, extra) \in Seq(Items)
    BY Zenon, <1>1, <2>3, ChunkType
  <2>5. extra % Size \in Positions
    BY <2>3, ModPosition
  <2>6. Chunk(tail_copy, w) \o Chunk(0, extra) \in Seq(Items)
    BY <2>4
  <2> QED BY <2>1, <2>5, <2>6 DEF Filled
<1>7. CASE Filled(Chunk(tail_copy, w), head_copy)
  BY <1>1, <1>7, ChunkType DEF Filled
<1> QED BY <1>3, <1>4, <1>5, <1>6, <1>7

\* Terminated and what makes it inductive: where main's write will move the
\* head to, the text is terminated too, unless its loop was interrupted
IInv ==
  /\ TypeOK
  /\ Terminated
  /\ pc \in {"write", "cut", "rest"} => printBuf \in Texts
  /\ pc \in {"cut", "rest"} => torn
  /\ pc \in {"cut", "rest"} => count <= Len(printBuf)
  /\ pc = "finish" => torn \/ NewHead(count) = 0 \/ buffer[NewHead(count)] = End

LEMMA InitIInv == Init => IInv
<1> SUFFICES ASSUME Init
             PROVE  IInv
  OBVIOUS
<1>1. 0 \in Positions
  BY SizeAssumption DEF Positions
<1>2. buffer \in [0 .. Size -> Items]
  BY DEF Init, Items
<1>3. line \in Seq(Items) /\ taken \in Seq(Items)
  BY DEF Init
<1>4. TypeOK
  BY Zenon, <1>1, <1>2, <1>3 DEF Init, TypeOK, Locations
<1> QED BY <1>4 DEF Init, IInv, Terminated

\* A callback's text is terminated where it ends
LEMMA CallbackKeeps ==
  ASSUME IInv, NEW text \in Texts, CallbackLogs(text)
  PROVE  IInv'
<1>1. TypeOK /\ Len(text) \in Nat
  BY TextsAssumption DEF IInv
<1>2. buffer' \in [0 .. Size -> Items]
  BY <1>1, CopiedType DEF CallbackLogs
<1>3. tail' \in Positions /\ head' \in Positions
  <2>1. (maxed \/ Reaches(text)) \in BOOLEAN
    BY <1>1 DEF TypeOK, Reaches
  <2> QED BY Zenon, <1>1, <2>1, IndexTypes DEF CallbackLogs
<1>4. TypeOK'
  <2>1. printBuf' \in Texts \cup {<<>>}
    BY <1>1, Zenon DEF CallbackLogs, PrintBufAfter, TypeOK
  <2>2. pc' \in Locations
    BY <1>1, Zenon DEF CallbackLogs, TypeOK, Locations
  <2> QED BY Zenon, <1>1, <1>2, <1>3, <2>1, <2>2 DEF CallbackLogs, TypeOK, locals, TornByWrite
<1>5. head' = 0 \/ buffer'[head'] = End
  BY <1>1, CopiedEnds DEF CallbackLogs
<1>6. pc = "finish" => torn'
  BY Zenon DEF CallbackLogs, TornByWrite
<1>7. pc' \in {"write", "cut", "rest"} => printBuf' \in Texts
  BY DEF CallbackLogs, PrintBufAfter, IInv
<1>8. pc' \in {"cut", "rest"} => count' <= Len(printBuf')
  <2>1. CASE pc \in {"cut", "rest"}
    BY <2>1, <1>1 DEF CallbackLogs, PrintBufAfter, locals, IInv, TypeOK, Positions
  <2>2. CASE pc \notin {"cut", "rest"}
    BY <2>2 DEF CallbackLogs
  <2> QED BY <2>1, <2>2
<1>9. pc' \in {"cut", "rest"} => torn'
  BY Zenon DEF CallbackLogs, IInv
<1>10. pc' = "finish" => torn'
  BY <1>6, Zenon DEF CallbackLogs
<1> QED BY <1>4, <1>5, <1>7, <1>8, <1>9, <1>10 DEF IInv, Terminated

\* main's text is terminated where it ends, before and after the indices move
LEMMA MainWriteKeeps ==
  ASSUME IInv, (\E text \in Texts : MainFormats(text)) \/ MainCopies \/ MainMoves
  PROVE  IInv'
<1>1. TypeOK
  BY DEF IInv
<1>2. CASE \E text \in Texts : MainFormats(text)
  BY <1>1, <1>2 DEF MainFormats, IInv, TypeOK, Terminated, locals, Locations
<1>3. CASE MainCopies
  <2>1. printBuf \in Texts /\ Len(printBuf) \in Positions
    BY <1>3, TextsAssumption, SizeAssumption DEF IInv, MainCopies, Positions
  <2>2. buffer' \in [0 .. Size -> Items]
    BY <1>1, <1>3, <2>1, CopiedType DEF MainCopies
  <2>3. TypeOK'
    BY Zenon, <1>1, <1>3, <2>1, <2>2 DEF MainCopies, TypeOK, Locations, Reaches
  <2>4. NewHead(count)' = 0 \/ buffer'[NewHead(count)'] = End
    BY <1>1, <1>3, <2>1, CopiedEnds DEF MainCopies, NewHead
  <2> QED BY <1>3, <2>3, <2>4 DEF IInv, Terminated, MainCopies
<1>4. CASE MainMoves
  <2>1. tail' \in Positions /\ head' \in Positions
    BY <1>1, <1>4, IndexTypes DEF MainMoves, TypeOK, Positions
  <2>2. TypeOK'
    BY <1>1, <1>4, <2>1, SizeAssumption DEF MainMoves, TypeOK, Locations, Positions
  <2> QED BY <1>4, <2>2 DEF IInv, Terminated, MainMoves
<1> QED BY <1>2, <1>3, <1>4

\* What main's loop copies leaves characters in the buffer
LEMMA CopiedToType ==
  ASSUME TypeOK, printBuf \in Texts, NEW k \in 0 .. Len(printBuf)
  PROVE  CopiedTo(k) \in [0 .. Size -> Items]
<1>1. ASSUME NEW p \in 0 .. Size, (p - head) % Size \in count .. k - 1
      PROVE  printBuf[((p - head) % Size) + 1] \in Items
  <2>1. printBuf \in Seq(Chars) /\ Len(printBuf) \in Nat /\ count \in Nat
    BY TextsAssumption, SizeAssumption DEF TypeOK, Positions
  <2>2. ((p - head) % Size) + 1 \in 1 .. Len(printBuf)
    BY <1>1, <2>1
  <2> QED BY <2>1, <2>2 DEF Items
<1> QED BY <1>1, SizeAssumption DEF CopiedTo, TypeOK, Items

\* Where main's loop is interrupted the indices stay, and are torn
LEMMA InterruptionKeeps ==
  ASSUME IInv, (\E k \in Positions : MainInterrupted(k)) \/ MainResumes
  PROVE  IInv'
<1>1. TypeOK /\ \A i : ReachesAt(i) \in BOOLEAN
  BY DEF IInv, ReachesAt
<1>2. ASSUME NEW k \in Positions, MainInterrupted(k) PROVE IInv'
  <2>1. printBuf \in Texts /\ pc' = "cut" /\ torn' /\ printBuf' = printBuf /\ count' = k
    BY <1>2 DEF IInv, MainInterrupted
  <2>2. Len(printBuf) \in Nat /\ count \in Nat /\ k \in 0 .. Len(printBuf)
    BY <1>1, <1>2, <2>1, TextsAssumption, SizeAssumption DEF MainInterrupted, TypeOK, Positions
  <2>3. buffer' \in [0 .. Size -> Items]
    BY <1>1, <1>2, <2>1, <2>2, CopiedToType DEF MainInterrupted
  <2>4. pos' \in Positions
    <3>1. head + k - 1 \in Int
      BY <1>1, <2>2, SizeAssumption DEF TypeOK, Positions
    <3> QED BY <1>2, <3>1, ModPosition DEF MainInterrupted
  <2>5. maxed' \in BOOLEAN
    BY <1>2, Zenon DEF MainInterrupted
  <2>6. TypeOK'
    BY <1>1, <1>2, <2>1, <2>3, <2>4, <2>5, Zenon DEF MainInterrupted, TypeOK, Locations
  <2> QED BY <2>1, <2>2, <2>6 DEF IInv, Terminated
<1>3. CASE MainResumes
  <2> DEFINE n == Len(printBuf)
             last == IF count < n THEN (head + n - 1) % Size ELSE pos
  <2>1. printBuf \in Texts /\ pc = "rest" /\ pc' = "finish" /\ torn /\ torn' = torn
    BY <1>3 DEF IInv, MainResumes
  <2>2. n \in Positions /\ n \in 0 .. n
    BY <2>1, TextsAssumption, SizeAssumption DEF Positions
  <2>3. CopiedTo(n) \in [0 .. Size -> Items]
    BY <1>1, <2>1, <2>2, CopiedToType
  <2>4. buffer' \in [0 .. Size -> Items]
    <3>1. buffer' = [CopiedTo(n) EXCEPT ![last + 1] = End]
      BY <1>3, Zenon DEF MainResumes
    <3> DEFINE f == CopiedTo(n)
    <3>2. f \in [0 .. Size -> Items] /\ End \in Items
      BY <2>3 DEF Items
    <3> HIDE DEF f, last
    <3>3. [f EXCEPT ![last + 1] = End] \in [0 .. Size -> Items]
      BY <3>2, Zenon
    <3> QED BY <3>1, <3>3, Zenon DEF f
  <2>5. maxed' \in BOOLEAN
    BY <1>3, Zenon DEF MainResumes
  <2>6. 0 \in Positions
    BY SizeAssumption DEF Positions
  <2>7. TypeOK'
    BY <1>1, <1>3, <2>2, <2>4, <2>5, <2>6, Zenon DEF MainResumes, TypeOK, Locations
  <2> QED BY <2>1, <2>7 DEF IInv, Terminated
<1> QED BY <1>2, <1>3

\* Printing moves the tail, and the head only to the start of the buffer
LEMMA PrintingKeeps ==
  ASSUME IInv,
         \/ PrintAvailableLogging \/ WhileNotEmpty \/ CopyHead \/ CopyTail \/ ConsumeLine
         \/ StoreMaxed \/ StoreTail \/ WillClear \/ ClearTest \/ ClearTail \/ ClearHead
  PROVE  IInv'
<1>1. TypeOK /\ Terminated /\ 0 \in Positions
  BY SizeAssumption DEF IInv, Positions
<1>2. CASE PrintAvailableLogging
  BY <1>1, <1>2 DEF PrintAvailableLogging, IInv, TypeOK, Terminated, bufferVars, locals, Locations
<1>3. CASE WhileNotEmpty
  BY <1>1, <1>3 DEF WhileNotEmpty, IInv, TypeOK, Terminated, bufferVars, locals, Locations
<1>4. CASE CopyHead
  BY <1>1, <1>4 DEF CopyHead, IInv, TypeOK, Terminated, bufferVars, Locations
<1>5. CASE CopyTail
  BY <1>1, <1>5 DEF CopyTail, IInv, TypeOK, Terminated, bufferVars, Locations
<1>6. CASE ConsumeLine
  <2>1. line' \in Seq(Items) /\ tail_copy' \in Positions
    BY <1>1, <1>6, ConsumeLineType
  <2>2. torn' \in BOOLEAN /\ (torn => torn')
    <3>1. torn' = torn \/ torn' = (torn \/ Misjudges)
      BY <1>6, Zenon DEF ConsumeLine
    <3> QED BY Zenon, <1>1, <3>1 DEF TypeOK
  <2>3. pc = "copy" /\ pc' = "storeMaxed" /\ UNCHANGED <<bufferVars, count, pos, head_copy, taken>>
    BY <1>6 DEF ConsumeLine
  <2>4. TypeOK'
    BY <1>1, <2>1, <2>2, <2>3 DEF TypeOK, bufferVars, Locations
  <2> QED BY <1>1, <2>2, <2>3, <2>4 DEF IInv, Terminated, bufferVars
<1>7. CASE StoreMaxed
  BY Zenon, <1>1, <1>7 DEF StoreMaxed, IInv, TypeOK, Terminated, locals, Locations
<1>8. CASE StoreTail
  BY <1>1, <1>8 DEF StoreTail, IInv, TypeOK, Terminated, Locations
<1>9. CASE WillClear
  BY <1>1, <1>9 DEF WillClear, IInv, TypeOK, Terminated, locals, Locations
<1>10. CASE ClearTest
  BY <1>1, <1>10 DEF ClearTest, IInv, TypeOK, Terminated, bufferVars, locals, Locations
<1>11. CASE ClearTail
  BY <1>1, <1>11 DEF ClearTail, IInv, TypeOK, Terminated, locals, Locations
<1>12. CASE ClearHead
  BY Zenon, <1>1, <1>12 DEF ClearHead, IInv, TypeOK, Terminated, locals, Locations
<1> QED BY <1>2, <1>3, <1>4, <1>5, <1>6, <1>7, <1>8, <1>9, <1>10, <1>11, <1>12

LEMMA NextKeeps == IInv /\ [Next]_vars => IInv'
<1> SUFFICES ASSUME IInv, [Next]_vars
             PROVE  IInv'
  OBVIOUS
<1>1. CASE UNCHANGED vars
  BY <1>1 DEF IInv, TypeOK, Terminated, NewHead, vars, bufferVars, locals
<1>2. CASE Main
  BY <1>2, MainWriteKeeps, InterruptionKeeps, PrintingKeeps DEF Main
<1>3. CASE \E text \in Texts : CallbackLogs(text)
  BY <1>3, CallbackKeeps
<1> QED BY <1>1, <1>2, <1>3 DEF Next

\* head, tail and the copies that consume_line makes of them are positions of the
\* buffer in every reachable state: no callback that logs between main's loads
\* and stores makes writeF or consume_line leave the array
THEOREM Indices == Spec => []TypeOK
<1>1. IInv => TypeOK
  BY DEF IInv
<1> QED BY InitIInv, NextKeeps, <1>1, PTL DEF Spec

\* The text in the buffer is followed by the end item that consume_line's strchr
\* stops at
THEOREM TextTerminated == Spec => []Terminated
<1>1. IInv => Terminated
  BY DEF IInv
<1> QED BY InitIInv, NextKeeps, <1>1, PTL DEF Spec
----------------------------------------------------------------------------
(* What is in the buffer *)

\* % fixed_size over the sums and differences of positions
Wrapped(x) == IF x < 0 THEN x + Size ELSE IF x < Size THEN x ELSE x - Size

LEMMA ModOfDifference ==
  ASSUME NEW x \in Int, -Size <= x, x < 2 * Size
  PROVE  x % Size = Wrapped(x)
  BY SizeAssumption DEF Wrapped

\* The items of b from first to last, and how many they are
Used(first, last) == (last - first) % Size
Slice(b, first, last) == [i \in 1 .. Used(first, last) |-> b[(first + i - 1) % Size]]

LEMMA UsedType ==
  ASSUME NEW t \in Positions, NEW h \in Positions
  PROVE  /\ Used(t, h) \in 0 .. Size - 1
         /\ Used(t, h) = IF h < t THEN h - t + Size ELSE h - t
<1>1. /\ h - t \in Int /\ -Size <= h - t /\ h - t < 2 * Size
      /\ h \in 0 .. Size - 1 /\ t \in 0 .. Size - 1 /\ Size \in Nat
  BY SizeAssumption DEF Positions
<1>2. Used(t, h) = Wrapped(h - t)
  BY <1>1, ModOfDifference, Zenon DEF Used
<1> QED BY <1>1, <1>2 DEF Wrapped

\* Its items, counted from the first and from the last position
LEMMA SliceItems ==
  ASSUME NEW b \in [0 .. Size -> Items], NEW t \in Positions, NEW h \in Positions
  PROVE  /\ Slice(b, t, h) \in Seq(Items)
         /\ Len(Slice(b, t, h)) = Used(t, h)
         /\ \A i \in 1 .. Used(t, h) :
              /\ Slice(b, t, h)[i] = b[(t + i - 1) % Size]
              /\ Slice(b, t, h)[i] = b[(h - (Used(t, h) - i + 1)) % Size]
<1> DEFINE u == Used(t, h)
<1>1. /\ u \in 0 .. Size - 1 /\ u = IF h < t THEN h - t + Size ELSE h - t
      /\ t \in 0 .. Size - 1 /\ h \in 0 .. Size - 1 /\ Size \in Nat
  BY UsedType, SizeAssumption DEF Positions
<1> HIDE DEF u
<1>2. ASSUME NEW i \in 1 .. u
      PROVE  /\ (t + i - 1) % Size = (h - (u - i + 1)) % Size
             /\ (t + i - 1) % Size \in 0 .. Size
  <2>1. t + i - 1 \in Int /\ -Size <= t + i - 1 /\ t + i - 1 < 2 * Size
    BY <1>1
  <2>2. /\ h - (u - i + 1) \in Int /\ -Size <= h - (u - i + 1)
        /\ h - (u - i + 1) < 2 * Size
    BY <1>1
  <2>3. /\ (t + i - 1) % Size = Wrapped(t + i - 1)
        /\ (h - (u - i + 1)) % Size = Wrapped(h - (u - i + 1))
    BY <2>1, <2>2, ModOfDifference, Zenon
  <2>4. Wrapped(t + i - 1) = Wrapped(h - (u - i + 1)) /\ Wrapped(t + i - 1) \in 0 .. Size
    BY <1>1 DEF Wrapped
  <2> QED BY <2>3, <2>4, Zenon
<1>3. Slice(b, t, h) = [i \in 1 .. u |-> b[(t + i - 1) % Size]] /\ u \in Nat
  BY <1>1 DEF Slice, u
<1>4. \A i \in 1 .. u : b[(t + i - 1) % Size] \in Items
  BY <1>2
<1> QED BY <1>2, <1>3, <1>4 DEF u

\* A sequence with the items of another one from m to n
LEMMA SubSeqIs ==
  ASSUME NEW S, NEW s \in Seq(S), NEW q \in Seq(S),
         NEW m \in 1 .. Len(s) + 1, NEW n \in m - 1 .. Len(s), Len(q) = n - m + 1,
         \A i \in 1 .. n - m + 1 : q[i] = s[m + i - 1]
  PROVE  q = SubSeq(s, m, n)
<1>1. m \in Int /\ n \in Int /\ (\A i \in m .. n : s[i] \in S) /\ n - m + 1 \in Nat
  <2>1. Len(s) \in Nat
    OBVIOUS
  <2>2. m \in Int /\ n \in Int /\ n - m + 1 \in Nat
    BY <2>1
  <2>3. ASSUME NEW i \in m .. n PROVE s[i] \in S
    <3>1. i \in 1 .. Len(s)
      BY <2>1, <2>2
    <3> QED BY <3>1
  <2> QED BY <2>2, <2>3
<1>2. /\ SubSeq(s, m, n) \in Seq(S)
      /\ Len(SubSeq(s, m, n)) = IF m <= n THEN n - m + 1 ELSE 0
      /\ \A i \in 1 .. n - m + 1 : SubSeq(s, m, n)[i] = s[m + i - 1]
  BY <1>1, SubSeqProperties
<1>3. Len(SubSeq(s, m, n)) = Len(q)
  BY <1>1, <1>2
<1>4. \A i \in 1 .. Len(q) : q[i] = SubSeq(s, m, n)[i]
  BY <1>2
<1> QED BY <1>2, <1>3, <1>4, SeqEqual

\* Taking the first n items moves the first position by n
LEMMA SliceRest ==
  ASSUME NEW b \in [0 .. Size -> Items], NEW t \in Positions, NEW h \in Positions,
         NEW n \in 0 .. Used(t, h)
  PROVE  /\ (t + n) % Size \in Positions
         /\ Used((t + n) % Size, h) = Used(t, h) - n
         /\ Slice(b, (t + n) % Size, h) = SubSeq(Slice(b, t, h), n + 1, Used(t, h))
<1> DEFINE u == Used(t, h)
           k == (t + n) % Size
           s == Slice(b, t, h)
           q == Slice(b, k, h)
           w == Used(k, h)
<1>1. /\ u \in 0 .. Size - 1 /\ u = IF h < t THEN h - t + Size ELSE h - t
      /\ t \in 0 .. Size - 1 /\ h \in 0 .. Size - 1 /\ Size \in Nat
      /\ n \in 0 .. u
  BY UsedType, SizeAssumption DEF Positions
<1> HIDE DEF u
<1>2. k = Wrapped(t + n)
  <2>1. t + n \in Int /\ -Size <= t + n /\ t + n < 2 * Size
    BY <1>1
  <2> QED BY <2>1, ModOfDifference, Zenon
<1> HIDE DEF k
<1>3. k \in Positions
  BY <1>1, <1>2 DEF Positions, Wrapped
<1>4. w = IF h < k THEN h - k + Size ELSE h - k
  BY <1>3, UsedType
<1> HIDE DEF w
<1>5. w = u - n
  BY <1>1, <1>2, <1>4 DEF Wrapped
<1>6. /\ s \in Seq(Items) /\ Len(s) = u
      /\ \A i \in 1 .. u : s[i] = b[(h - (u - i + 1)) % Size]
  BY Zenon, SliceItems DEF u
<1>7. /\ q \in Seq(Items) /\ Len(q) = w
      /\ \A i \in 1 .. w : q[i] = b[(h - (w - i + 1)) % Size]
  BY Zenon, <1>3, SliceItems DEF w
<1> HIDE DEF s, q
<1>8. ASSUME NEW i \in 1 .. u - (n + 1) + 1 PROVE q[i] = s[(n + 1) + i - 1]
  <2>1. /\ i \in 1 .. w /\ (n + 1) + i - 1 \in 1 .. u
        /\ u - ((n + 1) + i - 1) + 1 = w - i + 1
    BY <1>1, <1>5
  <2> QED BY <1>6, <1>7, <2>1
<1>9. n + 1 \in 1 .. Len(s) + 1 /\ u \in (n + 1) - 1 .. Len(s) /\ Len(q) = u - (n + 1) + 1
  BY <1>1, <1>5, <1>6, <1>7
<1>10. q = SubSeq(s, n + 1, u)
  BY <1>6, <1>7, <1>8, <1>9, SubSeqIs
<1> QED BY <1>3, <1>5, <1>10 DEF u, k, s, q, w

\* A copy writes the text from the head on and, outside the text and the end item
\* behind it, leaves what was there: the items before the new head, counted from it
LEMMA CopiedItems ==
  ASSUME TypeOK, NEW text \in Texts, NEW r \in 1 .. Size - 1
  PROVE  Copied(text)[(NewHead(Len(text)) - r) % Size]
           = IF r <= Len(text) THEN text[Len(text) - r + 1]
             ELSE buffer[(head - (r - Len(text))) % Size]
<1> DEFINE n == Len(text)
           h == NewHead(n)
           p == (h - r) % Size
           o == (p - head) % Size
           last == (head + n - 1) % Size
           q == (head - (r - n)) % Size
<1>1. head \in 0 .. Size - 1 /\ n \in 1 .. Size - 1 /\ Size \in Nat
  BY TextsAssumption, SizeAssumption DEF TypeOK, Positions
<1> HIDE DEF n
<1>2. h = Wrapped(head + n) /\ last = Wrapped(head + n - 1)
  <2>1. /\ head + n \in Int /\ -Size <= head + n /\ head + n < 2 * Size
        /\ head + n - 1 \in Int /\ -Size <= head + n - 1 /\ head + n - 1 < 2 * Size
    BY <1>1
  <2> QED BY <2>1, ModOfDifference, Zenon DEF NewHead
<1> HIDE DEF h, last
<1>3. h \in 0 .. Size - 1
  BY <1>1, <1>2 DEF Wrapped
<1>4. p = Wrapped(h - r)
  <2>1. h - r \in Int /\ -Size <= h - r /\ h - r < 2 * Size
    BY <1>1, <1>3
  <2> QED BY <2>1, ModOfDifference, Zenon
<1> HIDE DEF p
<1>5. p \in 0 .. Size - 1
  BY <1>1, <1>3, <1>4 DEF Wrapped
<1>6. o = Wrapped(p - head)
  <2>1. p - head \in Int /\ -Size <= p - head /\ p - head < 2 * Size
    BY <1>1, <1>5
  <2> QED BY <2>1, ModOfDifference, Zenon
<1> HIDE DEF o
<1>7. p # last + 1
  BY <1>1, <1>2, <1>4 DEF Wrapped
<1>8. Copied(text)[p] = IF o < n THEN text[o + 1] ELSE buffer[p]
  <2>1. p \in 0 .. Size /\ p < Size
    BY <1>1, <1>5
  <2> QED BY <1>7, <2>1 DEF Copied, last, o, n
<1>9. CASE r <= n
  <2>1. o < n /\ o + 1 = n - r + 1
    BY <1>1, <1>2, <1>4, <1>6, <1>9 DEF Wrapped
  <2> QED BY <1>8, <1>9, <2>1 DEF p, h, n
<1>10. CASE ~(r <= n)
  <2>1. q = Wrapped(head - (r - n))
    <3>1. /\ head - (r - n) \in Int /\ -Size <= head - (r - n)
          /\ head - (r - n) < 2 * Size
      BY <1>1, <1>10
    <3> QED BY <3>1, ModOfDifference, Zenon
  <2>2. ~(o < n) /\ p = q
    BY <1>1, <1>2, <1>4, <1>6, <1>10, <2>1 DEF Wrapped
  <2> QED BY <1>8, <1>10, <2>2 DEF p, h, n
<1> QED BY <1>9, <1>10

\* Where a write moves the indices to, and how much is then in the buffer
LEMMA WrittenUsed ==
  ASSUME TypeOK, NEW n \in 1 .. Size - 1, NEW full \in BOOLEAN,
         ~full => Used(tail, head) + n <= Size - 1
  PROVE  /\ NewTail(n, full) \in Positions /\ NewHead(n) \in Positions
         /\ Used(NewTail(n, full), NewHead(n)) = IF full THEN Size - 1 ELSE Used(tail, head) + n
<1> DEFINE u == Used(tail, head)
           h == NewHead(n)
           t == NewTail(n, full)
           w == Used(t, h)
<1>1. /\ head \in 0 .. Size - 1 /\ tail \in 0 .. Size - 1 /\ Size \in Nat
      /\ tail \in Positions /\ head \in Positions
  BY SizeAssumption DEF TypeOK, Positions
<1>2. u = IF head < tail THEN head - tail + Size ELSE head - tail
  BY <1>1, UsedType
<1> HIDE DEF u
<1>3. h = Wrapped(head + n) /\ t = IF full THEN Wrapped(head + n + 1) ELSE tail
  <2>1. /\ head + n \in Int /\ -Size <= head + n /\ head + n < 2 * Size
        /\ head + n + 1 \in Int /\ -Size <= head + n + 1 /\ head + n + 1 < 2 * Size
    BY <1>1
  <2> QED BY <2>1, ModOfDifference, Zenon DEF NewHead, NewTail
<1> HIDE DEF h, t
<1>4. h \in Positions /\ t \in Positions
  BY <1>1, <1>3 DEF Wrapped, Positions
<1>5. w = IF h < t THEN h - t + Size ELSE h - t
  BY <1>4, UsedType
<1> HIDE DEF w
<1>6. CASE full
  <2>1. t = Wrapped(head + n + 1)
    BY <1>3, <1>6
  <2>2. w = Size - 1
    BY <1>1, <1>3, <1>5, <2>1 DEF Wrapped
  <2> QED BY Zenon, <1>4, <1>6, <2>2 DEF w, t, h, u
<1>7. CASE ~full
  <2>1. t = tail /\ u + n <= Size - 1
    BY <1>3, <1>7 DEF u
  <2>2. w = u + n
    BY <1>1, <1>2, <1>3, <1>5, <2>1 DEF Wrapped
  <2> QED BY <1>4, <1>7, <2>2 DEF w, t, h, u
<1> QED BY <1>6, <1>7

\* A write puts the text behind what is in the buffer, and drops the oldest items
\* if and only if there is no room for all of them
LEMMA WritePuts ==
  ASSUME TypeOK, NEW text \in Texts, NEW full \in BOOLEAN,
         full => Used(tail, head) + Len(text) >= Size - 1,
         ~full => Used(tail, head) + Len(text) <= Size - 1
  PROVE  Slice(Copied(text), NewTail(Len(text), full), NewHead(Len(text)))
           = Promise!Latest(Slice(buffer, tail, head) \o text)
<1> DEFINE n == Len(text)
           u == Used(tail, head)
           h == NewHead(n)
           t == NewTail(n, full)
           w == Used(t, h)
           s == Slice(buffer, tail, head)
           v == s \o text
           b == Copied(text)
           q == Slice(b, t, h)
<1>1. /\ tail \in Positions /\ head \in Positions /\ Size \in Nat
      /\ n \in 1 .. Size - 1 /\ u \in 0 .. Size - 1
      /\ buffer \in [0 .. Size -> Items] /\ text \in Seq(Items)
  <2>1. tail \in Positions /\ head \in Positions /\ buffer \in [0 .. Size -> Items]
    BY Zenon DEF TypeOK
  <2>2. text \in Seq(Chars) /\ n \in 1 .. Size - 1 /\ Size \in Nat
    BY TextsAssumption, SizeAssumption
  <2>3. text \in Seq(Items)
    BY <2>2 DEF Items
  <2> QED BY <2>1, <2>2, <2>3, UsedType, Zenon
<1>2. b \in [0 .. Size -> Items]
  BY CopiedType
<1>3. t \in Positions /\ h \in Positions /\ w = IF full THEN Size - 1 ELSE u + n
  BY <1>1, WrittenUsed
<1>4. /\ s \in Seq(Items) /\ Len(s) = u
      /\ \A i \in 1 .. u : s[i] = buffer[(head - (u - i + 1)) % Size]
  BY <1>1, SliceItems
<1>5. /\ q \in Seq(Items) /\ Len(q) = w
      /\ \A i \in 1 .. w : q[i] = b[(h - (w - i + 1)) % Size]
  BY Zenon, <1>2, <1>3, SliceItems
<1>6. \A r \in 1 .. Size - 1 :
        b[(h - r) % Size] = IF r <= n THEN text[n - r + 1] ELSE buffer[(head - (r - n)) % Size]
  BY CopiedItems
<1>7. (full => u + n >= Size - 1) /\ (~full => u + n <= Size - 1)
  OBVIOUS
<1> HIDE DEF n, u, h, t, w, s, b, q
<1>8. /\ v \in Seq(Items) /\ Len(v) = u + n
      /\ \A i \in 1 .. u + n : v[i] = IF i <= u THEN s[i] ELSE text[i - u]
  <2>1. Len(text) = n
    BY DEF n
  <2>2. /\ v \in Seq(Items) /\ Len(v) = Len(s) + Len(text)
        /\ \A i \in 1 .. Len(s) + Len(text) :
             v[i] = IF i <= Len(s) THEN s[i] ELSE text[i - Len(s)]
    BY <1>1, <1>4, ConcatProperties, Zenon
  <2> QED BY <1>4, <2>1, <2>2
<1> HIDE DEF v
<1>9. w \in 0 .. Size - 1 /\ w <= u + n
  BY <1>1, <1>3, <1>7
<1> DEFINE d == u + n - w
<1>10. ASSUME NEW i \in 1 .. w PROVE q[i] = v[d + i]
  <2> DEFINE r == w - i + 1
             k == d + i
  <2>1. r \in 1 .. Size - 1 /\ r \in 1 .. w /\ k \in 1 .. u + n /\ k = u + n - r + 1
    BY <1>1, <1>9
  <2>2. q[i] = b[(h - r) % Size]
    BY <1>5
  <2> HIDE DEF r, k
  <2>3. q[i] = IF r <= n THEN text[n - r + 1] ELSE buffer[(head - (r - n)) % Size]
    BY <1>6, <2>1, <2>2, Zenon
  <2>4. v[k] = IF k <= u THEN s[k] ELSE text[k - u]
    BY <1>8, <2>1, Zenon
  <2>5. CASE r <= n
    <3>1. ~(k <= u) /\ k - u = n - r + 1
      BY <1>1, <2>1, <2>5
    <3> QED BY <2>3, <2>4, <2>5, <3>1, Zenon DEF k
  <2>6. CASE ~(r <= n)
    <3>1. k <= u /\ k \in 1 .. u /\ u - k + 1 = r - n
      BY <1>1, <2>1, <2>6
    <3>2. s[k] = buffer[(head - (r - n)) % Size]
      BY <1>4, <3>1, Zenon
    <3> QED BY <2>3, <2>4, <2>6, <3>1, <3>2, Zenon DEF k
  <2> QED BY <2>5, <2>6
<1>11. q = SubSeq(v, d + 1, u + n)
  <2> DEFINE m == d + 1
             e == u + n
  <2>1. m = u + n - w + 1 /\ e = u + n /\ m \in Int /\ e \in Int
    BY <1>1, <1>9
  <2> HIDE DEF m, e
  <2>2. /\ m \in 1 .. Len(v) + 1 /\ e \in m - 1 .. Len(v) /\ Len(q) = e - m + 1
        /\ w = e - m + 1
    BY <1>1, <1>5, <1>8, <1>9, <2>1
  <2>3. ASSUME NEW i \in 1 .. e - m + 1 PROVE q[i] = v[m + i - 1]
    <3>1. i \in 1 .. w /\ m + i - 1 = d + i
      BY <1>1, <1>9, <2>1, <2>2
    <3> QED BY <1>10, <3>1, Zenon
  <2>4. q = SubSeq(v, m, e)
    BY <1>5, <1>8, <2>2, <2>3, SubSeqIs
  <2> QED BY <2>4, Zenon DEF m, e
<1>12. q = Promise!Latest(v)
  <2>1. CASE u + n <= Size - 1
    <3>1. w = u + n
      BY <1>1, <1>3, <1>7, <2>1
    <3>2. q = SubSeq(v, 1, Len(v))
      BY <1>1, <1>8, <1>9, <1>11, <3>1
    <3>3. q = v
      BY <1>8, <3>2, SubSeqFull, Zenon
    <3>4. Len(v) <= Size - 1
      BY <1>8, <2>1
    <3> QED BY <3>3, <3>4 DEF Promise!Latest
  <2>2. CASE ~(u + n <= Size - 1)
    <3>1. w = Size - 1
      BY <1>1, <1>3, <1>7, <2>2
    <3>2. d + 1 = Len(v) - (Size - 1) + 1 /\ u + n = Len(v) /\ ~(Len(v) <= Size - 1)
      BY <1>1, <1>8, <2>2, <3>1
    <3> HIDE DEF d
    <3>3. q = SubSeq(v, Len(v) - (Size - 1) + 1, Len(v))
      BY <1>11, <3>2, Zenon
    <3> QED BY Zenon, <3>2, <3>3 DEF Promise!Latest
  <2> QED BY <2>1, <2>2
<1> QED BY <1>12 DEF q, v, s, b, t, h, n

\* When write finds the buffer full: exactly when the text does not fit, or fills it
\* to the gap before the tail
LEMMA FullWhenReached ==
  ASSUME TypeOK, NEW n \in 1 .. Size - 1, NEW text, Len(text) = n, maxed <=> head = tail - 1
  PROVE  /\ maxed \/ Reaches(text) => Used(tail, head) + n >= Size - 1
         /\ ~(maxed \/ Reaches(text)) => Used(tail, head) + n <= Size - 1
<1> DEFINE u == Used(tail, head)
           at(i) == (head + i) % Size
           next(i) == (at(i) + 1) % Size
<1>1. /\ head \in 0 .. Size - 1 /\ tail \in 0 .. Size - 1 /\ Size \in Nat
      /\ tail \in Positions /\ head \in Positions
  BY SizeAssumption DEF TypeOK, Positions
<1>2. u = IF head < tail THEN head - tail + Size ELSE head - tail
  BY <1>1, UsedType
<1>3. ASSUME NEW i \in 0 .. n - 1
      PROVE  at(i) = Wrapped(head + i) /\ next(i) = Wrapped(Wrapped(head + i) + 1)
  <2>1. head + i \in Int /\ -Size <= head + i /\ head + i < 2 * Size
    BY <1>1
  <2>2. at(i) = Wrapped(head + i)
    BY <2>1, ModOfDifference, Zenon
  <2>3. /\ Wrapped(head + i) + 1 \in Int /\ -Size <= Wrapped(head + i) + 1
        /\ Wrapped(head + i) + 1 < 2 * Size
    BY <1>1 DEF Wrapped
  <2>4. (Wrapped(head + i) + 1) % Size = Wrapped(Wrapped(head + i) + 1)
    BY <2>3, ModOfDifference, Zenon
  <2> QED BY <2>2, <2>4, Zenon
<1>4. Reaches(text) <=> \E i \in 0 .. n - 1 : next(i) = tail - 1 \/ (tail = 0 /\ at(i) = Size - 1)
  BY Zenon DEF Reaches, ReachesAt
<1> HIDE DEF u, at, next
<1>5. ASSUME maxed PROVE u + n >= Size - 1
  <2>1. head = tail - 1
    BY <1>5
  <2> QED BY <1>1, <1>2, <2>1
<1>6. ASSUME Reaches(text) PROVE u + n >= Size - 1
  <2>1. PICK i \in 0 .. n - 1 : next(i) = tail - 1 \/ (tail = 0 /\ at(i) = Size - 1)
    BY <1>4, <1>6, Zenon
  <2>2. at(i) = Wrapped(head + i) /\ next(i) = Wrapped(Wrapped(head + i) + 1)
    BY <1>3, Zenon
  <2> QED BY <1>1, <1>2, <2>1, <2>2 DEF Wrapped
<1>7. ASSUME ~maxed, ~Reaches(text), ~(u + n <= Size - 1) PROVE FALSE
  <2>1. CASE tail = 0
    <3> DEFINE i == Size - 1 - head
    <3>1. i \in 0 .. n - 1 /\ Wrapped(head + i) = Size - 1
      BY <1>1, <1>2, <1>7, <2>1 DEF Wrapped
    <3> HIDE DEF i
    <3>2. at(i) = Size - 1
      BY <1>3, <3>1, Zenon
    <3> QED BY <1>4, <1>7, <2>1, <3>1, <3>2, Zenon
  <2>2. CASE tail # 0
    <3> DEFINE i == Size - 2 - u
    <3>1. head # tail - 1
      BY <1>7
    <3>2. i \in 0 .. n - 1 /\ Wrapped(Wrapped(head + i) + 1) = tail - 1
      BY <1>1, <1>2, <1>7, <2>2, <3>1 DEF Wrapped
    <3> HIDE DEF i
    <3>3. next(i) = tail - 1
      BY <1>3, <3>2, Zenon
    <3> QED BY <1>4, <1>7, <3>2, <3>3, Zenon
  <2> QED BY <2>1, <2>2
<1> QED BY <1>5, <1>6, <1>7 DEF u
----------------------------------------------------------------------------
(* What consume_line takes *)

\* strchr stops at the first newline, unless an end item is before it
LEMMA StrchrStops ==
  ASSUME NEW p \in Positions, NEW end \in Strchr(p)
  PROVE  /\ end # None => \A q \in p .. Size : q < end => buffer[q] # NewLine
         /\ end # None => \A q \in p .. Size : buffer[q] = End => end < q
         /\ end = None => \A q \in p .. Size :
                            (\A r \in p .. q : buffer[r] # End) => buffer[q] # NewLine
<1> DEFINE stops == {q \in p .. Size : buffer[q] \in {NewLine, End}}
           first == {q \in stops : \A r \in stops : q <= r}
<1>1. p \in Nat /\ Size \in Nat /\ NewLine # End /\ None = -1
  BY SizeAssumption, TextsAssumption DEF Positions, None
<1>2. CASE stops = {}
  <2>1. ASSUME NEW q \in p .. Size PROVE buffer[q] # NewLine /\ buffer[q] # End
    BY <1>2
  <2> QED BY <2>1
<1>3. CASE stops # {}
  <2>1. PICK x \in first : end = IF buffer[x] = NewLine THEN x ELSE None
    BY <1>3 DEF Strchr
  <2>2. x \in p .. Size /\ buffer[x] \in {NewLine, End} /\ x # None
    BY <1>1
  <2>3. ASSUME NEW q \in p .. Size, buffer[q] \in {NewLine, End} PROVE x <= q
    BY <2>3
  <2>4. ASSUME end # None, NEW q \in p .. Size, q < end PROVE buffer[q] # NewLine
    <3>1. end = x
      BY <2>1, <2>4
    <3> QED BY <1>1, <2>2, <2>3, <2>4, <3>1
  <2>5. ASSUME end # None, NEW q \in p .. Size, buffer[q] = End PROVE end < q
    <3>1. end = x /\ buffer[x] = NewLine
      BY <2>1, <2>5
    <3>2. x <= q
      BY <2>3, <2>5
    <3>3. x # q
      BY <1>1, <2>5, <3>1
    <3> QED BY <1>1, <2>2, <3>1, <3>2, <3>3
  <2>6. ASSUME end = None, NEW q \in p .. Size, \A r \in p .. q : buffer[r] # End
        PROVE  buffer[q] # NewLine
    <3>1. SUFFICES ASSUME buffer[q] = NewLine
                   PROVE  FALSE
      OBVIOUS
    <3>2. x <= q
      BY <2>3, <3>1
    <3>3. x \in p .. q
      BY <1>1, <2>2, <3>2
    <3>4. buffer[x] = End
      BY <2>1, <2>2, <2>6
    <3> QED BY <2>6, <3>3, <3>4
  <2> QED BY <2>4, <2>5, <2>6
<1> QED BY <1>2, <1>3

\* The item at a place in the buffer, before and behind its end
LEMMA SliceAt ==
  ASSUME NEW b \in [0 .. Size -> Items], NEW t \in Positions, NEW h \in Positions,
         NEW i \in 1 .. Used(t, h)
  PROVE  Slice(b, t, h)[i] = IF t + i - 1 < Size THEN b[t + i - 1] ELSE b[t + i - 1 - Size]
<1>1. t \in 0 .. Size - 1 /\ Used(t, h) \in 0 .. Size - 1 /\ Size \in Nat
  BY UsedType, SizeAssumption DEF Positions
<1>2. t + i - 1 \in Int /\ -Size <= t + i - 1 /\ t + i - 1 < 2 * Size
  BY <1>1
<1>3. (t + i - 1) % Size = Wrapped(t + i - 1)
  BY <1>2, ModOfDifference, Zenon
<1>4. Slice(b, t, h)[i] = b[(t + i - 1) % Size]
  BY Zenon, SliceItems
<1>5. Slice(b, t, h)[i] = b[Wrapped(t + i - 1)]
  BY <1>3, <1>4, Zenon
<1> QED BY <1>1, <1>5 DEF Wrapped

\* One block copied from the tail on is what is next in the buffer
LEMMA ChunkIsNext ==
  ASSUME TypeOK, NEW t \in Positions, NEW h \in Positions, NEW n \in 0 .. Used(t, h),
         t + n <= Size
  PROVE  Chunk(t, n) = SubSeq(Slice(buffer, t, h), 1, n)
<1> DEFINE u == Used(t, h)
           s == Slice(buffer, t, h)
           c == Chunk(t, n)
<1>1. /\ t \in 0 .. Size - 1 /\ u \in 0 .. Size - 1 /\ Size \in Nat /\ n \in Nat /\ t \in Nat
      /\ n <= u /\ buffer \in [0 .. Size -> Items]
  BY UsedType, SizeAssumption DEF Positions, TypeOK
<1>2. s \in Seq(Items) /\ Len(s) = u
  BY <1>1, SliceItems
<1>3. c \in Seq(Items)
  BY <1>1, ChunkType
<1>4. Len(c) = n /\ \A i \in 1 .. n : c[i] = IF t + i - 1 <= Size THEN buffer[t + i - 1] ELSE Junk
  BY <1>1 DEF Chunk
<1>5. ASSUME NEW i \in 1 .. n PROVE c[i] = s[i]
  <2>1. i \in 1 .. u /\ t + i - 1 <= Size /\ t + i - 1 < Size
    BY <1>1
  <2>2. s[i] = buffer[t + i - 1]
    BY <1>1, <2>1, SliceAt
  <2> QED BY <1>4, <2>1, <2>2
<1> HIDE DEF u, s, c
<1>6. 1 \in 1 .. Len(s) + 1 /\ n \in 1 - 1 .. Len(s) /\ Len(c) = n - 1 + 1
  BY <1>1, <1>2, <1>4
<1>7. \A i \in 1 .. n - 1 + 1 : c[i] = s[1 + i - 1]
  <2>1. ASSUME NEW i \in 1 .. n - 1 + 1 PROVE i \in 1 .. n /\ 1 + i - 1 = i
    BY <1>1
  <2> QED BY <1>5, <2>1
<1>8. c = SubSeq(s, 1, n)
  BY <1>2, <1>3, <1>6, <1>7, SubSeqIs
<1> QED BY <1>8 DEF c, s

\* The block to the end of the buffer and one from its start are what is next
TwoChunks(t, x) == Chunk(t, Size - t) \o Chunk(0, x)

LEMMA ChunksAreNext ==
  ASSUME TypeOK, NEW t \in Positions, NEW h \in Positions, h < t, NEW x \in 0 .. h
  PROVE  TwoChunks(t, x) = SubSeq(Slice(buffer, t, h), 1, Size - t + x)
<1> DEFINE u == Used(t, h)
           w == Size - t
           s == Slice(buffer, t, h)
           c == Chunk(t, w)
           d == Chunk(0, x)
           e == c \o d
<1>1. /\ t \in 0 .. Size - 1 /\ h \in 0 .. Size - 1 /\ Size \in Nat /\ x \in Nat /\ w \in Nat
      /\ t \in Nat /\ 0 \in Nat /\ buffer \in [0 .. Size -> Items]
  BY SizeAssumption DEF Positions, TypeOK
<1>2. u = h - t + Size
  BY UsedType
<1>3. s \in Seq(Items) /\ Len(s) = u
  BY <1>1, SliceItems
<1>4. c \in Seq(Items) /\ d \in Seq(Items)
  BY Zenon, <1>1, ChunkType
<1>5. /\ Len(c) = w
      /\ \A i \in 1 .. w : c[i] = IF t + i - 1 <= Size THEN buffer[t + i - 1] ELSE Junk
  BY <1>1 DEF Chunk
<1>6. /\ Len(d) = x
      /\ \A i \in 1 .. x : d[i] = IF 0 + i - 1 <= Size THEN buffer[0 + i - 1] ELSE Junk
  BY <1>1 DEF Chunk
<1> HIDE DEF c, d
<1>7. /\ e \in Seq(Items) /\ Len(e) = Len(c) + Len(d)
      /\ \A i \in 1 .. Len(c) + Len(d) : e[i] = IF i <= Len(c) THEN c[i] ELSE d[i - Len(c)]
  BY <1>4, ConcatProperties, Zenon
<1>8. ASSUME NEW i \in 1 .. u PROVE s[i] = IF t + i - 1 < Size THEN buffer[t + i - 1]
                                           ELSE buffer[t + i - 1 - Size]
  BY <1>1, SliceAt
<1> HIDE DEF u, s, e
<1>9. ASSUME NEW i \in 1 .. w + x PROVE e[i] = s[i]
  <2>1. i \in 1 .. u /\ e[i] = IF i <= w THEN c[i] ELSE d[i - w]
    BY <1>1, <1>2, <1>5, <1>6, <1>7
  <2>2. CASE i <= w
    <3>1. i \in 1 .. w /\ t + i - 1 <= Size /\ t + i - 1 < Size
      BY <1>1, <2>2
    <3> QED BY <1>5, <1>8, <2>1, <2>2, <3>1
  <2>3. CASE ~(i <= w)
    <3>1. /\ i - w \in 1 .. x /\ 0 + (i - w) - 1 <= Size /\ ~(t + i - 1 < Size)
          /\ 0 + (i - w) - 1 = t + i - 1 - Size
      BY <1>1, <2>3
    <3>2. d[i - w] = buffer[t + i - 1 - Size]
      BY <1>6, <3>1
    <3> QED BY <1>8, <2>1, <2>3, <3>1, <3>2
  <2> QED BY <2>2, <2>3
<1> DEFINE n == w + x
<1>10. /\ n \in Nat /\ 1 \in 1 .. Len(s) + 1 /\ n \in 1 - 1 .. Len(s)
       /\ Len(e) = n - 1 + 1
  BY <1>1, <1>2, <1>3, <1>5, <1>6, <1>7
<1>11. ASSUME NEW i \in 1 .. n - 1 + 1 PROVE e[i] = s[1 + i - 1]
  <2>1. i \in 1 .. w + x /\ 1 + i - 1 = i
    BY <1>10
  <2> QED BY <1>9, <2>1
<1> HIDE DEF n
<1>12. e = SubSeq(s, 1, n)
  BY Zenon, <1>3, <1>7, <1>10, <1>11, SubSeqIs
<1> QED BY Zenon, <1>12 DEF c, d, e, s, n, TwoChunks

\* l is a line at the start of s, and k is where it leaves the tail t
Takes(s, l, t, k) ==
  \E n \in 1 .. LineSize :
    /\ n <= Len(s)
    /\ \A i \in 1 .. n - 1 : s[i] # NewLine
    /\ l = SubSeq(s, 1, n)
    /\ k = (t + n) % Size

\* consume_line takes a line from the start of what is in the buffer, unless it
\* misjudges the second block
LEMMA ConsumeLineTakes ==
  ASSUME TypeOK, Terminated, ConsumeLine, ~torn', head # tail, tail_copy = tail,
         Used(tail, head_copy) \in 1 .. Used(tail, head),
         \A i \in 1 .. Used(tail, head) : Slice(buffer, tail, head)[i] \in Chars
  PROVE  Takes(Slice(buffer, tail, head), line', tail, tail_copy')
<1> DEFINE u == Used(tail, head)
           s == Slice(buffer, tail, head)
           cons == Consumable
           will == WillConsume
<1>1. /\ tail \in 0 .. Size - 1 /\ head \in 0 .. Size - 1 /\ head_copy \in 0 .. Size - 1
      /\ tail \in Positions /\ head \in Positions /\ head_copy \in Positions
      /\ Size \in Nat /\ Size < 65536 /\ LineSize \in 1 .. Size - 1 /\ LineSize \in Nat
      /\ buffer \in [0 .. Size -> Items] /\ torn \in BOOLEAN /\ tail \in Nat /\ 0 \in Positions
  BY SizeAssumption DEF TypeOK, Positions
<1>2. /\ u = IF head < tail THEN head - tail + Size ELSE head - tail
      /\ Used(tail, head_copy)
           = IF head_copy < tail THEN head_copy - tail + Size ELSE head_copy - tail
      /\ u \in 0 .. Size - 1
  BY <1>1, UsedType
<1>3. /\ head_copy # tail
      /\ head_copy < tail => head < tail /\ head_copy <= head
      /\ ~(head_copy < tail) => head_copy > tail /\ head_copy - tail <= u
      /\ head_copy < tail => Size - tail <= u
  BY <1>1, <1>2
<1>4. Wraps <=> head_copy < tail
  BY <1>1, <1>3 DEF Wraps, Empty
<1>5. cons = IF head_copy < tail THEN Size - tail ELSE head_copy - tail
  <2>1. CASE head_copy < tail
    <3>1. cons = (Size - tail) % 65536
      BY <1>4, <2>1 DEF Consumable
    <3>2. Size - tail \in Nat /\ Size - tail < 65536
      BY <1>1
    <3> QED BY <2>1, <3>1, <3>2
  <2>2. CASE ~(head_copy < tail)
    <3>1. cons = (head_copy - tail) % 65536
      BY <1>4, <2>2 DEF Consumable
    <3>2. head_copy - tail \in Nat /\ head_copy - tail < 65536
      BY <1>1, <1>3, <2>2
    <3> QED BY <2>2, <3>1, <3>2
  <2> QED BY <2>1, <2>2
<1>6. will = IF LineSize < cons THEN LineSize ELSE cons
  BY DEF WillConsume, Lesser
<1> HIDE DEF cons, will
<1>7. /\ cons \in 1 .. u /\ tail + cons <= Size
      /\ will \in 1 .. cons /\ will \in 1 .. LineSize /\ will \in 0 .. LineSize
  BY <1>1, <1>2, <1>3, <1>5, <1>6
<1>8. s \in Seq(Items) /\ Len(s) = u /\ \A i \in 1 .. u : s[i] \in Chars
  BY <1>1, SliceItems
<1>9. ASSUME NEW i \in 1 .. u
      PROVE  s[i] = IF tail + i - 1 < Size THEN buffer[tail + i - 1]
                    ELSE buffer[tail + i - 1 - Size]
  BY <1>1, SliceAt
<1>10. ASSUME NEW n \in 0 .. u, tail + n <= Size
       PROVE  Chunk(tail, n) = SubSeq(s, 1, n)
  BY <1>1, <1>10, ChunkIsNext
<1>11. ASSUME NEW x \in 0 .. head, head < tail
       PROVE  TwoChunks(tail, x) = SubSeq(s, 1, Size - tail + x)
  BY <1>1, <1>11, ChunksAreNext
<1> HIDE DEF u, s
<1>12. PICK end \in Strchr(tail) :
         \/ end # None /\ LineInBlock(end)
         \/ /\ end = None
            /\ IF Consumable > WillConsume THEN LineFull
               ELSE IF Wraps THEN LineAcrossEnd
               ELSE Filled(Chunk(tail_copy, WillConsume), head_copy)
            /\ torn' = (torn \/ Misjudges)
  BY Zenon DEF ConsumeLine
<1>13. CASE end # None /\ LineInBlock(end)
  <2> DEFINE n == Lesser(will, end - tail + 1)
  <2>1. line' = Chunk(tail, n) /\ tail_copy' = (tail + n) % Size
    BY <1>13 DEF LineInBlock, Filled, will
  <2>2. end \in Nat /\ end >= tail
    BY <1>1, <1>13, StrchrType
  <2>3. n \in 1 .. will /\ n <= end - tail + 1
    BY <1>1, <1>7, <2>2 DEF Lesser
  <2> HIDE DEF n
  <2>4. n \in 1 .. LineSize /\ n \in 0 .. u /\ n <= Len(s) /\ tail + n <= Size
    BY <1>1, <1>2, <1>7, <1>8, <2>3
  <2>5. ASSUME NEW i \in 1 .. n - 1 PROVE s[i] # NewLine
    <3>1. /\ i \in 1 .. u /\ tail + i - 1 < Size /\ tail + i - 1 < end
          /\ tail + i - 1 \in tail .. Size
      BY <1>1, <1>2, <2>2, <2>3, <2>4
    <3>2. buffer[tail + i - 1] # NewLine
      BY <1>1, <1>13, <3>1, StrchrStops
    <3> QED BY <1>9, <3>1, <3>2
  <2>6. line' = SubSeq(s, 1, n)
    BY <1>10, <2>1, <2>4, Zenon
  <2>7. Takes(s, line', tail, tail_copy')
    BY <2>1, <2>4, <2>5, <2>6, Zenon DEF Takes
  <2> QED BY <2>7 DEF s
<1>14. ASSUME end = None, NEW i \in 1 .. cons PROVE s[i] # NewLine
  <2> DEFINE q == tail + i - 1
  <2>1. q \in tail .. Size /\ q < Size /\ i \in 1 .. u
    BY <1>1, <1>2, <1>7
  <2>2. ASSUME NEW r \in tail .. q PROVE buffer[r] # End
    <3> DEFINE j == r - tail + 1
    <3>1. j \in 1 .. u /\ tail + j - 1 = r /\ r < Size
      BY <1>1, <1>2, <2>1
    <3> HIDE DEF j
    <3>2. s[j] = buffer[r] /\ s[j] \in Chars
      BY <1>8, <1>9, <3>1
    <3> QED BY <3>2, TextsAssumption
  <2>3. buffer[q] # NewLine
    <3>1. \A k \in tail .. Size : (\A r \in tail .. k : buffer[r] # End) => buffer[k] # NewLine
      BY <1>1, <1>14, StrchrStops
    <3> HIDE DEF q
    <3> QED BY <2>1, <2>2, <3>1, Zenon
  <2> QED BY <1>9, <2>1, <2>3
<1>15. CASE end = None /\ cons > will
  <2>1. LineFull /\ ~Misjudges
    BY Zenon, <1>12, <1>15 DEF cons, will
  <2>2. will = LineSize
    BY <1>1, <1>6, <1>7, <1>15
  <2>3. LineSize <= head_copy
    <3>1. CASE head_copy < tail
      <4>1. ~(head_copy < LineSize)
        BY <1>4, <1>15, <2>1, <3>1 DEF Misjudges, cons, will
      <4> QED BY <1>1, <4>1
    <3>2. CASE ~(head_copy < tail)
      BY <1>1, <1>5, <1>15, <2>2, <3>2
    <3> QED BY <3>1, <3>2
  <2>4. line' = Chunk(tail, LineSize) /\ tail_copy' = (tail + LineSize) % Size
    BY <2>1, <2>3 DEF LineFull, Filled
  <2>5. /\ LineSize \in 1 .. LineSize /\ LineSize \in 0 .. u /\ LineSize <= Len(s)
        /\ tail + LineSize <= Size
    BY <1>1, <1>2, <1>7, <1>8, <2>2
  <2>6. ASSUME NEW i \in 1 .. LineSize - 1 PROVE s[i] # NewLine
    <3>1. i \in 1 .. cons
      BY <1>1, <1>2, <1>7, <2>2
    <3> QED BY <1>14, <1>15, <3>1
  <2>7. line' = SubSeq(s, 1, LineSize)
    BY <1>10, <2>4, <2>5, Zenon
  <2>8. Takes(s, line', tail, tail_copy')
    BY <2>4, <2>5, <2>6, <2>7, Zenon DEF Takes
  <2> QED BY <2>8 DEF s
<1>16. CASE end = None /\ ~(cons > will) /\ ~Wraps
  <2>1. line' = Chunk(tail, will) /\ tail_copy' = head_copy
    BY <1>12, <1>16 DEF cons, will, Filled
  <2>2. will = cons /\ cons = head_copy - tail
    BY <1>1, <1>2, <1>4, <1>5, <1>7, <1>16
  <2>3. will \in 1 .. LineSize /\ will \in 0 .. u /\ will <= Len(s) /\ tail + will <= Size
    <3>1. Len(s) = u
      BY <1>8
    <3> QED BY <1>1, <1>2, <1>7, <3>1
  <2>4. ASSUME NEW i \in 1 .. will - 1 PROVE s[i] # NewLine
    <3>1. i \in 1 .. cons
      BY <1>1, <1>2, <1>7
    <3> QED BY <1>14, <1>16, <3>1
  <2>5. line' = SubSeq(s, 1, will)
    BY <1>10, <2>1, <2>3, Zenon
  <2>6. tail_copy' = (tail + will) % Size
    <3>1. tail + will = head_copy
      BY <1>1, <2>2
    <3>2. head_copy % Size = head_copy
      BY <1>1
    <3> QED BY <2>1, <3>1, <3>2, Zenon
  <2>7. Takes(s, line', tail, tail_copy')
    BY <2>3, <2>4, <2>5, <2>6, Zenon DEF Takes
  <2> QED BY <2>7 DEF s
<1>17. CASE end = None /\ ~(cons > will) /\ Wraps
  <2>1. LineAcrossEnd /\ ~Misjudges
    BY Zenon, <1>12, <1>17 DEF cons, will
  <2>2. PICK e \in Strchr(0) :
          LET extra == IF e = None THEN 0 ELSE Lesser(LineSize - WillConsume, e + 1)
          IN  Filled(Chunk(tail_copy, WillConsume) \o Chunk(0, extra), extra % Size)
    BY <2>1, Zenon DEF LineAcrossEnd
  <2> DEFINE x == IF e = None THEN 0 ELSE Lesser(LineSize - will, e + 1)
  <2>3. line' = Chunk(tail, will) \o Chunk(0, x) /\ tail_copy' = x % Size
    BY <2>2 DEF Filled, will
  <2>4. /\ will = cons /\ cons = Size - tail /\ head_copy < tail
    BY <1>1, <1>2, <1>4, <1>5, <1>7, <1>17
  <2>5. head # 0
    <3>1. Consumable = WillConsume
      BY <2>4 DEF cons, will
    <3>2. head_copy # 0
      BY <1>17, <2>1, <3>1 DEF Misjudges
    <3> QED BY <1>1, <1>3, <2>4, <3>2
  <2>6. buffer[head] = End
    <3>1. pc = "copy" /\ ~torn
      BY <1>1, <1>12, <1>17 DEF ConsumeLine
    <3> QED BY <2>5, <3>1 DEF Terminated
  <2>7. e = None \/ (e \in Nat /\ e < head)
    <3>1. e = None \/ e \in Nat
      BY <1>1, StrchrType
    <3>2. head \in 0 .. Size
      BY <1>1
    <3>3. e # None => e < head
      BY <1>1, <2>6, <3>2, StrchrStops
    <3> QED BY <3>1, <3>3
  <2>8. x \in 0 .. head /\ x <= LineSize - will /\ (e # None => x <= e + 1) /\ (e = None => x = 0)
    <3>1. None = -1
      BY DEF None
    <3> QED BY <1>1, <1>7, <2>7, <3>1 DEF Lesser
  <2> HIDE DEF x
  <2> DEFINE n == will + x
  <2>9. n \in 1 .. LineSize /\ n <= Len(s) /\ n = Size - tail + x
    BY <1>1, <1>2, <1>3, <1>7, <1>8, <2>4, <2>8
  <2>10. head < tail
    BY <1>3, <2>4
  <2>11. line' = SubSeq(s, 1, n)
    <3>1. TwoChunks(tail, x) = SubSeq(s, 1, Size - tail + x)
      BY <1>11, <2>8, <2>10, Zenon
    <3> QED BY <2>3, <2>4, <3>1, Zenon DEF TwoChunks
  <2>12. tail_copy' = (tail + n) % Size
    <3>1. tail + n = Size + x /\ x \in 0 .. Size - 1
      BY <1>1, <2>8, <2>9
    <3>2. (Size + x) % Size = x % Size
      BY <1>1, <3>1
    <3> HIDE DEF n
    <3> QED BY <2>3, <3>1, <3>2, Zenon
  <2> HIDE DEF n
  <2>13. ASSUME NEW i \in 1 .. n - 1 PROVE s[i] # NewLine
    <3>1. i \in 1 .. u
      BY <1>1, <1>2, <1>8, <2>9
    <3>2. CASE i <= cons
      <4>1. i \in 1 .. cons
        BY <1>1, <1>2, <1>7, <3>1, <3>2
      <4> QED BY <1>14, <1>17, <4>1
    <3>3. CASE ~(i <= cons)
      <4> DEFINE q == tail + i - 1 - Size
      <4>1. /\ ~(tail + i - 1 < Size) /\ q \in 0 .. Size /\ q + 1 < x
        BY <1>1, <1>2, <2>4, <2>8, <2>9, <3>1, <3>3
      <4>2. e # None /\ q < e
        <5>1. e # None
          BY <2>8, <4>1
        <5> QED BY <1>1, <2>7, <2>8, <4>1, <5>1
      <4> HIDE DEF q
      <4>3. buffer[q] # NewLine
        BY <1>1, <4>1, <4>2, StrchrStops
      <4> QED BY <1>9, <3>1, <4>1, <4>3 DEF q
    <3> QED BY <3>2, <3>3
  <2>14. Takes(s, line', tail, tail_copy')
    BY <2>9, <2>11, <2>12, <2>13, Zenon DEF Takes
  <2> QED BY <2>14 DEF s
<1> QED BY <1>12, <1>13, <1>15, <1>16, <1>17

\* A line that was taken is one of what is in the buffer after a write, too
LEMMA TakesAfterPut ==
  ASSUME NEW s \in Seq(Chars), NEW text \in Seq(Chars), NEW l, NEW t, NEW k, Takes(s, l, t, k)
  PROVE  Takes(s \o text, l, t, k)
<1> DEFINE v == s \o text
<1>1. PICK n \in 1 .. LineSize :
        n <= Len(s) /\ (\A i \in 1 .. n - 1 : s[i] # NewLine) /\ l = SubSeq(s, 1, n)
        /\ k = (t + n) % Size
  BY Zenon DEF Takes
<1>2. /\ v \in Seq(Chars) /\ Len(v) = Len(s) + Len(text)
      /\ \A i \in 1 .. Len(s) + Len(text) : v[i] = IF i <= Len(s) THEN s[i] ELSE text[i - Len(s)]
  BY ConcatProperties, Zenon
<1>3. Len(s) \in Nat /\ Len(text) \in Nat /\ LineSize \in Nat
  BY SizeAssumption
<1>4. n <= Len(v) /\ n \in 1 .. Len(s) /\ 1 \in 1 .. Len(s)
  BY <1>1, <1>2, <1>3
<1>5. SubSeq(v, 1, n) = SubSeq(s, 1, n)
  BY <1>4, SubSeqOfConcat1, Zenon
<1> HIDE DEF v
<1>6. ASSUME NEW i \in 1 .. n - 1 PROVE v[i] # NewLine
  <2>1. i \in 1 .. Len(s) + Len(text) /\ i <= Len(s)
    BY <1>1, <1>3
  <2>2. v[i] = s[i]
    BY <1>2, <2>1, Zenon
  <2> QED BY <1>1, <2>2, Zenon
<1>7. Takes(v, l, t, k)
  BY <1>1, <1>4, <1>5, <1>6, Zenon DEF Takes
<1> QED BY <1>7 DEF v

\* Dropping the oldest characters leaves characters
LEMMA LatestType ==
  ASSUME NEW s \in Seq(Chars)
  PROVE  Promise!Latest(s) \in Seq(Chars)
<1> DEFINE m == Len(s) - (Size - 1) + 1
<1>1. Size \in Nat /\ Len(s) \in Nat /\ m \in Int
  BY SizeAssumption
<1>2. CASE Len(s) <= Size - 1
  BY <1>2 DEF Promise!Latest
<1>3. CASE ~(Len(s) <= Size - 1)
  <2>1. \A i \in m .. Len(s) : s[i] \in Chars
    <3>1. ASSUME NEW i \in m .. Len(s) PROVE i \in 1 .. Len(s)
      BY <1>1, <1>3
    <3> QED BY <3>1
  <2> HIDE DEF m
  <2>2. SubSeq(s, m, Len(s)) \in Seq(Chars)
    BY <1>1, <2>1, SubSeqProperties
  <2> QED BY <1>3, <2>2 DEF Promise!Latest, m
<1> QED BY <1>2, <1>3
----------------------------------------------------------------------------
(* The buffer implements the queue *)

\* What ties main's copies to the buffer while nothing is torn: maxed says that the
\* head is one before the tail, except where main is about to store what it knows;
\* the indices copied are those of characters that are still there; and what
\* consume_line put in line is a line at the tail, which tail_copy is behind
QueueInv ==
  ~torn =>
    /\ Contents \in Seq(Chars)
    /\ pc \notin {"finish", "storeTail"} => (maxed <=> head = tail - 1)
    /\ pc = "storeTail" => ~maxed
    /\ pc \in {"snapHead", "snapTail", "copy", "storeMaxed", "storeTail"} => head # tail
    /\ pc \in {"snapTail", "copy"} => Used(tail, head_copy) \in 1 .. Used(tail, head)
    /\ pc = "copy" => tail_copy = tail
    /\ pc \in {"storeMaxed", "storeTail"} =>
         Takes(Slice(buffer, tail, head), line, tail, tail_copy)
    /\ pc = "clearTail" => head = tail

\* With the head one before the tail the buffer is full, with both equal it is empty
LEMMA FullWhenUsed ==
  ASSUME NEW t \in Positions, NEW h \in Positions
  PROVE  /\ h = t - 1 => Used(t, h) = Size - 1
         /\ h = t <=> Used(t, h) = 0
<1>1. t \in 0 .. Size - 1 /\ h \in 0 .. Size - 1 /\ Size \in Nat
  BY SizeAssumption DEF Positions
<1>2. Used(t, h) = IF h < t THEN h - t + Size ELSE h - t
  BY UsedType
<1> QED BY <1>1, <1>2

\* A callback's text is put into the queue, unless main is where it tears it
LEMMA CallbackPuts ==
  ASSUME IInv, QueueInv, NEW text \in Texts, CallbackLogs(text), ~torn, ~torn'
  PROVE  Promise!Put(text) /\ QueueInv'
<1> DEFINE n == Len(text)
           u == Used(tail, head)
           s == Slice(buffer, tail, head)
           full == maxed \/ Reaches(text)
           f == Slice(buffer', tail', head')
<1>1. /\ TypeOK /\ tail \in Positions /\ head \in Positions /\ maxed \in BOOLEAN /\ Size \in Nat
  BY SizeAssumption DEF IInv, TypeOK
<1>2. /\ text \in Seq(Chars) /\ n \in 1 .. Size - 1
  BY TextsAssumption
<1>3. /\ pc' = pc /\ pc \notin {"finish", "clearTail", "clearHead"}
      /\ pc \in {"snapTail", "copy", "storeMaxed", "storeTail"} => ~FillsUp(text)
      /\ buffer' = Copied(text) /\ tail' = NewTail(n, full) /\ head' = NewHead(n)
      /\ maxed' = (head' = tail' - 1)
      /\ line' = line /\ tail_copy' = tail_copy /\ head_copy' = head_copy /\ taken' = taken
  BY Zenon DEF CallbackLogs, TornByWrite, locals, IInv
<1>4. Contents = s /\ Contents' = f
  BY <1>3 DEF Contents, Between, Slice, Used
<1>5. full \in BOOLEAN
  BY <1>1 DEF Reaches
<1>6. pc \in {"snapTail", "copy", "storeMaxed", "storeTail"} => u + n < Size - 1
  <2>1. u \in 0 .. Size - 1
    BY <1>1, UsedType
  <2> QED BY <1>1, <1>2, <1>3, <2>1 DEF FillsUp, Used
<1>7. maxed <=> head = tail - 1
  <2>1. CASE pc = "storeTail"
    <3>1. u + n < Size - 1 /\ ~maxed
      BY <1>6, <2>1 DEF QueueInv
    <3>2. head # tail - 1
      BY <1>1, <1>2, <3>1, FullWhenUsed
    <3> QED BY <3>1, <3>2
  <2>2. CASE pc # "storeTail"
    BY <1>3, <2>2 DEF QueueInv
  <2> QED BY <2>1, <2>2
<1>8. (full => u + n >= Size - 1) /\ (~full => u + n <= Size - 1)
  BY <1>1, <1>2, <1>7, FullWhenReached
<1> HIDE DEF full
<1>9. f = Promise!Latest(s \o text)
  BY <1>1, <1>3, <1>5, <1>8, WritePuts
<1>10. /\ tail' \in Positions /\ head' \in Positions
       /\ Used(tail', head') = IF full THEN Size - 1 ELSE u + n
  BY <1>1, <1>2, <1>3, <1>5, <1>8, WrittenUsed
<1>11. u \in 0 .. Size - 1
  BY <1>1, UsedType
<1>12. s \in Seq(Chars)
  BY <1>4 DEF QueueInv
<1> HIDE DEF n, u, s, f
<1>13. f \in Seq(Chars)
  <2>1. s \o text \in Seq(Chars)
    BY <1>2, <1>12
  <2> QED BY <1>9, <2>1, LatestType, Zenon
<1>14. head' # tail'
  <2>1. Used(tail', head') # 0
    BY <1>1, <1>2, <1>10, <1>11
  <2> QED BY <1>10, <2>1, FullWhenUsed, Zenon
<1>15. ASSUME pc \in {"snapTail", "copy", "storeMaxed", "storeTail"}
       PROVE  /\ ~full /\ tail' = tail /\ Used(tail', head') = u + n /\ f = s \o text
              /\ head' # tail' - 1
  <2>1. ~full
    BY <1>1, <1>2, <1>6, <1>8, <1>11, <1>15
  <2>2. tail' = tail
    BY <1>3, <2>1 DEF NewTail
  <2>3. Used(tail', head') = u + n
    BY <1>10, <2>1
  <2>4. f = s \o text
    <3>1. Len(s) = u
      BY <1>1, SliceItems DEF s, u, TypeOK
    <3>2. Len(s \o text) <= Size - 1
      BY <1>1, <1>2, <1>6, <1>11, <1>12, <1>15, <3>1 DEF n
    <3> QED BY <1>9, <3>2 DEF Promise!Latest
  <2>5. head' # tail' - 1
    BY <1>1, <1>2, <1>6, <1>10, <1>11, <1>15, <2>3, FullWhenUsed
  <2> QED BY <2>1, <2>2, <2>3, <2>4, <2>5
<1>16. ASSUME pc \in {"snapTail", "copy"}
       PROVE  Used(tail', head_copy') \in 1 .. Used(tail', head')
  <2>1. Used(tail, head_copy) \in 1 .. u
    BY <1>16 DEF QueueInv, u
  <2>2. tail' = tail /\ head_copy' = head_copy /\ Used(tail', head') = u + n
    BY <1>3, <1>15, <1>16
  <2>3. Used(tail', head_copy') = Used(tail, head_copy)
    BY <2>2, Zenon
  <2> QED BY <1>1, <1>2, <1>11, <2>1, <2>2, <2>3
<1>17. ASSUME pc \in {"storeMaxed", "storeTail"}
       PROVE  Takes(f, line', tail', tail_copy')
  <2>1. Takes(s, line, tail, tail_copy)
    BY <1>17 DEF QueueInv, s
  <2>2. Takes(s \o text, line, tail, tail_copy)
    BY <1>2, <1>12, <2>1, TakesAfterPut, Zenon
  <2>3. f = s \o text /\ tail' = tail
    BY <1>15, <1>17
  <2> QED BY <1>3, <2>2, <2>3, Zenon
<1>18. pc = "copy" => tail_copy' = tail'
  BY <1>3, <1>15 DEF QueueInv
<1>19. Contents' \in Seq(Chars)
  BY <1>4, <1>13, Zenon
<1>20. QueueInv'
  BY <1>3, <1>14, <1>15, <1>16, <1>17, <1>18, <1>19, Zenon DEF QueueInv, f
<1>21. Promise!Put(text)
  BY <1>3, <1>4, <1>9, Zenon DEF Promise!Put
<1> QED BY <1>20, <1>21

\* main's text is put into the queue when it is copied; moving the indices then
\* changes nothing that is in it
LEMMA MainWritePuts ==
  ASSUME IInv, QueueInv, MainCopies \/ MainMoves, ~torn
  PROVE  /\ (\E text \in Texts : Promise!Put(text)) \/ UNCHANGED <<Contents, taken>>
         /\ QueueInv'
<1>1. /\ TypeOK /\ tail \in Positions /\ head \in Positions /\ maxed \in BOOLEAN /\ Size \in Nat
  BY SizeAssumption DEF IInv, TypeOK
<1>2. CASE MainCopies
  <2> DEFINE n == Len(printBuf)
             u == Used(tail, head)
             s == Slice(buffer, tail, head)
             full == maxed \/ Reaches(printBuf)
             f == Slice(Copied(printBuf), NewTail(n, full), NewHead(n))
  <2>1. /\ pc = "write" /\ pc' = "finish" /\ buffer' = Copied(printBuf) /\ maxed' = full
        /\ count' = n /\ head' = head /\ tail' = tail /\ taken' = taken /\ torn' = torn
    BY <1>2, Zenon DEF MainCopies
  <2>2. printBuf \in Texts
    BY <2>1 DEF IInv
  <2>3. printBuf \in Seq(Chars) /\ n \in 1 .. Size - 1
    BY <2>2, TextsAssumption
  <2>4. Contents = s
    BY <2>1 DEF Contents, Between, Slice, Used
  <2>5. Contents' = f
    <3>1. Contents' = Slice(buffer', NewTail(count, maxed)', NewHead(count)')
      BY <2>1 DEF Contents, Between, Slice, Used
    <3>2. NewTail(count, maxed)' = NewTail(n, full) /\ NewHead(count)' = NewHead(n)
      BY <2>1, Zenon DEF NewTail, NewHead
    <3> QED BY <2>1, <3>1, <3>2, Zenon
  <2>6. full \in BOOLEAN
    BY <1>1 DEF Reaches
  <2>7. maxed <=> head = tail - 1
    BY <2>1 DEF QueueInv
  <2>8. (full => u + n >= Size - 1) /\ (~full => u + n <= Size - 1)
    BY <1>1, <2>3, <2>7, FullWhenReached
  <2> HIDE DEF full
  <2>9. f = Promise!Latest(s \o printBuf)
    BY <1>1, <2>2, <2>6, <2>8, WritePuts
  <2>10. s \in Seq(Chars)
    BY <2>4 DEF QueueInv
  <2> HIDE DEF s, f
  <2>11. s \o printBuf \in Seq(Chars)
    BY <2>3, <2>10
  <2>12. Contents' \in Seq(Chars)
    BY <2>5, <2>9, <2>11, LatestType, Zenon
  <2>13. QueueInv'
    BY <2>1, <2>12 DEF QueueInv
  <2>14. Promise!Put(printBuf)
    BY <2>1, <2>4, <2>5, <2>9, Zenon DEF Promise!Put
  <2> QED BY <2>2, <2>13, <2>14, Zenon
<1>3. CASE MainMoves
  <2>1. /\ pc = "finish" /\ pc' = "idle" /\ buffer' = buffer /\ taken' = taken
        /\ tail' = NewTail(count, maxed) /\ head' = NewHead(count)
        /\ maxed' = (head' = tail' - 1)
    BY <1>3, Zenon DEF MainMoves
  <2>2. /\ Contents = Slice(buffer, NewTail(count, maxed), NewHead(count))
        /\ Contents' = Slice(buffer', tail', head')
    BY <2>1 DEF Contents, Between, Slice, Used
  <2>3. Contents' = Contents
    BY <2>1, <2>2, Zenon
  <2>4. Contents \in Seq(Chars)
    BY DEF QueueInv
  <2> QED BY Zenon, <2>1, <2>3, <2>4 DEF QueueInv
<1> QED BY <1>2, <1>3

\* Nothing is in the buffer when the indices are equal
LEMMA NothingWhenEmpty ==
  ASSUME NEW b \in [0 .. Size -> Items], NEW p \in Positions
  PROVE  Slice(b, p, p) = <<>>
<1>1. Used(p, p) = 0
  BY FullWhenUsed
<1>2. Slice(b, p, p) \in Seq(Items) /\ Len(Slice(b, p, p)) = Used(p, p)
  BY SliceItems
<1> QED BY <1>1, <1>2, EmptySeq

\* The steps that change neither the buffer nor its indices
LEMMA LookingStutters ==
  ASSUME IInv, QueueInv, ~torn, ~torn',
         \/ \E text \in Texts : MainFormats(text)
         \/ PrintAvailableLogging \/ WhileNotEmpty \/ CopyHead \/ CopyTail
         \/ ConsumeLine \/ StoreMaxed \/ WillClear \/ ClearTest
  PROVE  Contents' = Contents /\ (taken' = taken \/ taken' = <<>>) /\ QueueInv'
<1> DEFINE s == Slice(buffer, tail, head)
<1>1. /\ TypeOK /\ tail \in Positions /\ head \in Positions /\ Size \in Nat
      /\ tail \in Int /\ head \in Int
  BY SizeAssumption DEF IInv, TypeOK, Positions
<1>2. /\ buffer' = buffer /\ tail' = tail /\ head' = head
      /\ pc \notin {"finish", "clearHead"} /\ pc' \notin {"finish", "clearHead"}
      /\ taken' = taken \/ taken' = <<>>
  BY DEF MainFormats, PrintAvailableLogging, WhileNotEmpty, CopyHead, CopyTail, ConsumeLine,
         StoreMaxed, WillClear, ClearTest, bufferVars, locals
<1>3. Contents = s /\ Contents' = s
  BY <1>2 DEF Contents, Between, Slice, Used
<1>4. s \in Seq(Chars)
  BY <1>3 DEF QueueInv
<1>5. /\ Slice(buffer', tail', head') = s /\ Contents' \in Seq(Chars)
      /\ Used(tail', head') = Used(tail, head)
  BY <1>2, <1>3, <1>4, Zenon
<1> HIDE DEF s
<1>6. CASE \E text \in Texts : MainFormats(text)
  <2>1. pc = "idle" /\ pc' = "write" /\ maxed' = maxed
    BY <1>6 DEF MainFormats
  <2> QED BY <1>2, <1>3, <1>5, <2>1 DEF QueueInv
<1>7. CASE PrintAvailableLogging
  <2>1. pc = "idle" /\ maxed' = maxed /\ pc' = IF maxed THEN "snapHead" ELSE "loop"
    BY <1>7 DEF PrintAvailableLogging, bufferVars
  <2>2. maxed <=> head = tail - 1
    BY <2>1 DEF QueueInv
  <2>3. maxed => head # tail
    BY <1>1, <2>2
  <2> QED BY <1>2, <1>3, <1>5, <2>1, <2>2, <2>3 DEF QueueInv
<1>8. CASE WhileNotEmpty
  <2>1. pc = "loop" /\ maxed' = maxed /\ pc' = IF Empty THEN "clearIf" ELSE "snapHead"
    BY <1>8 DEF WhileNotEmpty, bufferVars
  <2> QED BY <1>2, <1>3, <1>5, <2>1 DEF QueueInv, Empty
<1>9. CASE CopyHead
  <2>1. pc = "snapHead" /\ pc' = "snapTail" /\ maxed' = maxed /\ head_copy' = head
    BY <1>9 DEF CopyHead, bufferVars
  <2>2. head # tail /\ (maxed <=> head = tail - 1)
    BY <2>1 DEF QueueInv
  <2>3. Used(tail, head) \in 1 .. Used(tail, head)
    <3>1. Used(tail, head) # 0 /\ Used(tail, head) \in 0 .. Size - 1
      BY <1>1, <2>2, FullWhenUsed, UsedType, Zenon
    <3> QED BY <1>1, <3>1
  <2>4. Used(tail', head_copy') \in 1 .. Used(tail', head')
    BY <1>2, <2>1, <2>3, Zenon
  <2> QED BY <1>2, <1>3, <1>5, <2>1, <2>2, <2>4 DEF QueueInv
<1>10. CASE CopyTail
  <2>1. /\ pc = "snapTail" /\ pc' = "copy" /\ maxed' = maxed /\ head_copy' = head_copy
        /\ tail_copy' = tail
    BY <1>10 DEF CopyTail, bufferVars
  <2>2. /\ head # tail /\ (maxed <=> head = tail - 1)
        /\ Used(tail, head_copy) \in 1 .. Used(tail, head)
    BY <2>1 DEF QueueInv
  <2>3. Used(tail', head_copy') \in 1 .. Used(tail', head')
    BY <1>2, <2>1, <2>2, Zenon
  <2> QED BY <1>2, <1>3, <1>5, <2>1, <2>2, <2>3 DEF QueueInv
<1>11. CASE ConsumeLine
  <2>1. pc = "copy" /\ pc' = "storeMaxed" /\ maxed' = maxed
    BY <1>11 DEF ConsumeLine, bufferVars
  <2>2. /\ head # tail /\ (maxed <=> head = tail - 1) /\ tail_copy = tail
        /\ Used(tail, head_copy) \in 1 .. Used(tail, head)
    BY <2>1 DEF QueueInv
  <2>3. \A i \in 1 .. Used(tail, head) : Slice(buffer, tail, head)[i] \in Chars
    <3>1. Len(s) = Used(tail, head)
      BY <1>1, SliceItems DEF s, TypeOK
    <3> QED BY <1>4, <3>1 DEF s
  <2>4. Takes(s, line', tail, tail_copy')
    BY <1>1, <1>11, <2>2, <2>3, ConsumeLineTakes, Zenon DEF IInv, s
  <2>5. Takes(Slice(buffer', tail', head'), line', tail', tail_copy')
    BY <1>2, <1>5, <2>4, Zenon
  <2> QED BY <1>2, <1>3, <1>5, <2>1, <2>2, <2>5 DEF QueueInv
<1>12. CASE StoreMaxed
  <2>1. /\ pc = "storeMaxed" /\ pc' = "storeTail" /\ ~maxed' /\ line' = line
        /\ tail_copy' = tail_copy
    BY <1>12 DEF StoreMaxed, locals
  <2>2. head # tail /\ Takes(s, line, tail, tail_copy)
    BY <2>1 DEF QueueInv, s
  <2>3. Takes(Slice(buffer', tail', head'), line', tail', tail_copy')
    BY <1>2, <1>5, <2>1, <2>2, Zenon
  <2> QED BY <1>2, <1>3, <1>5, <2>1, <2>2, <2>3 DEF QueueInv
<1>13. CASE WillClear
  <2>1. pc = "clearIf" /\ pc' = "clearTest" /\ maxed' = maxed
    BY <1>13 DEF WillClear
  <2> QED BY <1>2, <1>3, <1>5, <2>1 DEF QueueInv
<1>14. CASE ClearTest
  <2>1. /\ pc = "clearTest" /\ maxed' = maxed
        /\ pc' \in {"clearTail", "idle"} /\ (pc' = "clearTail" => head = tail)
    BY <1>14 DEF ClearTest, bufferVars, Empty
  <2> QED BY <1>2, <1>3, <1>5, <2>1 DEF QueueInv
<1> QED BY <1>2, <1>6, <1>7, <1>8, <1>9, <1>10, <1>11, <1>12, <1>13, <1>14

\* Storing the tail takes the line
LEMMA StoreTailTakes ==
  ASSUME IInv, QueueInv, StoreTail, ~torn
  PROVE  (\E n \in 1 .. LineSize : Promise!TakeLine(n)) /\ QueueInv'
<1> DEFINE u == Used(tail, head)
           s == Slice(buffer, tail, head)
<1>1. /\ tail \in Positions /\ head \in Positions /\ Size \in Nat
      /\ buffer \in [0 .. Size -> Items] /\ LineSize \in Nat
  BY SizeAssumption DEF IInv, TypeOK
<1>2. /\ pc = "storeTail" /\ pc' = "loop" /\ tail' = tail_copy /\ taken' = line
      /\ buffer' = buffer /\ head' = head /\ maxed' = maxed
  BY DEF StoreTail
<1>3. ~maxed /\ Contents \in Seq(Chars) /\ Takes(s, line, tail, tail_copy)
  BY <1>2 DEF QueueInv
<1>4. PICK n \in 1 .. LineSize :
        n <= Len(s) /\ (\A i \in 1 .. n - 1 : s[i] # NewLine) /\ line = SubSeq(s, 1, n)
        /\ tail_copy = (tail + n) % Size
  BY <1>3, Zenon DEF Takes
<1>5. Contents = s /\ Contents' = Slice(buffer, tail_copy, head)
  <2>1. Contents' = Slice(buffer', tail', head')
    BY <1>2 DEF Contents, Between, Slice, Used
  <2> QED BY <1>2, <2>1 DEF Contents, Between, Slice, Used
<1>6. Len(s) = u /\ u \in 0 .. Size - 1
  BY <1>1, SliceItems, UsedType
<1> HIDE DEF u, s
<1>7. n \in 0 .. u /\ n \in 1 .. u
  BY <1>1, <1>4, <1>6
<1>8. tail_copy \in Positions /\ Used(tail_copy, head) = u - n
      /\ Slice(buffer, tail_copy, head) = SubSeq(s, n + 1, u)
  BY <1>1, <1>4, <1>7, SliceRest DEF u, s
<1>9. Promise!TakeLine(n)
  BY <1>2, <1>4, <1>5, <1>6, <1>8, Zenon DEF Promise!TakeLine
<1>10. head # tail_copy - 1
  <2>1. Used(tail_copy, head) # Size - 1
    BY <1>1, <1>6, <1>7, <1>8
  <2> QED BY <1>1, <1>8, <2>1, FullWhenUsed, Zenon
<1>11. SubSeq(s, n + 1, u) \in Seq(Chars)
  <2>1. ASSUME NEW i \in n + 1 .. u PROVE s[i] \in Chars
    <3>1. i \in 1 .. Len(s) /\ s \in Seq(Chars)
      BY <1>1, <1>3, <1>5, <1>6, <1>7
    <3> QED BY <3>1
  <2>2. n + 1 \in Int /\ u \in Int
    BY <1>1, <1>6, <1>7
  <2> QED BY <2>1, <2>2, SubSeqProperties
<1>12. Contents' \in Seq(Chars)
  BY <1>5, <1>8, <1>11, Zenon
<1>13. QueueInv'
  BY <1>2, <1>3, <1>10, <1>12 DEF QueueInv
<1> QED BY <1>9, <1>13, Zenon

\* clear_if_empty clears an empty buffer, or heals a torn one
LEMMA ClearStutters ==
  /\ IInv /\ QueueInv /\ ClearTail /\ ~torn => UNCHANGED <<Contents, taken>> /\ QueueInv'
  /\ IInv /\ QueueInv /\ ClearHead /\ ~torn' => UNCHANGED <<Contents, taken>> /\ QueueInv'
<1>1. 0 \in Positions /\ <<>> \in Seq(Chars)
  BY SizeAssumption DEF Positions
<1>2. ASSUME IInv, QueueInv, ClearTail, ~torn
      PROVE  UNCHANGED <<Contents, taken>> /\ QueueInv'
  <2>1. /\ pc = "clearTail" /\ pc' = "clearHead" /\ tail' = 0 /\ head' = head
        /\ maxed' = maxed /\ taken' = taken
    BY <1>2 DEF ClearTail
  <2>2. /\ tail \in Positions /\ head \in Positions /\ head \in Nat
        /\ buffer \in [0 .. Size -> Items]
    BY <1>2, SizeAssumption DEF IInv, TypeOK, Positions
  <2>3. head = tail /\ (maxed <=> head = tail - 1)
    BY <1>2, <2>1 DEF QueueInv
  <2>4. Contents = Slice(buffer, tail, tail)
    BY <2>1, <2>3 DEF Contents, Between, Slice, Used
  <2>5. Contents = <<>> /\ Contents' = <<>>
    <3>1. Contents' = <<>>
      BY <2>1 DEF Contents
    <3> QED BY <2>2, <2>4, <3>1, NothingWhenEmpty, Zenon
  <2>6. ~maxed' /\ head' # tail' - 1
    BY <2>1, <2>2, <2>3
  <2>7. QueueInv'
    BY <1>1, <2>1, <2>5, <2>6 DEF QueueInv
  <2> QED BY <2>1, <2>5, <2>7, Zenon
<1>3. ASSUME IInv, QueueInv, ClearHead, ~torn'
      PROVE  UNCHANGED <<Contents, taken>> /\ QueueInv'
  <2>1. /\ pc = "clearHead" /\ pc' = "idle" /\ head' = 0 /\ ~maxed' /\ tail' = 0
        /\ buffer' = buffer /\ taken' = taken
    BY Zenon, <1>3 DEF ClearHead
  <2>2. buffer \in [0 .. Size -> Items]
    BY <1>3 DEF IInv, TypeOK
  <2>3. Contents' = Slice(buffer', tail', head')
    BY <2>1 DEF Contents, Between, Slice, Used
  <2>4. Contents' = <<>>
    BY <1>1, <2>1, <2>2, <2>3, NothingWhenEmpty, Zenon
  <2>5. Contents = <<>>
    BY <2>1 DEF Contents
  <2>6. QueueInv'
    BY <1>1, <2>1, <2>4 DEF QueueInv
  <2> QED BY <2>1, <2>4, <2>5, <2>6, Zenon
<1> QED BY <1>2, <1>3

\* Only the clear ends what was torn
LEMMA TornUntilCleared ==
  ASSUME TypeOK, Next, torn, ~torn'
  PROVE  ClearHead
<1>1. ~ConsumeLine
  <2>1. SUFFICES ASSUME ConsumeLine
                 PROVE  torn'
    OBVIOUS
  <2>2. torn' = torn \/ torn' = (torn \/ Misjudges)
    BY <2>1, Zenon DEF ConsumeLine
  <2> QED BY Zenon, <2>2
<1>2. \A text \in Texts : ~CallbackLogs(text)
  BY Zenon DEF CallbackLogs
<1> QED BY <1>1, <1>2, Zenon
     DEF Next, Main, MainFormats, MainCopies, MainInterrupted, MainResumes, MainMoves,
         PrintAvailableLogging, WhileNotEmpty, CopyHead, CopyTail, StoreMaxed, StoreTail, WillClear, ClearTest, ClearTail

\* Every step of the buffer is one of the queue, or changes nothing in it
LEMMA StepRefines ==
  ASSUME IInv, QueueInv, [Next]_vars
  PROVE  [Promise!Next]_<<Contents, taken>> /\ QueueInv'
<1>1. CASE UNCHANGED vars
  <2>1. /\ buffer' = buffer /\ head' = head /\ tail' = tail /\ maxed' = maxed /\ pc' = pc
        /\ count' = count /\ head_copy' = head_copy /\ tail_copy' = tail_copy
        /\ line' = line /\ taken' = taken /\ torn' = torn
    BY <1>1, Zenon DEF vars, bufferVars, locals
  <2>2. Contents' = Contents
    BY <2>1 DEF Contents, Between, NewTail, NewHead
  <2>3. QueueInv'
    BY <2>1, <2>2, Zenon DEF QueueInv, Slice, Used, Takes
  <2> QED BY <2>1, <2>2, <2>3, Zenon
<1>2. CASE Next /\ torn
  <2>1. Promise!Next
    BY <1>2, Zenon DEF Promise!Next
  <2>2. CASE torn'
    BY <2>1, <2>2, Zenon DEF QueueInv
  <2>3. CASE ~torn'
    <3>1. ClearHead
      BY <1>2, <2>3, TornUntilCleared, Zenon DEF IInv
    <3> QED BY <2>1, <2>3, <3>1, ClearStutters, Zenon
  <2> QED BY <2>2, <2>3
<1>3. CASE Next /\ torn'
  <2>1. Promise!Next
    BY <1>3, Zenon DEF Promise!Next
  <2> QED BY <1>3, <2>1, Zenon DEF QueueInv
<1>4. CASE Next /\ ~torn /\ ~torn'
  <2>1. CASE \E text \in Texts : CallbackLogs(text)
    BY <1>4, <2>1, CallbackPuts, Zenon DEF Promise!Next
  <2>2. CASE MainCopies \/ MainMoves
    BY <1>4, <2>2, MainWritePuts, Zenon DEF Promise!Next
  <2>3. CASE \/ \E text \in Texts : MainFormats(text)
             \/ PrintAvailableLogging \/ WhileNotEmpty \/ CopyHead \/ CopyTail
             \/ ConsumeLine \/ StoreMaxed \/ WillClear \/ ClearTest
    <3>1. Contents' = Contents /\ (taken' = taken \/ taken' = <<>>) /\ QueueInv'
      BY <1>4, <2>3, LookingStutters, Zenon
    <3>2. UNCHANGED <<Contents, taken>> \/ Promise!Printed
      BY <3>1, Zenon DEF Promise!Printed
    <3> QED BY <3>1, <3>2, Zenon DEF Promise!Next
  <2>4. CASE StoreTail
    BY <1>4, <2>4, StoreTailTakes, Zenon DEF Promise!Next
  <2>5. CASE ClearTail \/ ClearHead
    BY <1>4, <2>5, ClearStutters, Zenon
  <2>6. ~MainResumes /\ ~\E k \in Positions : MainInterrupted(k)
    BY <1>4, Zenon DEF MainInterrupted, MainResumes, IInv
  <2> QED BY <1>4, <2>1, <2>2, <2>3, <2>4, <2>5, <2>6, Zenon DEF Next, Main
<1> QED BY <1>1, <1>2, <1>3, <1>4, Zenon

\* The buffer starts as the empty queue
LEMMA InitRefines == Init => Promise!Init /\ QueueInv
<1> SUFFICES ASSUME Init
             PROVE  Promise!Init /\ QueueInv
  OBVIOUS
<1>1. 0 \in Positions /\ <<>> \in Seq(Chars) /\ buffer \in [0 .. Size -> Items]
  BY SizeAssumption DEF Positions, Init, Items
<1>2. Contents = Slice(buffer, 0, 0)
  BY DEF Init, Contents, Between, Slice, Used
<1>3. Contents = <<>>
  BY <1>1, <1>2, NothingWhenEmpty, Zenon
<1> QED BY <1>1, <1>3 DEF Init, QueueInv, Promise!Init

\* The circular buffer is a queue of the characters logged: a write puts its whole
\* text behind them and forgets the oldest only for want of room, consume_line takes
\* lines from the front, and nothing else changes it, whichever callbacks log between
\* main's loads and stores, until one logs where main tears it or consume_line
\* misjudges a line
THEOREM BufferRefines == Spec => KeepsPromise
<1>1. Init => IInv /\ QueueInv
  BY InitIInv, InitRefines
<1>2. IInv /\ QueueInv /\ [Next]_vars => IInv' /\ QueueInv'
  BY NextKeeps, StepRefines
<1>3. IInv /\ QueueInv /\ [Next]_vars => [Promise!Next]_<<Contents, taken>>
  BY StepRefines
<1> QED BY InitRefines, <1>1, <1>2, <1>3, PTL DEF Spec, KeepsPromise, Promise!Spec

============================================================================
