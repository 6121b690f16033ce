----------------------------- MODULE LogBuffer -----------------------------
(***************************************************************************)
(* serialLogBuffer, the CircularBuffer<char> between LOG_DEBUG, which      *)
(* callbacks and main call, and printAvailableLogging, by which main       *)
(* prints what was logged.  On the Pico GUARD_LOCK is empty: a callback    *)
(* may log between any two loads and stores of main's calls.               *)
(*                                                                         *)
(* A callback's writeF is one action.  main's is three (format, copy, move *)
(* the indices), or more when callbacks log in the loop that copies, and   *)
(* consume_line is one action for each shared variable it loads or stores. *)
(***************************************************************************)
EXTENDS Integers, Sequences

CONSTANTS
  Size,          \* fixed_size
  LineSize,      \* the line_size given to consume_line
  Chars,
  Texts,         \* what vsnprintf may produce
  NewLine,
  End,           \* end_item
  Junk           \* an element never written since new T[size + 1]

\* fixed_size is a uint16_t
ASSUME SizeAssumption ==
  /\ Size \in Nat /\ Size < 65536
  /\ LineSize \in 1 .. Size - 1

\* The end item ends a text, so it is in none
ASSUME TextsAssumption ==
  /\ \A text \in Texts : text \in Seq(Chars) /\ Len(text) \in 1 .. Size - 1
  /\ NewLine \in Chars /\ End \notin Chars

None == -1
Positions == 0 .. Size - 1
Items == Chars \cup {End, Junk}

VARIABLES
  buffer,        \* buffer, with its extra element at Size
  head,
  tail,
  maxed,
  will_clear_if_empty,
  printBuf,      \* writeF's static buffer, while main has a text in it
  pc,            \* where main is
  count,         \* locals of main's write; pos while its loop is interrupted
  pos,
  head_copy,     \* locals of consume_line
  tail_copy,
  line,          \* printAvailableLogging's static line, as consume_line fills it
  taken,         \* the line consume_line returned, until it is printed
  \* history
  torn           \* the contents are not what was logged, see Torn...

bufferVars == <<buffer, head, tail, maxed, will_clear_if_empty, printBuf>>
locals == <<count, pos, head_copy, tail_copy, line>>
vars == <<bufferVars, pc, locals, taken, torn>>

Empty == head = tail

Init ==
  /\ buffer = [p \in 0 .. Size |-> Junk]
  /\ head = 0
  /\ tail = 0
  /\ maxed = FALSE
  /\ will_clear_if_empty = FALSE
  /\ printBuf = <<>>
  /\ pc = "idle"
  /\ count = 0
  /\ pos = 0
  /\ head_copy = 0
  /\ tail_copy = 0
  /\ line = <<>>
  /\ taken = <<>>
  /\ torn = FALSE
----------------------------------------------------------------------------
(* write(const T *items) *)

\* Faulty variant: the end item is left out
Copied_Unterminated(items) ==
  [p \in 0 .. Size |->
    IF p < Size /\ (p - head) % Size < Len(items)
    THEN items[((p - head) % Size) + 1]
    ELSE buffer[p]]

\* The loop and the end item after it
Copied(items) ==
  LET last == (head + Len(items) - 1) % Size
  IN  [p \in 0 .. Size |->
        IF p = last + 1 THEN End
        ELSE IF p < Size /\ (p - head) % Size < Len(items)
             THEN items[((p - head) % Size) + 1]
             ELSE buffer[p]]

\* The loop's test, after it wrote character i, and after some of items
ReachesAt(i) ==
  LET p == (head + i) % Size
  IN  (p + 1) % Size = tail - 1 \/ (tail = 0 /\ p = Size - 1)

Reaches(items) == \E i \in 0 .. Len(items) - 1 : ReachesAt(i)

\* Faulty variant: a full buffer keeps no gap between head and tail
NewTail_NoGap(n, full) == IF full THEN (head + n) % Size ELSE tail

NewTail(n, full) == IF full THEN (head + n + 1) % Size ELSE tail

\* Faulty variant: the head does not wrap
NewHead_Unwrapped(n) == head + n

NewHead(n) == (head + n) % Size

\* Where a callback's text does not survive what main does next: main is about
\* to move the indices past what it copied, or to clear the buffer it found
\* empty, or to store a tail that it read before the buffer filled up.  Where
\* main's loop was interrupted, torn is set already
FillsUp(text) == ((head - tail) % Size) + Len(text) >= Size - 1

TornByWrite(text) ==
  \/ pc \in {"finish", "clearTail", "clearHead"}
  \/ pc \in {"snapTail", "copy", "storeMaxed", "storeTail"} /\ FillsUp(text)

\* What main's loop finds in printBuf when a callback has put its text there
PrintBufAfter(text) ==
  CASE pc = "write" -> text
    [] pc \in {"cut", "rest"} -> IF count <= Len(text) THEN text ELSE printBuf
    [] OTHER -> <<>>

\* A callback's LOG_DEBUG
CallbackLogs(text) ==
  LET full == maxed \/ Reaches(text)
  IN  /\ printBuf' = PrintBufAfter(text)
      /\ will_clear_if_empty' = FALSE
      /\ buffer' = Copied(text)
      /\ tail' = NewTail(Len(text), full)
      /\ head' = NewHead(Len(text))
      /\ maxed' = (head' = tail' - 1)
      /\ torn' = (torn \/ TornByWrite(text))
      /\ pc' = IF pc = "cut" THEN "rest" ELSE pc
      /\ UNCHANGED <<locals, taken>>

\* main's LOG_DEBUG
MainFormats(text) ==
  /\ pc = "idle"
  /\ pc' = "write"
  /\ printBuf' = text
  /\ UNCHANGED <<buffer, head, tail, maxed, will_clear_if_empty, locals, taken, torn>>

MainCopies ==
  /\ pc = "write"
  /\ pc' = "finish"
  /\ will_clear_if_empty' = FALSE
  /\ buffer' = Copied(printBuf)
  /\ maxed' = (maxed \/ Reaches(printBuf))
  /\ count' = Len(printBuf)
  /\ printBuf' = <<>>
  /\ UNCHANGED <<head, tail, pos, head_copy, tail_copy, line, taken, torn>>

\* main's loop from character count to k - 1
CopiedTo(k) ==
  [p \in 0 .. Size |->
    IF p < Size /\ (p - head) % Size \in count .. k - 1
    THEN printBuf[((p - head) % Size) + 1]
    ELSE buffer[p]]

\* A callback is about to log when main's loop has copied k characters
MainInterrupted(k) ==
  /\ pc \in {"write", "rest"}
  /\ k \in count + 1 .. Len(printBuf)
  /\ pc' = "cut"
  /\ will_clear_if_empty' = FALSE
  /\ buffer' = CopiedTo(k)
  /\ maxed' = (maxed \/ \E i \in count .. k - 1 : ReachesAt(i))
  /\ count' = k
  /\ pos' = (head + k - 1) % Size
  /\ torn' = TRUE
  /\ UNCHANGED <<head, tail, printBuf, head_copy, tail_copy, line, taken>>

\* The loop goes on where it was, behind a head that has moved, with what printBuf
\* holds from there on
MainResumes ==
  LET n == Len(printBuf)
      last == IF count < n THEN (head + n - 1) % Size ELSE pos
  IN  /\ pc = "rest"
      /\ pc' = "finish"
      /\ buffer' = [CopiedTo(n) EXCEPT ![last + 1] = End]
      /\ maxed' = (maxed \/ \E i \in count .. n - 1 : ReachesAt(i))
      /\ count' = n
      /\ pos' = 0
      /\ printBuf' = <<>>
      /\ UNCHANGED <<head, tail, will_clear_if_empty, head_copy, tail_copy, line, taken, torn>>

MainMoves ==
  /\ pc = "finish"
  /\ pc' = "idle"
  /\ tail' = NewTail(count, maxed)
  /\ head' = NewHead(count)
  /\ maxed' = (head' = tail' - 1)
  /\ count' = 0
  /\ UNCHANGED <<buffer, will_clear_if_empty, printBuf, pos, head_copy, tail_copy, line,
                 taken, torn>>
----------------------------------------------------------------------------
(* printAvailableLogging *)

\* A full buffer's oldest line is taken first, and not printed
PrintAvailableLogging ==
  /\ pc = "idle"
  /\ pc' = IF maxed THEN "snapHead" ELSE "loop"
  /\ UNCHANGED <<bufferVars, locals, taken, torn>>

\* The line taken before has been printed
WhileNotEmpty ==
  /\ pc = "loop"
  /\ pc' = IF Empty THEN "clearIf" ELSE "snapHead"
  /\ taken' = <<>>
  /\ UNCHANGED <<bufferVars, locals, torn>>

\* consume_line
CopyHead ==
  /\ pc = "snapHead"
  /\ pc' = "snapTail"
  /\ head_copy' = head
  /\ UNCHANGED <<bufferVars, count, pos, tail_copy, line, taken, torn>>

CopyTail ==
  /\ pc = "snapTail"
  /\ pc' = "copy"
  /\ tail_copy' = tail
  /\ UNCHANGED <<bufferVars, count, pos, head_copy, line, taken, torn>>

Lesser(a, b) == IF a < b THEN a ELSE b

\* What strchr(&buffer[p], '\n') may return: it stops at the first newline or
\* end item, and runs on behind the array when there is neither
Strchr(p) ==
  LET stops == {q \in p .. Size : buffer[q] \in {NewLine, End}}
      first == {q \in stops : \A r \in stops : q <= r}
  IN  IF stops = {} THEN {None, Size + 1}
      ELSE {IF buffer[q] = NewLine THEN q ELSE None : q \in first}

Chunk(p, n) == [i \in 1 .. n |-> IF p + i - 1 <= Size THEN buffer[p + i - 1] ELSE Junk]

Wraps == head_copy <= tail_copy /\ ~Empty
\* A uint16_t
Consumable == ((IF Wraps THEN Size ELSE head_copy) - tail_copy) % 65536
WillConsume == Lesser(LineSize, Consumable)

Filled(l, t) == line' = l /\ tail_copy' = t

\* A newline in the first block
LineInBlock(end) ==
  LET extra == Lesser(WillConsume, end - tail_copy + 1)
  IN  Filled(Chunk(tail_copy, extra), (tail_copy + extra) % Size)

\* No newline there and the whole block fits: go on at the start of the buffer
LineAcrossEnd ==
  \E end \in Strchr(0) :
    LET extra == IF end = None THEN 0 ELSE Lesser(LineSize - WillConsume, end + 1)
    IN  Filled(Chunk(tail_copy, WillConsume) \o Chunk(0, extra), extra % Size)

\* No newline and the line is full; the second block adds nothing to it, but
\* the tail is chosen by comparing the line with the second block's length
LineFull ==
  Filled(Chunk(tail_copy, LineSize),
         IF LineSize <= head_copy THEN (tail_copy + LineSize) % Size
         ELSE IF head_copy <= tail_copy + LineSize /\ ~Empty THEN LineSize
         ELSE head_copy)

\* The two cases in which it does not take what is next
Misjudges ==
  /\ Wraps
  /\ \/ Consumable = WillConsume /\ head_copy = 0
     \/ Consumable > WillConsume /\ head_copy < LineSize

ConsumeLine ==
  /\ pc = "copy"
  /\ pc' = "storeMaxed"
  /\ \E end \in Strchr(tail_copy) :
       \/ /\ end # None
          /\ LineInBlock(end)
          /\ UNCHANGED torn
       \/ /\ end = None
          /\ IF Consumable > WillConsume THEN LineFull
             ELSE IF Wraps THEN LineAcrossEnd
             ELSE Filled(Chunk(tail_copy, WillConsume), head_copy)
          /\ torn' = (torn \/ Misjudges)
  /\ UNCHANGED <<bufferVars, count, pos, head_copy, taken>>

StoreMaxed ==
  /\ pc = "storeMaxed"
  /\ pc' = "storeTail"
  /\ maxed' = FALSE
  /\ UNCHANGED <<buffer, head, tail, will_clear_if_empty, printBuf, locals, taken, torn>>

StoreTail ==
  /\ pc = "storeTail"
  /\ pc' = "loop"
  /\ tail' = tail_copy
  /\ taken' = line
  /\ line' = <<>>
  /\ head_copy' = 0
  /\ tail_copy' = 0
  /\ UNCHANGED <<buffer, head, maxed, will_clear_if_empty, printBuf, count, pos, torn>>

\* clear_if_empty
WillClear ==
  /\ pc = "clearIf"
  /\ pc' = "clearTest"
  /\ will_clear_if_empty' = TRUE
  /\ UNCHANGED <<buffer, head, tail, maxed, printBuf, locals, taken, torn>>

ClearTest ==
  /\ pc = "clearTest"
  /\ pc' = IF Empty /\ will_clear_if_empty THEN "clearTail" ELSE "idle"
  /\ UNCHANGED <<bufferVars, locals, taken, torn>>

ClearTail ==
  /\ pc = "clearTail"
  /\ pc' = "clearHead"
  /\ tail' = 0
  /\ UNCHANGED <<buffer, head, maxed, will_clear_if_empty, printBuf, locals, taken, torn>>

\* The clear heals what was torn before it began
ClearHead ==
  /\ pc = "clearHead"
  /\ pc' = "idle"
  /\ head' = 0
  /\ maxed' = FALSE
  /\ torn' = (tail # 0)
  /\ UNCHANGED <<buffer, tail, will_clear_if_empty, printBuf, locals, taken>>
----------------------------------------------------------------------------
Main ==
  \/ \E text \in Texts : MainFormats(text)
  \/ MainCopies
  \/ \E k \in Positions : MainInterrupted(k)
  \/ MainResumes
  \/ MainMoves
  \/ PrintAvailableLogging
  \/ WhileNotEmpty
  \/ CopyHead
  \/ CopyTail
  \/ ConsumeLine
  \/ StoreMaxed
  \/ StoreTail
  \/ WillClear
  \/ ClearTest
  \/ ClearTail
  \/ ClearHead

Next == Main \/ \E text \in Texts : CallbackLogs(text)

Spec == Init /\ [][Next]_vars
----------------------------------------------------------------------------
(* Properties *)

\* The characters from first to last, and those in the buffer.  main's write
\* takes effect when it has copied the text, and clear_if_empty has none
Between(first, last) ==
  [i \in 1 .. (last - first) % Size |-> buffer[(first + i - 1) % Size]]

Contents ==
  CASE pc = "finish"    -> Between(NewTail(count, maxed), NewHead(count))
    [] pc = "clearHead" -> <<>>
    [] OTHER            -> Between(tail, head)

Promise == INSTANCE LogQueue WITH
  queue <- Contents, Capacity <- Size - 1

\* The buffer implements the queue, but for what is torn: a callback that logs
\* where TornByWrite or MainInterrupted says, and the lines that consume_line
\* misjudges, suspend the promise until clear_if_empty next clears
KeepsPromise == Promise!Spec

Locations ==
  {"idle", "write", "cut", "rest", "finish", "loop", "snapHead", "snapTail", "copy",
   "storeMaxed", "storeTail", "clearIf", "clearTest", "clearTail", "clearHead"}

\* The type invariant: the indices stay inside the buffer, whatever callbacks do
\* while main works with its copies of them
TypeOK ==
  /\ buffer \in [0 .. Size -> Items]
  /\ head \in Positions
  /\ tail \in Positions
  /\ maxed \in BOOLEAN
  /\ will_clear_if_empty \in BOOLEAN
  /\ printBuf \in Texts \cup {<<>>}
  /\ pc \in Locations
  /\ count \in Positions
  /\ pos \in Positions
  /\ head_copy \in Positions
  /\ tail_copy \in Positions
  /\ line \in Seq(Items)
  /\ taken \in Seq(Items)
  /\ torn \in BOOLEAN

\* strchr needs a terminated string: the end item follows the last character,
\* except when the head is back at the start of the buffer, or main's write is
\* at its second step
Terminated ==
  ~torn => \/ head = 0
           \/ pc = "finish"
           \/ buffer[head] = End

============================================================================
