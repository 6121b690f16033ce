------------------------------ MODULE LogQueue ------------------------------
(***************************************************************************)
(* What the log buffer promises to those who write to it and to main, who  *)
(* prints it: a queue of characters that forgets its oldest ones, and only *)
(* when it is full, and that is taken from line by line.                   *)
(***************************************************************************)
EXTENDS Naturals, Sequences

CONSTANTS
  Texts,         \* the texts that are logged
  Capacity,      \* most characters the buffer keeps
  LineSize,      \* most characters of a line that is taken
  NewLine

VARIABLES
  queue,         \* the characters logged and not yet taken
  taken,         \* what was taken, until it is printed
  torn           \* the promise is suspended until the buffer is next cleared

\* The last Capacity characters of s
Latest(s) == IF Len(s) <= Capacity THEN s ELSE SubSeq(s, Len(s) - Capacity + 1, Len(s))

Put(text) == queue' = Latest(queue \o text) /\ UNCHANGED taken

\* A prefix of the queue, with no newline before its last character
TakeLine(n) ==
  /\ n <= Len(queue)
  /\ \A i \in 1 .. n - 1 : queue[i] # NewLine
  /\ taken' = SubSeq(queue, 1, n)
  /\ queue' = SubSeq(queue, n + 1, Len(queue))

Printed == taken' = <<>> /\ UNCHANGED queue

Init == queue = <<>> /\ taken = <<>>

Next ==
  \/ \E text \in Texts : Put(text)
  \/ \E n \in 1 .. LineSize : TakeLine(n)
  \/ Printed
  \/ torn
  \/ torn'

Spec == Init /\ [][Next]_<<queue, taken>>
============================================================================
