---------------------------- MODULE ConsoleBuffer ----------------------------
(***************************************************************************)
(* The ring buffer of xconsoleio.c, as operators on the ConsoleBuffer      *)
(* record.  Every caller in the firmware is an interrupt handler with      *)
(* interrupts off, so each function is one atomic update.                  *)
(***************************************************************************)
EXTENDS Integers, Sequences

NUL == 0        \* what x_dequeue returns for an empty buffer

initConsoleBuffer(size) ==
  [buffer |-> [i \in 0 .. size - 1 |-> NUL], size |-> size,
   head |-> 0, tail |-> 0, count |-> 0]

Full(cb) == cb.count = cb.size      \* x_enqueue returns 3

x_flush(cb) == [cb EXCEPT !.head = 0, !.tail = 0, !.count = 0]

(* Mutant: the tail moves before the character is stored.                  *)
x_enqueue_MovesFirst(cb, data) ==
  LET tail == (cb.tail + 1) % cb.size
  IN IF Full(cb) THEN cb
     ELSE [cb EXCEPT !.buffer[tail] = data, !.tail = tail, !.count = @ + 1]

x_enqueue(cb, data) ==
  IF Full(cb) THEN cb
  ELSE [cb EXCEPT !.buffer[cb.tail] = data,
                  !.tail = (@ + 1) % cb.size, !.count = @ + 1]

(* Mutant: the newest character is returned.                               *)
x_dequeue_data_Newest(cb) ==
  IF cb.count = 0 THEN NUL ELSE cb.buffer[(cb.tail - 1) % cb.size]

x_dequeue_data(cb) == IF cb.count = 0 THEN NUL ELSE cb.buffer[cb.head]

(* Mutant: the head is not wrapped.                                        *)
x_dequeue_NoWrap(cb) ==
  IF cb.count = 0 THEN cb ELSE [cb EXCEPT !.head = @ + 1, !.count = @ - 1]

x_dequeue(cb) ==
  IF cb.count = 0 THEN cb
  ELSE [cb EXCEPT !.head = (@ + 1) % cb.size, !.count = @ - 1]

(* The buffer as the abstract queue sees it, oldest character first.       *)
Contents(cb) == [i \in 1 .. cb.count |-> cb.buffer[(cb.head + (i - 1)) % cb.size]]

BufferOK(cb, size, data) ==
  /\ cb \in [buffer : [0 .. size - 1 -> data], size : {size},
             head : 0 .. size - 1, tail : 0 .. size - 1, count : 0 .. size]
  /\ cb.tail = (cb.head + cb.count) % size
=============================================================================
