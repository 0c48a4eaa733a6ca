---------------------------- MODULE MCBiosConsole ----------------------------
(* Characters are codes; 0 is NUL.                                          *)
EXTENDS BiosConsole, Rates
TwoChars == {65, 66}
WithNul == {0, 65}

\* TLC's bound: what programs print is A and B in turn, which tells any two
\* neighbours in the buffer apart.  What is typed is either at any time.
PrintsInTurn == pc \in {"conout", "conout1", "conout2"} =>
  c = (IF cb_tx1.tail % 2 = 0 THEN 65 ELSE 66)

\* The UARTs are within 2 % of the rate asked for, and one that gets a
\* character from each Timer0 is free at the next, so Timer0 never waits.
ASSUME RatesFit ==
  \A m \in Settings :
    /\ 50 * (Baud(UBRR(m.baud)) - m.baud) \in -m.baud .. m.baud
    /\ CharTime(UBRR(m.baud)) < Period(m.timer0)

\* All the periods the comment of timer.c promises, 1 to 15 ms, fit the
\* 8-bit register and are within 3 %.
ASSUME PeriodsFit ==
  \A n \in 1 .. 15 : 100 * (Period(n) - 1000 * n) \in -3000 * n .. 3000 * n
=============================================================================
