------------------------------- MODULE Rates -------------------------------
(* The rates main sets: the two UARTs (usart.c) and the timers (timer.c),   *)
(* by the DIP switch.  Times are in microseconds; FOSC is 16 MHz.           *)
EXTENDS Integers

FOSC == 16000000

\* USART0_Init and USART1_Init: what goes to UBRR, 12 bits wide.
UBRR(baud) == ((FOSC \div 16) \div (baud - 1)) % 4096
\* The rate that a UBRR gives, and the time of a character of ten bits.
Baud(ubrr) == (FOSC \div 16) \div (ubrr + 1)
CharTime(ubrr) == (10 * 16 * (ubrr + 1)) \div (FOSC \div 1000000)

\* Timer0_Init and Timer2_Init: an 8-bit compare value for n milliseconds,
\* and the time between two matches, at 64 us a count.
OCR(n) == ((n * FOSC) \div 1024000) % 256
Period(n) == (OCR(n) + 1) * 64

\* main: DIPSW2 on, or off.
Settings ==
  {[baud |-> 19200, timer0 |-> 1, timer2 |-> 10],
   [baud |-> 9600, timer0 |-> 2, timer2 |-> 10]}
=============================================================================
