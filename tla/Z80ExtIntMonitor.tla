--------------------------- MODULE Z80ExtIntMonitor ---------------------------
(***************************************************************************)
(* The two monitor commands that drive /INT without the queue: "int"       *)
(* (Z80_EXTINT) pulses the line, "cont" (dbg_Continue) pulls it low.  They *)
(* run in the main loop, so any handler may run between two statements,    *)
(* and the queue may hold entries of the devices.                          *)
(***************************************************************************)
EXTENDS Z80ExtInt

VARIABLE mon    \* the statement the monitor is at

monVars == <<vars, mon>>

MonInit == Init /\ mon = "prompt"

MainRuns == int4 # "released"

(* Z80_EXTINT_low, its first statement.                                    *)
Z80_EXTINT_vector(v, next) == /\ MainRuns /\ mon = "prompt"
                              /\ z80_int_vector' = v
                              /\ mon' = next
                              /\ UNCHANGED <<int_queue, int_queue_head,
                                     int_queue_tail, intLow, bus, int4, z80, iff>>

(* Its second statement.                                                   *)
Z80_EXTINT_pin(at, next) == /\ MainRuns /\ mon = at
                            /\ intLow' = TRUE
                            /\ mon' = next
                            /\ UNCHANGED <<queueVars, bus, int4, z80, iff>>

(* Z80_EXTINT_High, one microsecond later.  The user gives "int" once.      *)
Z80_EXTINT_High == /\ MainRuns /\ mon = "int_high"
                   /\ intLow' = FALSE
                   /\ mon' = "done"
                   /\ UNCHANGED <<queueVars, bus, int4, z80, iff>>

Command_int == \/ \E v \in Vectors : Z80_EXTINT_vector(v, "int_low")
               \/ Z80_EXTINT_pin("int_low", "int_high")
               \/ Z80_EXTINT_High

Command_cont == \/ \E v \in Vectors : Z80_EXTINT_vector(v, "cont_low")
                \/ Z80_EXTINT_pin("cont_low", "prompt")

Board(A) == A /\ UNCHANGED mon

(* The board goes on as in Z80ExtInt, and a command once begun is finished. *)
MonitorSpec == /\ MonInit /\ [][Board(Next) \/ Command_int \/ Command_cont]_monVars
               /\ WF_monVars(Board(INT4_release)) /\ WF_monVars(Board(INT4_dequeue))
               /\ WF_monVars(Board(Z80_EI)) /\ SF_monVars(Board(Z80_accept))
               /\ WF_monVars(Z80_EXTINT_pin("int_low", "int_high"))
               /\ WF_monVars(Z80_EXTINT_pin("cont_low", "prompt"))
               /\ WF_monVars(Z80_EXTINT_High)
-----------------------------------------------------------------------------
(* /XINT is kept low until the INT4 handler raises it (Design.md), so a    *)
(* queued vector is always taken.  The "int" command raises the line while *)
(* an entry waits; as enqueue lowers it for a lone entry only, it then     *)
(* stays high for ever.                                                    *)
QueuedVectorServed == (Count > 0) ~> (int4 = "released")
=============================================================================
