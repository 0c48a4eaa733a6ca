------------------------------ MODULE BiosDisk ------------------------------
(***************************************************************************)
(* The disk calls of the BIOS (bios.asm) on top of the emulated disk: the  *)
(* Z80 asks with an OUT, spins on a flag its interrupt routine sets and    *)
(* reads the status once.  The deferring of writes and the read cache,     *)
(* which decide when these requests are made, are in BiosBlocking.         *)
(***************************************************************************)
EXTENDS EmDisk

VARIABLES pc,      \* where the main line of the Z80 is
          op,      \* the operation it is in
          ret,     \* what the last call returned: "ok", "error", "none" yet,
                   \* or "load" while CCP and BDOS are being read
          crossed  \* history: the last reset of the Z80 ended with a request
                   \* still waiting, or left behind

vars == <<intVars, diskVars, pc, op, ret, crossed>>
z80Vars == <<pc, op, ret, crossed>>

Init == /\ IntInit /\ DiskInit
        /\ pc = "boot" /\ op = "read" /\ ret = "none" /\ crossed = FALSE
-----------------------------------------------------------------------------
(* The monitor resets the Z80, wherever the Z80 is: also while a call      *)
(* waits.  The monitor is the main program, which Timer2's handler         *)
(* interrupts: the pulse begins and ends between two runs of the handler,  *)
(* and during it the handler may make the transfer, /RESET being joined to *)
(* /BUSACK.  Neither the disk nor the interrupt queue is told; what was    *)
(* dropped before concerns no call of the new start.                       *)
Z80_RESET == /\ t2op = "none" /\ pc # "reset" /\ pc' = "reset"
             /\ ret' = "none" /\ op' = op /\ crossed' = crossed
             /\ iff' = FALSE /\ serving' = FALSE
             /\ UNCHANGED <<pending, bus, refused, flag, diskVars>>
EndReset == /\ t2op = "none" /\ pc = "reset" /\ pc' = "boot"
            /\ crossed' = \E d \in Drives, o \in Ops : fd[d][o].state # "IDLE"
            /\ refused' = FALSE
            /\ UNCHANGED <<pending, bus, iff, serving, flag, diskVars, op, ret>>

(* BOOT up to LOAD_CCP_BDOS.                                               *)
BOOT == /\ pc = "boot" /\ pc' = "load"
        /\ OUT_DSK_IntLevel(DSKRD, DSKWR)
        /\ iff' = TRUE
        /\ UNCHANGED <<pending, bus, refused, serving, flag, fd, cfd, dt_pos,
                       dataVars, t2Vars, op, ret, crossed>>

(* A program ends in a warm boot.                                          *)
WBOOT == /\ pc = "program" /\ MainRuns /\ pc' = "load"
         /\ UNCHANGED <<intVars, diskVars, op, ret, crossed>>

(* LOAD_CCP_BDOS: SELDSK of drive A:, whose result is not looked at, and a *)
(* read of the first sectors.                                              *)
LOAD_CCP_BDOS == /\ pc = "load" /\ MainRuns /\ pc' = "position"
                 /\ OUT_0A_DSK_SelectDisk(0)
                 /\ op' = "read" /\ ret' = "load"
                 /\ UNCHANGED <<dataVars, t2Vars, intVars, crossed>>
LOAD_position == /\ pc = "position" /\ MainRuns /\ pc' = "ask"
                 /\ OUT_DSK_Pos("read", 0)
                 /\ UNCHANGED <<fd, cfd, int_level, dataVars, t2Vars, intVars, op, ret,
                                 crossed>>

(* SELDSK, and the DISK_ERROR that falls back to drive A:.                 *)
SELDSK(d) == /\ pc = "program" /\ MainRuns /\ pc' = "selected"
             /\ OUT_0A_DSK_SelectDisk(d)
             /\ op' = op /\ ret' = "none"
             /\ UNCHANGED <<dataVars, t2Vars, intVars, crossed>>
SELDSK_check == /\ pc = "selected" /\ MainRuns /\ pc' = "program"
                /\ IF IN_0A_DSK_GetDiskStatus = 0
                   THEN UNCHANGED <<fd, cfd, int_level, dt_pos>>
                   ELSE OUT_0A_DSK_SelectDisk(0)
                /\ UNCHANGED <<dataVars, t2Vars, intVars, op, ret, crossed>>

(* READ_SUB on a cache miss, and DO_WRITE after the records of a program   *)
(* went to DMABUF: the position and, abstracted, buffer and length.        *)
CallRead(s) == /\ pc = "program" /\ MainRuns
               /\ pc' = "ask" /\ op' = "read" /\ ret' = "none"
               /\ OUT_DSK_Pos("read", s)
               /\ UNCHANGED <<fd, cfd, int_level, dataVars, t2Vars, intVars, crossed>>
CallWrite(s, data) == /\ pc = "program" /\ MainRuns
                      /\ pc' = "ask" /\ op' = "write" /\ ret' = "none"
                      /\ OUT_DSK_Pos("write", s)
                      /\ buffer' = data
                      /\ UNCHANGED <<fd, cfd, int_level, image, t2Vars, intVars, crossed>>

(* Mutant: the flag of the transfer before is not reset.                   *)
DISK_SUB_StaleFlag ==
  /\ pc = "ask" /\ MainRuns
  /\ OUT_start(op) /\ iff' = TRUE
  /\ pc' = "wait"
  /\ UNCHANGED <<pending, bus, refused, serving, flag, dataVars, t2Vars, op, ret, crossed>>

(* DISK_READ_SUB and DISK_WRITE_SUB: DI, reset the flag, OUT, EI.          *)
DISK_SUB == /\ pc = "ask" /\ MainRuns
            /\ flag' = [flag EXCEPT ![Vector(IF op = "read" THEN DSKRD ELSE DSKWR)] = FALSE]
            /\ OUT_start(op) /\ iff' = TRUE
            /\ pc' = "wait"
            /\ UNCHANGED <<pending, bus, refused, serving, dataVars, t2Vars, op, ret, crossed>>

WAIT_COMPLETE == /\ pc = "wait" /\ MainRuns
                 /\ flag[Vector(IF op = "read" THEN DSKRD ELSE DSKWR)]
                 /\ pc' = "status"
                 /\ UNCHANGED <<intVars, diskVars, op, ret, crossed>>

(* Between the call that raises the interrupt and state = IDLE the Timer2  *)
(* handler has two instructions left; the Z80 needs an acknowledge cycle,  *)
(* a service routine and a turn of its loop (some 100 clocks) to get to    *)
(* the status.  The handler is taken to win.                               *)
StatusSettled == t2pc # "done"

(* The one IN of the status: 4 asks again, 2 is an error, the rest is      *)
(* success; but LOAD_CCP_BDOS halts for all except 0 and 4.                *)
CheckStatus == /\ pc = "status" /\ MainRuns /\ StatusSettled
               /\ LET status == IF op = "read" THEN IN_13_DSK_ReadStatus ELSE IN_0E_DSK_WriteStatus
                  IN IF status = 4 THEN pc' = "ask" /\ ret' = ret
                     ELSE /\ pc' = IF ret = "load" /\ status # 0
                                   THEN "halt" ELSE "program"
                          /\ ret' = IF status = 2 THEN "error" ELSE "ok"
               /\ UNCHANGED <<intVars, diskVars, op, crossed>>

(* A program turns interrupts off, or on.                                  *)
ProgramDIEI == /\ pc = "program" /\ MainRuns /\ iff' = ~iff
               /\ UNCHANGED <<pending, bus, refused, serving, flag, diskVars, z80Vars>>

(* Some other device, the console say, raises its vector.                  *)
OtherDevice == /\ Notify(CONIN_INT)
               /\ UNCHANGED <<iff, serving, flag, diskVars, z80Vars>>

Interrupts == (Z80_acknowledge \/ Z80_isr) /\ UNCHANGED <<diskVars, z80Vars>>
Avr == Timer2 /\ UNCHANGED z80Vars
Program == \/ \E d \in Drives : SELDSK(d)
           \/ \E s \in Sectors : CallRead(s)
           \/ \E s \in Sectors, data \in Data : CallWrite(s, data)
           \/ ProgramDIEI \/ WBOOT
Bios == BOOT \/ LOAD_CCP_BDOS \/ LOAD_position \/ SELDSK_check \/ DISK_SUB \/ WAIT_COMPLETE \/ CheckStatus
Next == Z80_RESET \/ EndReset \/ Program \/ Bios \/ Interrupts \/ OtherDevice \/ Avr

(* Timer2 is periodic and its transfers end; the Z80 runs and takes its    *)
(* interrupts, and the other devices leave the main line some time.        *)
Fairness == WF_vars(Avr) /\ WF_vars(Interrupts) /\ SF_vars(Bios) /\ []<>MainRuns
Safety == Init /\ [][Next]_vars
Spec == Safety /\ Fairness
-----------------------------------------------------------------------------
TypeOK == /\ IntTypeOK /\ DiskTypeOK
          /\ pc \in {"reset", "boot", "load", "position", "halt", "program", "selected",
                     "ask", "wait", "status"}
          /\ op \in Ops /\ ret \in {"none", "ok", "error", "load"}
          /\ crossed \in BOOLEAN

(* A read that returns 0 has left in the buffer the sector it was asked    *)
(* for, a write that returns 0 has put the buffer on the card: unless a    *)
(* reset crossed a request, whose transfer or wake-up may be taken for the *)
(* next one's.                                                             *)
SuccessIsTransfer == ret = "ok" => crossed \/ buffer = image[cfd][dt_pos[op]]

(* A call reports an error exactly when its transfer failed, with the same *)
(* exception.                                                              *)
ErrorIsReported ==
  ret \in {"ok", "error"} => crossed \/ (ret = "error" <=> ~fd[cfd][op].ok)

(* SELDSK resets the requests of a drive without looking.  It meets one    *)
(* that is waiting or being served only when a reset of the Z80 left it    *)
(* behind; otherwise a request accepted ends with its transfer.            *)
SeldskFindsIdle == [][\A d \in Drives, o \in Ops :
    Busy(fd[d][o]) /\ fd'[d][o].state = "IDLE" => t2pc = "done" \/ crossed]_fd

(* A call that waits for its completion returns, unless a full interrupt   *)
(* queue has dropped a vector, or a reset crossed a request: the next is   *)
(* then rejected, and a rejection raises no interrupt.                     *)
DiskCallsReturn == (pc = "wait") ~> (pc # "wait" \/ refused \/ crossed)

(* No request of the BIOS is ever rejected, but beside one left behind.    *)
NeverRejected == \A d \in Drives, o \in Ops : fd[d][o].state = "REJECTED" => crossed
=============================================================================
