------------------------------- MODULE EmDisk -------------------------------
(***************************************************************************)
(* The emulated disk of em_diskio.c: the ports the Z80 sees, whose         *)
(* handlers run with interrupts off, and the transfers, which the periodic *)
(* Timer2 handler makes with interrupts on, so that every port access may  *)
(* come between two of its steps.  A request moves one sector between the  *)
(* image file of the selected drive and a buffer in the RAM of the Z80.    *)
(***************************************************************************)
EXTENDS BiosInt

CONSTANTS Drives,      \* the image files, 0 the one selected at power-on
          Sectors,     \* positions in an image, 0 the first
          Data         \* contents of a sector

ASSUME ZeroAssumption == 0 \in Drives /\ 0 \in Sectors

VARIABLES fd,          \* per drive: is the file open, the read and the write request
          cfd,         \* the selected drive
          int_level,   \* the levels of ports 0F and 14
          dt_pos,      \* the positions of ports 0B and 10
          image,       \* what is on the SD card
          buffer,      \* the Z80 RAM the request points to (DMABUF but at boot)
          t2op, t2pc   \* Timer2: the operation it is in and where

devVars == <<fd, cfd, int_level, dt_pos>>
dataVars == <<image, buffer>>
t2Vars == <<t2op, t2pc>>
diskVars == <<devVars, dataVars, t2Vars>>

Ops == {"read", "write"}
Other == [read |-> "write", write |-> "read"]
Request == [state : {"IDLE", "REQUESTING", "DOING", "REJECTED"},
            position : Sectors, ok : BOOLEAN]
AtRest == [state |-> "IDLE", position |-> 0, ok |-> TRUE]
Busy(q) == q.state \in {"REQUESTING", "DOING"}

(* init_em_diskio: a file may be missing from the card.                    *)
DiskInit == /\ \E opened \in [Drives -> BOOLEAN] :
                 fd = [d \in Drives |-> [open |-> opened[d],
                                         read |-> AtRest, write |-> AtRest]]
            /\ cfd = 0
            /\ int_level = [op \in Ops |-> Disabled]
            /\ dt_pos = [op \in Ops |-> 0]
            /\ image \in [Drives -> [Sectors -> Data]]
            /\ buffer \in Data
            /\ t2op = "none" /\ t2pc = "check"
-----------------------------------------------------------------------------
(* Ports.  Selecting a drive forgets its requests, and opens its file      *)
(* again if something about it failed.                                     *)
Forgotten(q) == [q EXCEPT !.state = "IDLE", !.ok = TRUE]
OUT_0A_DSK_SelectDisk(d) ==
  LET fine == fd[d].open /\ fd[d].read.ok /\ fd[d].write.ok
  IN /\ cfd' = d
     /\ \E opens \in BOOLEAN :
          /\ fine => opens
          /\ fd' = [fd EXCEPT ![d] = [open |-> opens, read |-> Forgotten(@.read),
                                      write |-> Forgotten(@.write)]]
     /\ UNCHANGED <<int_level, dt_pos>>

IN_0A_DSK_GetDiskStatus == IF fd[cfd].open THEN 0 ELSE 1

(* The byte-wise set-up of a position, and BOOT's of the two levels.       *)
OUT_DSK_Pos(op, s) == dt_pos' = [dt_pos EXCEPT ![op] = s]
OUT_DSK_IntLevel(rd, wr) == int_level' = [read |-> rd, write |-> wr]

(* What an OUT to the start port makes of a request.                       *)
Requested(q, other, pos) ==
  IF Busy(other) \/ Busy(q) THEN [q EXCEPT !.state = "REJECTED"]
  ELSE [q EXCEPT !.state = "REQUESTING", !.position = pos]

(* OUT_13_DSK_Read and OUT_0E_DSK_Write.                                   *)
OUT_start(op) ==
  /\ fd' = [fd EXCEPT ![cfd][op] = Requested(@, fd[cfd][Other[op]], dt_pos[op])]
  /\ UNCHANGED <<cfd, int_level, dt_pos>>

(* Mutant: the result of the last transfer is not reported.                *)
IN_status_NoResult(op) ==
  LET q == fd[cfd][op]
  IN IF Busy(q) THEN 1 ELSE IF q.state = "REJECTED" THEN 4 ELSE 0

(* The status of either request, and its two ports.                        *)
IN_status(op) ==
  LET q == fd[cfd][op]
  IN CASE Busy(q)                       -> 1
       [] q.state = "REJECTED"          -> 4
       [] q.state = "IDLE" /\ q.ok      -> 0
       [] q.state = "IDLE" /\ ~q.ok     -> 2
IN_0E_DSK_WriteStatus == IN_status("write")
IN_13_DSK_ReadStatus == IN_status("read")
-----------------------------------------------------------------------------
(* Timer2.  Each step looks cfd up again, as the code does.                *)
NextOp == /\ t2op' = IF t2op = "read" THEN "write" ELSE "none"
          /\ t2pc' = "check"

TIMER2_COMP == /\ t2op = "none" /\ t2op' = "read" /\ t2pc' = "check"
               /\ UNCHANGED <<devVars, dataVars, intVars>>

em_disk_check ==
  /\ t2op # "none" /\ t2pc = "check"
  /\ LET q == fd[cfd][t2op]
         other == fd[cfd][Other[t2op]]
     IN \/ /\ q.state # "REQUESTING" /\ NextOp
           /\ UNCHANGED <<fd, pending, bus, refused>>
        \/ /\ q.state = "REQUESTING" /\ Busy(other) /\ NextOp
           /\ fd' = [fd EXCEPT ![cfd][t2op].state = "REJECTED"]
           /\ Notify(int_level[t2op])
        \/ /\ q.state = "REQUESTING" /\ ~Busy(other)
           /\ t2pc' = "start" /\ t2op' = t2op
           /\ UNCHANGED <<fd, pending, bus, refused>>
  /\ UNCHANGED <<cfd, int_level, dt_pos, dataVars, iff, serving, flag>>

(* Mutant: the interrupt is raised when the transfer begins.               *)
em_disk_start_Notifies ==
  /\ t2pc = "start" /\ t2pc' = "transfer" /\ t2op' = t2op
  /\ fd' = [fd EXCEPT ![cfd][t2op].state = "DOING"]
  /\ Notify(int_level[t2op])
  /\ UNCHANGED <<cfd, int_level, dt_pos, dataVars, iff, serving, flag>>

em_disk_start ==
  /\ t2pc = "start" /\ t2pc' = "transfer" /\ t2op' = t2op
  /\ fd' = [fd EXCEPT ![cfd][t2op].state = "DOING"]
  /\ UNCHANGED <<cfd, int_level, dt_pos, dataVars, intVars>>

(* FatFs and the copy to or from the RAM of the Z80.  A file that is not   *)
(* open fails; a failed write may or may not have reached the card.        *)
em_disk_transfer ==
  /\ t2pc = "transfer" /\ t2pc' = "notify" /\ t2op' = t2op
  /\ LET pos == fd[cfd][t2op].position
     IN \E ok \in BOOLEAN :
          /\ ok => fd[cfd].open
          /\ fd' = [fd EXCEPT ![cfd][t2op].ok = ok]
          /\ buffer' = IF t2op = "read" /\ ok THEN image[cfd][pos] ELSE buffer
          /\ \/ (t2op = "read" \/ ~ok) /\ image' = image
             \/ t2op = "write" /\ image' = [image EXCEPT ![cfd][pos] = buffer]
  /\ UNCHANGED <<cfd, int_level, dt_pos, intVars>>

(* Mutant: the interrupt is raised only for a transfer that succeeded.     *)
em_disk_notify_OnSuccess ==
  /\ t2pc = "notify" /\ t2pc' = "done" /\ t2op' = t2op
  /\ IF fd[cfd][t2op].ok THEN Notify(int_level[t2op])
                         ELSE UNCHANGED <<pending, bus, refused>>
  /\ UNCHANGED <<devVars, dataVars, iff, serving, flag>>

em_disk_notify ==
  /\ t2pc = "notify" /\ t2pc' = "done" /\ t2op' = t2op
  /\ Notify(int_level[t2op])
  /\ UNCHANGED <<devVars, dataVars, iff, serving, flag>>

(* The last line: state = IDLE.                                            *)
em_disk_done ==
  /\ t2pc = "done" /\ NextOp
  /\ fd' = [fd EXCEPT ![cfd][t2op].state = "IDLE"]
  /\ UNCHANGED <<cfd, int_level, dt_pos, dataVars, intVars>>

Timer2 == \/ TIMER2_COMP \/ em_disk_check \/ em_disk_start
          \/ em_disk_transfer \/ em_disk_notify \/ em_disk_done

DiskTypeOK == /\ fd \in [Drives -> [open : BOOLEAN, read : Request, write : Request]]
              /\ cfd \in Drives
              /\ int_level \in [Ops -> {DSKRD, DSKWR, Disabled}]
              /\ dt_pos \in [Ops -> Sectors]
              /\ image \in [Drives -> [Sectors -> Data]] /\ buffer \in Data
              /\ t2op \in Ops \cup {"none"}
              /\ t2pc \in {"check", "start", "transfer", "notify", "done"}
=============================================================================
