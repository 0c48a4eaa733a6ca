------------------------------ MODULE MmcDisk ------------------------------
(***************************************************************************)
(* The SD card driver (fatfs/mmc_avr_spi.c) and who calls it: main while   *)
(* it boots, INT1 when SELDSK opens a file again, and Timer2 for transfers.*)
(* The driver waits by spinning on timers that mmc_disk_timerproc counts   *)
(* down, which is an interrupt handler: whether they run depends on the    *)
(* interrupt flag of the moment.  A command is sent in two steps, the wait *)
(* for the card before it and the command with its answer.                 *)
(***************************************************************************)
EXTENDS Integers

CONSTANTS Kinds,       \* the cards that may be inserted
          MaxCount,    \* sectors in a call
          Long, Short  \* time-outs in ticks of 10 ms, scaled: 1 s, and the others

ASSUME TimesAssumption == Short \in Nat \ {0} /\ Long \in Nat /\ Long >= Short
ASSUME CountAssumption == MaxCount \in Nat \ {0}
ASSUME KindsAssumption == Kinds \subseteq {"SDv2B", "SDv2", "SDv1", "MMC"}

VARIABLES Stat,        \* the status: noinit, nodisk, protect
          Timer1, Timer2,
          CardType,    \* "none", "SD2B" (block addresses), "SD2", "SD1", "MMC3"
          card,        \* the card in the socket
          I,           \* the interrupt flag of the AVR
          who,         \* who calls the driver
          pc, cmd, res,
          call         \* the call: function, sectors asked and left, result
vars == <<Stat, Timer1, Timer2, CardType, card, I, who, pc, cmd, res, call>>

NoResponse == 255
(* The card's mode: "off" until CMD0 puts it into SPI mode, "idle", "ready"; *)
(* empty: ticks the socket has been seen empty; hits: sectors it moved in a  *)
(* call.                                                                     *)
Call(fn, count) ==
  [fn |-> fn, count |-> count, left |-> count, ty |-> "none",
   reg |-> Stat, result |-> "ERROR"]
-----------------------------------------------------------------------------
(* The card's side of the bus.                                             *)
Answer(c) ==
  IF ~card.in \/ (card.mode = "off" /\ c # "CMD0") THEN {}
  ELSE CASE c = "CMD0" -> {1}
         [] c = "CMD8" -> IF card.kind \in {"SDv2B", "SDv2"} THEN {1} ELSE {5}
         [] c = "ACMD41_HCS" -> IF card.kind = "MMC" THEN {5} ELSE {0, 1}
         [] c = "ACMD41" -> CASE card.kind = "MMC" -> {5}
                              [] card.kind = "SDv2B" -> {1}
                              [] OTHER -> {0, 1}
         [] c = "CMD1" -> IF card.kind = "SDv2B" THEN {1} ELSE {0, 1}
         [] OTHER -> IF card.mode = "ready" THEN {0} ELSE {5}

ModeAfter(c, r) == CASE c = "CMD0" /\ r = 1 -> "idle"
                     [] c \in {"ACMD41_HCS", "ACMD41", "CMD1"} /\ r = 0 -> "ready"
                     [] OTHER -> card.mode

(* A block goes to the sector asked for if both sides mean the same by an  *)
(* address.                                                                *)
Hits == (CardType = "SD2B") <=> (card.kind = "SDv2B")
-----------------------------------------------------------------------------
(* send_cmd: the wait for the card, up to 500 ms, enables interrupts.      *)
Send(c) == cmd' = c /\ Timer2' = Short /\ I' = TRUE /\ pc' = "wait_ready"

send_cmd_response ==
  /\ pc = "wait_ready" /\ ~(card.in /\ card.busy)
  /\ \E r \in Answer(cmd) \cup {NoResponse} :
       res' = r /\ card' = [card EXCEPT !.mode = ModeAfter(cmd, r)]
  /\ pc' = "response"
  /\ UNCHANGED <<Stat, Timer1, Timer2, CardType, I, who, cmd, call>>

wait_ready_timeout ==
  /\ pc = "wait_ready" /\ card.in /\ card.busy /\ Timer2 = 0
  /\ res' = NoResponse /\ pc' = "response"
  /\ UNCHANGED <<Stat, Timer1, Timer2, CardType, card, I, who, cmd, call>>
-----------------------------------------------------------------------------
(* mmc_disk_initialize, after the answer to each command.                  *)
Leave(ty) == /\ CardType' = ty /\ call' = [call EXCEPT !.ty = ty]
             /\ pc' = IF ty = "none" THEN "return" ELSE "clear_NOINIT"
             /\ UNCHANGED <<Timer1, Timer2, I, cmd>>
Issue(c, ty) == /\ Send(c) /\ call' = [call EXCEPT !.ty = ty]
                /\ UNCHANGED <<Timer1, CardType>>
Again == Issue(cmd, call.ty)

initialize_power ==
  /\ pc = "initialize"
  /\ Timer1' = Short /\ pc' = "power_off"
  /\ UNCHANGED <<Stat, Timer2, CardType, card, I, who, cmd, res, call>>

initialize_CMD0 ==
  /\ pc = "power_off" /\ Timer1 = 0
  /\ IF Stat.nodisk
     THEN pc' = "return" /\ UNCHANGED <<Timer2, cmd, I>>
     ELSE Send("CMD0")
  /\ UNCHANGED <<Stat, Timer1, CardType, card, who, res, call>>

initialize_CMD8 ==
  /\ cmd = "CMD0"
  /\ IF res = 1 THEN Send("CMD8") /\ Timer1' = Long /\ UNCHANGED <<CardType, call>>
                ELSE Leave("none")

(* The echo of CMD8 may not match.                                         *)
initialize_ACMD41 ==
  /\ cmd = "CMD8"
  /\ \/ res = 1 /\ (IF Timer1 > 0 THEN Issue("ACMD41_HCS", "none") ELSE Leave("none"))
     \/ res = 1 /\ Leave("none")
     \/ res # 1 /\ Issue("ACMD41", "none")

(* SDv2: wait for it to leave the idle state, then ask for its addressing. *)
initialize_CMD58 ==
  /\ cmd = "ACMD41_HCS"
  /\ CASE Timer1 > 0 /\ res # 0 -> Again
       [] Timer1 > 0 /\ res = 0 -> Issue("CMD58", "none")
       [] OTHER -> Leave("none")
initialize_v2 ==
  /\ cmd = "CMD58"
  /\ Leave(CASE res # 0 -> "none" [] res = 0 /\ card.kind = "SDv2B" -> "SD2B"
             [] OTHER -> "SD2")

(* SDv1 or MMCv3, told apart by the first ACMD41.                          *)
initialize_v1 ==
  /\ cmd \in {"ACMD41", "CMD1"}
  /\ LET ty == CASE call.ty # "none" -> call.ty [] call.ty = "none" /\ res <= 1 -> "SD1"
                 [] OTHER -> "MMC3"
         c == IF ty = "SD1" THEN "ACMD41" ELSE "CMD1"
     IN CASE Timer1 = 0 -> Leave("none")
          [] Timer1 > 0 /\ (call.ty = "none" \/ res # 0) -> Issue(c, ty)
          [] OTHER -> Issue("CMD16", ty)
initialize_CMD16 == cmd = "CMD16" /\ Leave(IF res = 0 THEN call.ty ELSE "none")

initialize_response ==
  /\ pc = "response" /\ call.fn = "initialize"
  /\ \/ initialize_CMD8 \/ initialize_ACMD41 \/ initialize_CMD58 \/ initialize_v2
     \/ initialize_v1 \/ initialize_CMD16
  /\ UNCHANGED <<Stat, card, who, res>>

(* Stat &= ~STA_NOINIT reads and writes back; an interrupt fits between.   *)
clear_NOINIT_load ==
  /\ pc = "clear_NOINIT" /\ pc' = "store"
  /\ call' = [call EXCEPT !.reg = Stat]
  /\ UNCHANGED <<Stat, Timer1, Timer2, CardType, card, I, who, cmd, res>>
clear_NOINIT_store ==
  /\ pc = "store" /\ pc' = "return"
  /\ Stat' = [call.reg EXCEPT !.noinit = FALSE]
  /\ UNCHANGED <<Timer1, Timer2, CardType, card, I, who, cmd, res, call>>
-----------------------------------------------------------------------------
(* mmc_disk_read and mmc_disk_write.  In "token" the first waits for a data*)
(* packet, in "wait_data" the second for a card that takes one.            *)
Return(result) == pc' = "return" /\ call' = [call EXCEPT !.result = result]
Fails == Return("ERROR") /\ UNCHANGED <<Timer2, I, cmd>>
OKIf(left) == Return(IF left = 0 THEN "OK" ELSE "ERROR")

mmc_disk_read ==
  /\ pc = "read"
  /\ IF Stat.noinit THEN Return("NOTRDY") /\ UNCHANGED <<Timer2, I, cmd>>
     ELSE Send(IF call.count > 1 THEN "CMD18" ELSE "CMD17") /\ UNCHANGED call
  /\ UNCHANGED <<Stat, Timer1, CardType, card, who, res>>

read_response ==
  /\ pc = "response" /\ call.fn = "read"
  /\ CASE cmd = "CMD12" -> OKIf(call.left) /\ UNCHANGED Timer1
       [] cmd # "CMD12" /\ res = 0 -> Timer1' = Short /\ pc' = "token" /\ UNCHANGED call
       [] OTHER -> Fails /\ UNCHANGED Timer1
  /\ UNCHANGED <<Stat, Timer2, I, cmd, CardType, card, who, res>>

(* A packet comes, or something else does, or nothing for 200 ms.  CMD12   *)
(* goes out without waiting for the card.                                  *)
Stop(left) == /\ call' = [call EXCEPT !.left = left]
              /\ pc' = "wait_ready" /\ cmd' = "CMD12"

(* Mutant: the last packet of a call is taken without a look at its token. *)
rcvr_datablock_Any ==
  /\ pc = "token"
  /\ LET got == IF card.in THEN 1 ELSE 0
         left == IF call.left = 1 THEN 0 ELSE call.left - got
     IN /\ card' = [card EXCEPT !.hits = IF card.in /\ Hits THEN @ + 1 ELSE @]
        /\ CASE card.in /\ left > 0 -> call' = [call EXCEPT !.left = left]
                                       /\ Timer1' = Short /\ UNCHANGED <<pc, cmd>>
             [] OTHER -> OKIf(left) /\ UNCHANGED <<Timer1, cmd>>
  /\ UNCHANGED <<Stat, Timer2, CardType, I, who, res>>

rcvr_datablock ==
  /\ pc = "token"
  /\ \/ /\ card.in /\ card.mode = "ready"
        /\ card' = [card EXCEPT !.hits = IF Hits THEN @ + 1 ELSE @]
        /\ LET left == call.left - 1
           IN CASE left > 0 -> call' = [call EXCEPT !.left = left] /\ Timer1' = Short
                               /\ UNCHANGED <<pc, cmd>>
                [] left = 0 /\ call.count > 1 -> Stop(left) /\ UNCHANGED Timer1
                [] OTHER -> OKIf(left) /\ UNCHANGED <<Timer1, cmd>>
     \/ /\ card.in \/ Timer1 = 0
        /\ IF call.count > 1 THEN Stop(call.left) ELSE OKIf(call.left) /\ UNCHANGED cmd
        /\ UNCHANGED <<card, Timer1>>
  /\ UNCHANGED <<Stat, Timer2, CardType, I, who, res>>

mmc_disk_write ==
  /\ pc = "write"
  /\ CASE Stat.noinit -> Return("NOTRDY") /\ UNCHANGED <<Timer2, I, cmd>>
       [] ~Stat.noinit /\ Stat.protect -> Return("WRPRT") /\ UNCHANGED <<Timer2, I, cmd>>
       [] OTHER -> /\ UNCHANGED call
                   /\ Send(IF call.count = 1 THEN "CMD24"
                           ELSE IF CardType \in {"SD2B", "SD2", "SD1"} THEN "ACMD23"
                           ELSE "CMD25")
  /\ UNCHANGED <<Stat, Timer1, CardType, card, who, res>>

write_response ==
  /\ pc = "response" /\ call.fn = "write"
  /\ CASE cmd = "ACMD23" -> Send("CMD25") /\ UNCHANGED call
       [] cmd # "ACMD23" /\ res = 0 -> /\ Timer2' = Short /\ I' = TRUE
                                       /\ pc' = "wait_data" /\ UNCHANGED <<call, cmd>>
       [] OTHER -> Fails
  /\ UNCHANGED <<Stat, Timer1, CardType, card, who, res>>

(* After the data the card is busy.  Several sectors end with a stop token,*)
(* which waits for the card as well.                                       *)
Waiting == card.in /\ card.busy
xmit_datablock ==
  /\ pc = "wait_data" /\ ~Waiting
  /\ \/ /\ call.left > 0 /\ card.in /\ card.mode = "ready"
        /\ card' = [card EXCEPT !.hits = IF Hits THEN @ + 1 ELSE @, !.busy = TRUE]
        /\ IF call.count = 1 THEN OKIf(0) /\ UNCHANGED <<Timer2, I>>
           ELSE /\ call' = [call EXCEPT !.left = @ - 1]
                /\ Timer2' = Short /\ I' = TRUE
                /\ pc' = IF call.left = 1 THEN "stop" ELSE "wait_data"
     \/ /\ call.left > 0 /\ UNCHANGED card
        /\ IF call.count = 1 THEN OKIf(1) /\ UNCHANGED <<Timer2, I>>
           ELSE Timer2' = Short /\ I' = TRUE /\ pc' = "stop" /\ UNCHANGED call
  /\ UNCHANGED <<Stat, Timer1, CardType, who, cmd, res>>
xmit_datablock_timeout ==
  /\ pc = "wait_data" /\ Waiting /\ Timer2 = 0
  /\ IF call.count = 1 THEN OKIf(1) /\ UNCHANGED <<Timer2, I>>
     ELSE Timer2' = Short /\ I' = TRUE /\ pc' = "stop" /\ UNCHANGED call
  /\ UNCHANGED <<Stat, Timer1, CardType, card, who, cmd, res>>
xmit_stop ==
  /\ pc = "stop" /\ (Waiting => Timer2 = 0)
  /\ OKIf(IF Waiting THEN 1 ELSE call.left)
  /\ UNCHANGED <<Stat, Timer1, Timer2, CardType, card, I, who, cmd, res>>

(* CTRL_SYNC waits until the card has written.                             *)
ioctl_SYNC ==
  /\ pc = "sync"
  /\ IF Stat.noinit THEN Return("NOTRDY") /\ UNCHANGED <<Timer2, I>>
     ELSE Timer2' = Short /\ I' = TRUE /\ pc' = "select" /\ UNCHANGED call
  /\ UNCHANGED <<Stat, Timer1, CardType, card, who, cmd, res>>
(* Mutant: the wait after a write has no end.                              *)
ioctl_select_Forever ==
  /\ pc = "select" /\ ~Waiting /\ OKIf(0)
  /\ UNCHANGED <<Stat, Timer1, Timer2, CardType, card, I, who, cmd, res>>

ioctl_select ==
  /\ pc = "select" /\ (Waiting => Timer2 = 0)
  /\ OKIf(IF Waiting THEN 1 ELSE 0)
  /\ UNCHANGED <<Stat, Timer1, Timer2, CardType, card, I, who, cmd, res>>
-----------------------------------------------------------------------------
(* Mutant: NOINIT is set only when the card goes.                          *)
StatFrom_OnRemoval(s, in, wp) ==
  [noinit |-> s.noinit \/ (~in /\ ~s.nodisk), nodisk |-> ~in, protect |-> wp]

StatFrom(s, in, wp) == [noinit |-> s.noinit \/ ~in, nodisk |-> ~in, protect |-> wp]
Down(n) == IF n > 0 THEN n - 1 ELSE 0

(* Between the last answer of a card and the store there is no time for    *)
(* two ticks.                                                              *)
Seen == IF pc \in {"response", "clear_NOINIT", "store"} THEN 1
        ELSE IF card.empty = 2 THEN 2 ELSE card.empty + 1

(* Every 10 ms, whatever the interrupt interrupts, also Timer2's handler.  *)
mmc_disk_timerproc ==
  /\ I
  /\ Timer1' = Down(Timer1) /\ Timer2' = Down(Timer2)
  /\ Stat' = StatFrom(Stat, card.in, card.wp)
  /\ card' = [card EXCEPT !.empty = IF card.in THEN @ ELSE Seen]
  /\ UNCHANGED <<CardType, I, who, pc, cmd, res, call>>

Removed ==
  /\ card.in
  /\ card' = [card EXCEPT !.in = FALSE, !.mode = "off", !.busy = FALSE, !.empty = 0]
  /\ UNCHANGED <<Stat, Timer1, Timer2, CardType, I, who, pc, cmd, res, call>>
(* It takes two ticks at least to change a card.                           *)
Inserted ==
  /\ ~card.in /\ card.empty = 2
  /\ \E k \in Kinds, wp \in BOOLEAN :
       card' = [card EXCEPT !.in = TRUE, !.kind = k, !.wp = wp]
  /\ UNCHANGED <<Stat, Timer1, Timer2, CardType, I, who, pc, cmd, res, call>>
CardWritten ==
  /\ card.busy /\ card' = [card EXCEPT !.busy = FALSE]
  /\ UNCHANGED <<Stat, Timer1, Timer2, CardType, I, who, pc, cmd, res, call>>
-----------------------------------------------------------------------------
(* Who calls.  main starts with interrupts off; initConsoleBuffer, which   *)
(* init_emuldev calls before init_em_diskio, leaves them on.               *)

(* Mutant: as x_flush does, the flag is left as it was found.              *)
initConsoleBuffer_Restores ==
  pc = "boot" /\ pc' = "initialize" /\ call' = Call("initialize", 0)
  /\ UNCHANGED <<Stat, Timer1, Timer2, CardType, card, I, who, cmd, res>>

initConsoleBuffer ==
  pc = "boot" /\ I' = TRUE /\ pc' = "initialize" /\ call' = Call("initialize", 0)
  /\ UNCHANGED <<Stat, Timer1, Timer2, CardType, card, who, cmd, res>>

(* FatFs asks the driver for what it needs; only a mount initialises, and  *)
(* only if the card is not.                                                *)
Asks(w, interrupts) ==
  /\ pc = "idle" /\ pc' \in {"read", "write", "sync"}
  /\ who' = w /\ I' = interrupts
  /\ \E n \in 1 .. MaxCount : call' = Call(pc', n)
  /\ card' = [card EXCEPT !.hits = 0]
  /\ UNCHANGED <<Stat, Timer1, Timer2, CardType, cmd, res>>
Timer2_transfers == Asks("TIMER2", TRUE)
INT1_reopens == ~Stat.noinit /\ Asks("INT1", FALSE)
INT1_mounts ==
  /\ pc = "idle" /\ Stat.noinit /\ pc' = "initialize"
  /\ who' = "INT1" /\ I' = FALSE /\ call' = Call("initialize", 0)
  /\ UNCHANGED <<Stat, Timer1, Timer2, CardType, card, cmd, res>>

(* The call is over; a handler that ends enables interrupts again.         *)
Returns ==
  /\ pc = "return" /\ pc' = "idle" /\ who' = "none" /\ I' = TRUE
  /\ UNCHANGED <<Stat, Timer1, Timer2, CardType, card, cmd, res, call>>
-----------------------------------------------------------------------------
Off == [noinit |-> TRUE, nodisk |-> FALSE, protect |-> FALSE]
Init ==
  /\ Stat = Off /\ Timer1 = 0 /\ Timer2 = 0 /\ CardType = "none"
  /\ card \in [in : BOOLEAN, kind : Kinds, mode : {"off"}, busy : {FALSE}, empty : {0},
               wp : BOOLEAN, hits : {0}]
  /\ I = FALSE /\ who = "main" /\ pc = "boot" /\ cmd = "none" /\ res = 0
  /\ call = Call("initialize", 0)

Initialize == \/ initialize_power \/ initialize_CMD0 \/ initialize_response
              \/ clear_NOINIT_load \/ clear_NOINIT_store
Driver == \/ send_cmd_response \/ wait_ready_timeout \/ Initialize
          \/ mmc_disk_read \/ read_response \/ rcvr_datablock
          \/ mmc_disk_write \/ write_response
          \/ xmit_datablock \/ xmit_datablock_timeout \/ xmit_stop
          \/ ioctl_SYNC \/ ioctl_select
          \/ initConsoleBuffer \/ Returns
Card == Removed \/ Inserted \/ CardWritten
Next == Driver \/ mmc_disk_timerproc \/ Card
        \/ Timer2_transfers \/ INT1_reopens \/ INT1_mounts

(* The processor goes on, and ticks come while they are allowed to.        *)
Fairness == WF_vars(Driver) /\ WF_vars(mmc_disk_timerproc)
Spec == Init /\ [][Next]_vars /\ Fairness
-----------------------------------------------------------------------------
(* A card that the driver takes to be ready has been initialised since it  *)
(* was inserted, and the driver knows how it counts addresses: the card    *)
(* pulled in the middle of everything is noticed.                          *)
ReadyIsInitialised == ~Stat.noinit /\ card.in => card.mode = "ready" /\ Hits

(* A call that returns success has moved each of its sectors, from or to   *)
(* where it was asked.                                                     *)
SuccessIsComplete ==
  pc = "return" /\ call.fn \in {"read", "write"} /\ call.result = "OK" =>
    card.hits = call.count

(* The AVR gets through its boot, with a card, without one, and with one   *)
(* that comes and goes.                                                    *)
BootEnds == <>(who # "main")

(* A transfer ends, whatever the card does.                                *)
TransferEnds == who = "TIMER2" ~> who = "none"

(* SELDSK, which opens a file again after an error, comes to its end.      *)
SeldskEnds == who = "INT1" ~> who = "none"
=============================================================================
