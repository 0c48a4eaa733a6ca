--------------------------- MODULE MmcDiskProofs ---------------------------
(***************************************************************************)
(* Proofs about the SD card driver, for every set of cards, number of      *)
(* sectors in a call and time-outs: a card taken to be ready has been      *)
(* initialised, and success means that every sector was moved.             *)
(***************************************************************************)
EXTENDS MmcDisk, TLAPS

(***************************************************************************)
(* The parts of the inductive invariant.                                   *)
(***************************************************************************)
Types == {"none", "SD2B", "SD2", "SD1", "MMC3"}
Stats == [noinit : BOOLEAN, nodisk : BOOLEAN, protect : BOOLEAN]
Cards == [in : BOOLEAN, kind : Kinds, mode : {"off", "idle", "ready"}, busy : BOOLEAN,
          empty : {0, 1, 2}, wp : BOOLEAN, hits : Nat]
Calls == [fn : {"initialize", "read", "write", "sync"}, count : Nat, left : Int,
          ty : Types, reg : Stats, result : {"OK", "ERROR", "NOTRDY", "WRPRT"}]
TypeOK == Stat \in Stats /\ CardType \in Types /\ card \in Cards /\ call \in Calls

(* Each function is where it can be, and sends its own commands.           *)
Sending == {"wait_ready", "response"}
Over == {"return", "idle"}
Places ==
  CASE call.fn = "initialize" -> {"boot", "initialize", "power_off", "clear_NOINIT", "store"}
    [] call.fn = "read" -> {"read", "token"}
    [] call.fn = "write" -> {"write", "wait_data", "stop"}
    [] OTHER -> {"sync", "select"}
CommandsOf ==
  CASE call.fn = "initialize" -> {"CMD0", "CMD8", "ACMD41_HCS", "CMD58", "ACMD41", "CMD1", "CMD16"}
    [] call.fn = "read" -> {"CMD12", "CMD17", "CMD18"}
    [] call.fn = "write" -> {"ACMD23", "CMD24", "CMD25"}
    [] OTHER -> {}
Control == /\ pc \in Places \cup Sending \cup Over
           /\ pc \in Sending => cmd \in CommandsOf

(* A card that is out has lost its mode, and while the driver takes it for *)
(* ready there was no time yet to put in another.                          *)
Gone == /\ ~card.in => card.mode = "off"
        /\ ~card.in /\ ~Stat.noinit => card.empty # 2

(* The card in the socket, if any, is ready and addressed as it wants.     *)
Ready == card.in => card.mode = "ready" /\ Hits
(* A card that answered is still there, or no other has replaced it yet.   *)
SameCard == ~card.in => card.empty # 2
(* The driver counts addresses as a card in the socket that is ready.      *)
Addressed == card.in /\ card.mode = "ready" => Hits

(* What the answers seen so far say about the card.                        *)
Old == {"ACMD41", "CMD1", "CMD16"}
Progress ==
  /\ cmd = "CMD0" /\ pc = "response" /\ res = 1 /\ card.in => card.mode # "ready"
  /\ cmd = "CMD8" /\ card.in => card.mode # "ready"
  /\ cmd \in Old /\ card.in /\ card.mode = "ready" => card.kind # "SDv2B"
  /\ cmd \in {"CMD58", "CMD16"} /\ pc = "response" /\ res = 0 =>
       (card.in => card.mode = "ready") /\ SameCard
  /\ cmd \in Old \cup {"ACMD41_HCS"} => call.ty \in {"none", "SD1", "MMC3"}

Initialising ==
  call.fn = "initialize" =>
    /\ pc \notin Over => Stat.noinit
    /\ pc \in Sending => Progress
    /\ pc \in {"clear_NOINIT", "store"} => Ready /\ SameCard

(* Every sector counted down went where it was asked.                      *)
Moving ==
  call.fn \in {"read", "write"} =>
    /\ pc \notin Over => card.hits + call.left = call.count
    /\ pc \notin Over \cup {"read", "write"} => Addressed
    /\ pc = "write" => call.count > 0
    /\ pc = "return" /\ call.result = "OK" => card.hits = call.count

IInv == /\ TypeOK /\ Control /\ Gone
        /\ Initialising /\ Moving /\ ReadyIsInitialised
-----------------------------------------------------------------------------
(* The invariant by its parts, unprimed facts first.                       *)
LEMMA InitIInv == Init => IInv
<1> SUFFICES ASSUME Init PROVE IInv
  OBVIOUS
<1>1. TypeOK
  <2>1. Stat \in Stats
    BY DEF Init, Off, Stats
  <2>2. card \in Cards
    <3>1. card \in [in : BOOLEAN, kind : Kinds, mode : {"off"}, busy : {FALSE},
                   empty : {0}, wp : BOOLEAN, hits : {0}]
      BY DEF Init
    <3>2. PICK i \in BOOLEAN, k \in Kinds, w \in BOOLEAN :
            card = [in |-> i, kind |-> k, mode |-> "off", busy |-> FALSE,
                    empty |-> 0, wp |-> w, hits |-> 0]
      BY <3>1
    <3> QED
      BY <3>2 DEF Cards
  <2>3. call \in Calls
    BY <2>1 DEF Init, Call, Calls, Types
  <2> QED
    BY <2>1, <2>2, <2>3 DEF Init, TypeOK, Types
<1>2. Control /\ Gone /\ Initialising /\ Moving /\ ReadyIsInitialised
  BY DEF Init, Off, Call, Control, Places, Sending, Over, Gone, Initialising, Moving,
         ReadyIsInitialised
<1> QED
  BY <1>1, <1>2 DEF IInv

(* The answers to a command: only the first of initialize takes a card out *)
(* of its mode, only those of ACMD41 and CMD1 make it ready.               *)
LEMMA ResponseIInv == IInv /\ send_cmd_response => IInv'
<1> SUFFICES ASSUME IInv, send_cmd_response PROVE IInv'
  OBVIOUS
<1> USE DEF IInv, send_cmd_response
<1>1. PICK r \in Answer(cmd) \cup {NoResponse} :
        res' = r /\ card' = [card EXCEPT !.mode = ModeAfter(cmd, r)]
  OBVIOUS
<1>2. /\ ModeAfter(cmd, r) \in {"off", "idle", "ready"}
      /\ cmd # "CMD0" /\ card.mode = "ready" => ModeAfter(cmd, r) = "ready"
  BY DEF ModeAfter, TypeOK, Cards
<1>3. /\ card' \in Cards /\ card'.mode = ModeAfter(cmd, r)
      /\ card'.in = card.in /\ card'.kind = card.kind /\ card'.empty = card.empty
      /\ card'.hits = card.hits
  BY <1>1, <1>2 DEF TypeOK, Cards
<1>4. pc = "wait_ready" /\ pc' = "response" /\ cmd' = cmd /\ call' = call /\ Stat' = Stat
      /\ CardType' = CardType /\ res' = r
  BY <1>1
<1>5. TypeOK' /\ Control'
  BY <1>3, <1>4 DEF TypeOK, Control, Places, Sending, Over, CommandsOf
<1>6. ~card.in => r = NoResponse /\ ModeAfter(cmd, r) = card.mode
  <2>1. ~card.in => Answer(cmd) = {}
    BY DEF Answer
  <2>2. r = NoResponse => ModeAfter(cmd, r) = card.mode
    BY DEF ModeAfter, NoResponse
  <2> QED
    BY <1>1, <2>1, <2>2
<1>7. Gone'
  BY <1>3, <1>4, <1>6 DEF Gone
<1>8. Initialising'
  <2> SUFFICES ASSUME call.fn = "initialize" PROVE Stat.noinit /\ Progress'
    BY <1>4 DEF Initialising, Over, Sending
  <2>1. Progress /\ Stat.noinit
    BY <1>4 DEF Initialising, Over, Sending
  <2>2. cmd = "CMD0" /\ r = 1 => ModeAfter(cmd, r) = "idle"
    BY DEF ModeAfter
  <2>3. cmd = "CMD8" => ModeAfter(cmd, r) = card.mode
    BY DEF ModeAfter
  <2>4. cmd \in Old /\ card.in /\ card.kind = "SDv2B" => ModeAfter(cmd, r) = card.mode
    BY DEF ModeAfter, Answer, Old, NoResponse
  <2>5. cmd \in {"CMD58", "CMD16"} /\ r = 0 => card.in /\ ModeAfter(cmd, r) = "ready"
    BY DEF ModeAfter, Answer, NoResponse
  <2> QED
    BY <1>3, <1>4, <2>1, <2>2, <2>3, <2>4, <2>5 DEF Progress, SameCard, Old
<1>9. call.fn # "initialize" => cmd \notin {"CMD0", "ACMD41_HCS", "ACMD41", "CMD1"}
  BY <1>4 DEF Control, CommandsOf, Sending
<1>10. call.fn # "initialize" => card'.mode = card.mode
  BY <1>3, <1>9 DEF ModeAfter
<1>11. Moving'
  BY <1>3, <1>4, <1>10 DEF Moving, Over, Addressed, Hits
<1>12. ReadyIsInitialised'
  BY <1>3, <1>4, <1>10 DEF Initialising, Over, ReadyIsInitialised, Hits
<1> QED
  BY <1>5, <1>7, <1>8, <1>11, <1>12

(* Steps that change no card, and only what they say of the rest.          *)
LEMMA TimeoutIInv == IInv /\ wait_ready_timeout => IInv'
<1> SUFFICES ASSUME IInv, wait_ready_timeout PROVE IInv'
  OBVIOUS
<1> USE DEF IInv, wait_ready_timeout
<1>1. TypeOK' /\ Control' /\ Gone' /\ ReadyIsInitialised'
  BY DEF TypeOK, Control, Places, Sending, Over, CommandsOf, Gone, ReadyIsInitialised, Hits
<1>2. Initialising'
  BY DEF Initialising, Progress, Sending, Over, NoResponse, Old
<1>3. Moving'
  BY DEF Moving, Over, Addressed, Hits
<1> QED
  BY <1>1, <1>2, <1>3

LEMMA PowerIInv == IInv /\ (initialize_power \/ initialize_CMD0) => IInv'
<1> SUFFICES ASSUME IInv, initialize_power \/ initialize_CMD0 PROVE IInv'
  OBVIOUS
<1> USE DEF IInv, initialize_power, initialize_CMD0, Send
<1>1. call.fn = "initialize" /\ Stat.noinit
  BY DEF Control, Places, Initialising, Sending, Over
<1>2. UNCHANGED <<Stat, CardType, card, call>>
  OBVIOUS
<1>3. pc' \in {"power_off", "return"} \/ (pc' = "wait_ready" /\ cmd' = "CMD0")
  OBVIOUS
<1>4. TypeOK' /\ Gone' /\ ReadyIsInitialised'
  BY <1>2 DEF TypeOK, Gone, ReadyIsInitialised, Hits
<1>5. Control'
  BY <1>1, <1>2, <1>3 DEF Control, Places, Sending, Over, CommandsOf
<1>6. Initialising' /\ Moving'
  BY <1>1, <1>2, <1>3 DEF Initialising, Progress, Moving, Sending, Over, Old
<1> QED
  BY <1>4, <1>5, <1>6

(* What the next command finds true, or the type the function leaves with. *)
LEMMA AnsweredIInv == IInv /\ initialize_response => IInv'
<1> SUFFICES ASSUME IInv, initialize_response PROVE IInv'
  OBVIOUS
<1> USE DEF IInv, initialize_response, initialize_CMD8, initialize_ACMD41,
            initialize_CMD58, initialize_v2, initialize_v1, initialize_CMD16
<1>1. call.fn = "initialize" /\ Stat.noinit /\ Progress
  BY DEF Initialising, Sending, Over
<1>2. UNCHANGED <<Stat, card>>
  OBVIOUS
<1>3. ASSUME NEW c, NEW ty, Issue(c, ty)
      PROVE  /\ pc' = "wait_ready" /\ cmd' = c /\ UNCHANGED CardType
             /\ call' = [call EXCEPT !.ty = ty]
  BY <1>3 DEF Issue, Send
<1>4. \/ /\ pc' = "wait_ready" /\ cmd' = "CMD8" /\ UNCHANGED <<CardType, call>>
         /\ card.in => card.mode # "ready"
      \/ \E c \in CommandsOf, ty \in {"none", "SD1", "MMC3"} :
           /\ Issue(c, ty) /\ c \notin {"CMD0", "CMD8"}
           /\ c \in Old /\ card.in /\ card.mode = "ready" => card.kind # "SDv2B"
      \/ \E ty \in Types :
           /\ Leave(ty)
           /\ ty # "none" => SameCard /\ (card.in => card.mode = "ready"
                                          /\ (ty = "SD2B" <=> card.kind = "SDv2B"))
  <2>1. CASE initialize_CMD8
    BY <1>1, <2>1 DEF Send, Types, Progress
  <2>2. CASE initialize_ACMD41
    BY <1>1, <2>2 DEF Types, Progress, CommandsOf, Old
  <2>3. CASE initialize_CMD58
    <3>1. cmd \in CommandsOf /\ cmd \notin Old /\ cmd \notin {"CMD0", "CMD8"}
          /\ call.ty \in {"none", "SD1", "MMC3"} /\ "CMD58" \in CommandsOf
      BY <1>1, <2>3 DEF CommandsOf, Old, Progress
    <3>2. Issue(cmd, call.ty) \/ Issue("CMD58", "none") \/ Leave("none")
      BY <2>3 DEF Again
    <3> QED
      BY <3>1, <3>2 DEF Old, Types
  <2>4. CASE initialize_v2
    BY <1>1, <2>4 DEF Types, Progress
  <2>5. CASE initialize_v1
    BY <1>1, <2>5 DEF Types, Progress, CommandsOf, Old
  <2>6. CASE initialize_CMD16
    BY <1>1, <2>6 DEF Types, Progress, Old
  <2> QED
    BY <2>1, <2>2, <2>3, <2>4, <2>5, <2>6
<1>5. CASE /\ pc' = "wait_ready" /\ cmd' = "CMD8" /\ UNCHANGED <<CardType, call>>
           /\ card.in => card.mode # "ready"
  <2>1. TypeOK' /\ Gone' /\ ReadyIsInitialised'
    BY <1>2, <1>5 DEF TypeOK, Gone, ReadyIsInitialised, Hits
  <2>2. Control' /\ Initialising' /\ Moving'
    BY <1>1, <1>2, <1>5 DEF Control, CommandsOf, Initialising, Progress, Moving, Sending, Over, Old
  <2> QED
    BY <2>1, <2>2
<1>6. ASSUME NEW c \in CommandsOf, NEW ty \in {"none", "SD1", "MMC3"},
             Issue(c, ty), c \notin {"CMD0", "CMD8"},
             c \in Old /\ card.in /\ card.mode = "ready" => card.kind # "SDv2B"
      PROVE  IInv'
  <2>1. /\ pc' = "wait_ready" /\ cmd' = c /\ UNCHANGED CardType
        /\ call' \in Calls /\ call'.ty = ty /\ call'.fn = "initialize"
    BY <1>1, <1>3, <1>6 DEF TypeOK, Calls, Types
  <2>2. TypeOK' /\ Gone' /\ ReadyIsInitialised'
    BY <1>1, <1>2, <2>1 DEF TypeOK, Gone, ReadyIsInitialised
  <2>3. Control' /\ Moving'
    BY <1>1, <2>1 DEF Control, CommandsOf, Moving, Sending
  <2>4. Initialising'
    BY <1>1, <1>2, <1>6, <2>1 DEF Initialising, Progress, Sending, Over, Old
  <2> QED
    BY <2>2, <2>3, <2>4
<1>7. ASSUME NEW ty \in Types, Leave(ty),
             ty # "none" => SameCard /\ (card.in => card.mode = "ready"
                                                /\ (ty = "SD2B" <=> card.kind = "SDv2B"))
      PROVE  IInv'
  <2>1. /\ pc' = (IF ty = "none" THEN "return" ELSE "clear_NOINIT") /\ CardType' = ty
        /\ call' \in Calls /\ call'.fn = "initialize"
    BY <1>1, <1>7 DEF Leave, TypeOK, Calls, Types
  <2>2. TypeOK' /\ Gone' /\ ReadyIsInitialised'
    BY <1>1, <1>2, <2>1 DEF TypeOK, Gone, ReadyIsInitialised
  <2>3. Control' /\ Moving'
    BY <1>1, <2>1 DEF Control, Places, Moving, Sending, Over
  <2>4. Initialising'
    BY <1>1, <1>2, <1>7, <2>1 DEF Initialising, Ready, Hits, SameCard, Sending, Over
  <2> QED
    BY <2>2, <2>3, <2>4
<1> QED
  BY <1>4, <1>5, <1>6, <1>7

(* NOINIT is cleared while the card that answered is there, or before      *)
(* another can be.                                                         *)
LEMMA ClearIInv == IInv /\ (clear_NOINIT_load \/ clear_NOINIT_store) => IInv'
<1> SUFFICES ASSUME IInv, clear_NOINIT_load \/ clear_NOINIT_store PROVE IInv'
  OBVIOUS
<1> USE DEF IInv
<1>1. call.fn = "initialize" /\ Stat.noinit /\ Ready /\ SameCard
  BY DEF clear_NOINIT_load, clear_NOINIT_store, Control, Places, Initialising, Sending, Over
<1>2. UNCHANGED <<card, CardType>>
  BY DEF clear_NOINIT_load, clear_NOINIT_store
<1>3. CASE clear_NOINIT_load
  <2>1. /\ pc' = "store" /\ call' \in Calls /\ call'.fn = "initialize" /\ Stat' = Stat
    BY <1>1, <1>3 DEF clear_NOINIT_load, TypeOK, Calls
  <2>2. TypeOK' /\ Gone' /\ ReadyIsInitialised'
    BY <1>1, <1>2, <2>1 DEF TypeOK, Gone, ReadyIsInitialised
  <2>3. Control' /\ Initialising' /\ Moving'
    BY <1>1, <1>2, <2>1
       DEF Control, Places, Initialising, Moving, Ready, Hits, SameCard, Sending, Over
  <2> QED
    BY <2>2, <2>3
<1>4. CASE clear_NOINIT_store
  <2>1. /\ pc' = "return" /\ call' = call /\ Stat' \in Stats
    BY <1>4 DEF clear_NOINIT_store, TypeOK, Calls, Stats
  <2>2. TypeOK' /\ Gone' /\ ReadyIsInitialised'
    BY <1>1, <1>2, <2>1 DEF TypeOK, Gone, ReadyIsInitialised, Ready, Hits, SameCard
  <2>3. Control' /\ Initialising' /\ Moving'
    BY <1>1, <2>1 DEF Control, Places, Initialising, Moving, Sending, Over
  <2> QED
    BY <2>2, <2>3
<1> QED
  BY <1>3, <1>4
-----------------------------------------------------------------------------
(* A step of a call that moves sectors or waits for the card: what it may  *)
(* touch, and what it has to show.                                         *)
Calm == UNCHANGED <<Stat, CardType, card>>
CallKept == /\ call' \in Calls /\ call'.fn = call.fn /\ call'.count = call.count

LEMMA CalmIInv ==
  ASSUME IInv, Calm, CallKept, call.fn # "initialize", Control', Moving'
  PROVE  IInv'
<1>1. TypeOK' /\ Gone' /\ ReadyIsInitialised'
  BY DEF IInv, Calm, CallKept, TypeOK, Gone, ReadyIsInitialised, Hits
<1>2. Initialising'
  BY DEF CallKept, Initialising
<1> QED
  BY <1>1, <1>2 DEF IInv

(* The end of a call with a result.                                        *)
LEMMA ReturnIInv ==
  ASSUME IInv, Calm, call.fn # "initialize",
         NEW result \in {"OK", "ERROR", "NOTRDY", "WRPRT"}, Return(result),
         result = "OK" /\ call.fn # "sync" => card.hits = call.count
  PROVE  IInv'
<1>1. /\ CallKept /\ pc' = "return" /\ call'.result = result
  BY DEF IInv, Return, CallKept, TypeOK, Calls
<1>2. Control' /\ Moving'
  BY <1>1 DEF CallKept, Calm, Control, Sending, Over, Moving
<1> QED
  BY <1>1, <1>2, CalmIInv

(* The next command, or the next wait.                                     *)
LEMMA GoOnIInv ==
  ASSUME IInv, Calm, call.fn # "initialize", pc \notin Over, CallKept,
         call'.left = call.left, pc' # "write",
         pc' \in Places \cup Sending, pc' \in Sending => cmd' \in CommandsOf,
         call.fn \in {"read", "write"} => Addressed
  PROVE  IInv'
<1>1. Control'
  BY DEF CallKept, Control, Places, CommandsOf
<1>2. Moving'
  BY DEF IInv, CallKept, Calm, Moving, Addressed, Hits, Over, Places, Sending
<1> QED
  BY <1>1, <1>2, CalmIInv

LEMMA CallIsKept == ASSUME IInv, UNCHANGED call PROVE CallKept /\ call'.left = call.left
BY DEF IInv, CallKept, TypeOK

(* A card that is there and not to be initialised is addressed as it wants.*)
LEMMA ReadyIsAddressed == IInv /\ ~Stat.noinit => Addressed
BY DEF IInv, ReadyIsInitialised, Addressed

LEMMA ReadIInv == IInv /\ (mmc_disk_read \/ read_response) => IInv'
<1> SUFFICES ASSUME IInv, mmc_disk_read \/ read_response PROVE IInv'
  OBVIOUS
<1>1. call.fn = "read" /\ Calm /\ pc \notin Over
  BY DEF IInv, mmc_disk_read, read_response, Control, Places, Sending, Over, Calm
<1>2. CASE mmc_disk_read
  <2>1. CASE Stat.noinit
    BY <1>1, <1>2, <2>1, ReturnIInv DEF mmc_disk_read
  <2>2. CASE ~Stat.noinit
    <3>1. UNCHANGED call /\ pc' = "wait_ready" /\ cmd' \in CommandsOf
      BY <1>1, <1>2, <2>2 DEF mmc_disk_read, Send, CommandsOf
    <3> QED
      BY <1>1, <2>2, <3>1, GoOnIInv, CallIsKept, ReadyIsAddressed DEF Sending
  <2> QED
    BY <2>1, <2>2
<1>3. CASE read_response
  <2>1. Addressed /\ card.hits + call.left = call.count
    BY <1>1, <1>3 DEF IInv, read_response, Moving, Over
  <2>2. CASE cmd = "CMD12"
    <3>1. call.left = 0 => card.hits = call.count
      BY <2>1 DEF IInv, TypeOK, Calls, Cards
    <3> QED
      BY <1>1, <1>3, <2>2, <3>1, ReturnIInv DEF read_response, OKIf
  <2>3. CASE cmd # "CMD12" /\ res = 0
    <3>1. UNCHANGED call /\ pc' = "token"
      BY <1>1, <1>3, <2>3 DEF read_response
    <3> QED
      BY <1>1, <2>1, <3>1, GoOnIInv, CallIsKept DEF Places, Sending
  <2>4. CASE cmd # "CMD12" /\ res # 0
    BY <1>1, <1>3, <2>4, ReturnIInv DEF read_response, Fails
  <2> QED
    BY <2>2, <2>3, <2>4
<1> QED
  BY <1>2, <1>3

(* A block moved: one more at its place, one less to go.                   *)
Moved == /\ card.mode = "ready" /\ card.in /\ Hits /\ call' \in Calls
         /\ card' \in Cards /\ card'.hits = card.hits + 1
         /\ card'.mode = card.mode /\ card'.in = card.in /\ card'.kind = card.kind
         /\ card'.empty = card.empty
         /\ UNCHANGED <<Stat, CardType>>

LEMMA HitsCounted ==
  ASSUME NEW c \in Cards, NEW n \in Nat,
         NEW d \in {[c EXCEPT !.hits = n], [c EXCEPT !.hits = n, !.busy = TRUE]}
  PROVE  /\ d \in Cards /\ d.hits = n
         /\ d.mode = c.mode /\ d.in = c.in /\ d.kind = c.kind /\ d.empty = c.empty
BY DEF Cards

LEMMA OneMore ==
  ASSUME NEW h \in Nat, NEW l \in Int, NEW n \in Nat, h + l = n
  PROVE  /\ (h + 1) + (l - 1) = n
         /\ l - 1 = 0 => h + 1 = n
         /\ n = 1 /\ l > 0 => h + 1 = n
  OBVIOUS

LEMMA MovedIInv ==
  ASSUME IInv, Moved, call.fn \in {"read", "write"}, CallKept, Control', pc' # "write",
         pc' \in Over \/ card'.hits + call'.left = call.count,
         pc' = "return" /\ call'.result = "OK" => card'.hits = call.count
  PROVE  IInv'
<1>1. TypeOK' /\ Gone' /\ ReadyIsInitialised'
  BY DEF IInv, Moved, CallKept, TypeOK, Gone, ReadyIsInitialised, Hits
<1>2. Initialising' /\ Moving'
  BY DEF CallKept, Initialising, Moved, Moving, Addressed, Hits, Over
<1> QED
  BY <1>1, <1>2 DEF IInv

LEMMA PacketIInv == IInv /\ rcvr_datablock => IInv'
<1> SUFFICES ASSUME IInv, rcvr_datablock PROVE IInv'
  OBVIOUS
<1>1. /\ call.fn = "read" /\ Addressed /\ card.hits + call.left = call.count
      /\ pc = "token" /\ UNCHANGED <<Stat, CardType>>
  BY DEF IInv, rcvr_datablock, Control, Places, Sending, Over, Moving
<1>2. card.hits \in Nat /\ call.left \in Int /\ call.count \in Nat /\ call \in Calls
  BY DEF IInv, TypeOK, Cards, Calls
<1>3. ASSUME NEW left \in Int, Stop(left)
      PROVE  /\ CallKept /\ call'.left = left /\ pc' = "wait_ready" /\ cmd' = "CMD12"
             /\ Control'
  BY <1>1, <1>2, <1>3 DEF Stop, CallKept, Calls, Control, Sending, Places, CommandsOf
<1>4. ASSUME NEW left \in Int, OKIf(left)
      PROVE  /\ CallKept /\ pc' = "return" /\ Control'
             /\ call'.result = "OK" => left = 0
  BY <1>1, <1>2, <1>4 DEF OKIf, Return, CallKept, Calls, Control, Sending, Over
<1>5. CASE card.in /\ card.mode = "ready"
           /\ card' = [card EXCEPT !.hits = IF Hits THEN @ + 1 ELSE @]
           /\ (LET left == call.left - 1
               IN CASE left > 0 -> call' = [call EXCEPT !.left = left] /\ Timer1' = Short
                                   /\ UNCHANGED <<pc, cmd>>
                    [] left = 0 /\ call.count > 1 -> Stop(left) /\ UNCHANGED Timer1
                    [] OTHER -> OKIf(left) /\ UNCHANGED <<Timer1, cmd>>)
  <2> DEFINE left == call.left - 1
  <2>1. left \in Int /\ (card.hits + 1) + left = call.count
        /\ (left = 0 => card.hits + 1 = call.count)
    BY <1>1, <1>2, OneMore
  <2>2. Hits
    BY <1>1, <1>5 DEF Addressed
  <2>3. /\ card' \in Cards /\ card'.hits = card.hits + 1
        /\ card'.mode = card.mode /\ card'.in = card.in /\ card'.kind = card.kind
        /\ card'.empty = card.empty
    <3>1. card \in Cards /\ card.hits + 1 \in Nat
      BY <1>2 DEF IInv, TypeOK
    <3>2. card' = [card EXCEPT !.hits = card.hits + 1]
      BY <1>5, <2>2
    <3> QED
      BY <3>1, <3>2, HitsCounted
  <2>4. CASE left > 0
    <3>1. /\ CallKept /\ call'.left = left /\ pc' = "token" /\ Control'
      BY <1>1, <1>2, <1>5, <2>1, <2>4 DEF CallKept, Calls, Control, Places, Sending
    <3> QED
      BY <1>1, <1>5, <2>1, <2>2, <2>3, <3>1, MovedIInv DEF Moved, CallKept
  <2>5. CASE left = 0 /\ call.count > 1
    <3>1. Stop(left)
      BY <1>5, <2>5
    <3> QED
      BY <1>1, <1>3, <1>5, <2>1, <2>2, <2>3, <3>1, MovedIInv DEF Moved, CallKept
  <2>6. CASE ~(left > 0) /\ ~(left = 0 /\ call.count > 1)
    <3>1. OKIf(left)
      BY <1>5, <2>6
    <3> QED
      BY <1>1, <1>4, <1>5, <2>1, <2>2, <2>3, <3>1, MovedIInv DEF Moved, CallKept, Over
  <2> QED
    BY <2>4, <2>5, <2>6
<1>6. CASE (IF call.count > 1 THEN Stop(call.left) ELSE OKIf(call.left) /\ UNCHANGED cmd)
           /\ UNCHANGED <<card, Timer1>>
  <2>1. CASE Stop(call.left)
    BY <1>1, <1>2, <1>3, <1>6, <2>1, GoOnIInv DEF Calm, Sending, CommandsOf, Over
  <2>2. CASE OKIf(call.left)
    <3>1. call.left = 0 => card.hits = call.count
      BY <1>1, <1>2
    <3> QED
      BY <1>1, <1>6, <2>2, <3>1, ReturnIInv DEF Calm, OKIf
  <2> QED
    BY <1>6, <2>1, <2>2
<1> QED
  BY <1>5, <1>6 DEF rcvr_datablock

LEMMA WriteIInv == IInv /\ (mmc_disk_write \/ write_response) => IInv'
<1> SUFFICES ASSUME IInv, mmc_disk_write \/ write_response PROVE IInv'
  OBVIOUS
<1>1. call.fn = "write" /\ Calm /\ pc \notin Over
  BY DEF IInv, mmc_disk_write, write_response, Control, Places, Sending, Over, Calm
<1>2. CASE mmc_disk_write
  <2>1. CASE Stat.noinit \/ Stat.protect
    <3>1. \E result \in {"NOTRDY", "WRPRT"} : Return(result)
      BY <1>2, <2>1 DEF mmc_disk_write
    <3> QED
      BY <1>1, <3>1, ReturnIInv
  <2>2. CASE ~Stat.noinit /\ ~Stat.protect
    <3>1. UNCHANGED call /\ pc' = "wait_ready" /\ cmd' \in CommandsOf
      BY <1>1, <1>2, <2>2 DEF mmc_disk_write, Send, CommandsOf
    <3> QED
      BY <1>1, <2>2, <3>1, GoOnIInv, CallIsKept, ReadyIsAddressed DEF Sending
  <2> QED
    BY <2>1, <2>2
<1>3. CASE write_response
  <2>1. Addressed
    BY <1>1, <1>3 DEF IInv, write_response, Moving, Over
  <2>2. CASE cmd = "ACMD23"
    <3>1. UNCHANGED call /\ pc' = "wait_ready" /\ cmd' \in CommandsOf
      BY <1>1, <1>3, <2>2 DEF write_response, Send, CommandsOf
    <3> QED
      BY <1>1, <2>1, <3>1, GoOnIInv, CallIsKept DEF Sending
  <2>3. CASE cmd # "ACMD23" /\ res = 0
    <3>1. UNCHANGED call /\ pc' = "wait_data"
      BY <1>1, <1>3, <2>3 DEF write_response
    <3> QED
      BY <1>1, <2>1, <3>1, GoOnIInv, CallIsKept DEF Places, Sending
  <2>4. CASE cmd # "ACMD23" /\ res # 0
    BY <1>1, <1>3, <2>4, ReturnIInv DEF write_response, Fails
  <2> QED
    BY <2>2, <2>3, <2>4
<1> QED
  BY <1>2, <1>3

(* The end of a block that was not taken, and of the whole transfer.       *)
LEMMA StopIInv ==
  ASSUME IInv, pc \in {"wait_data", "stop"}, Calm,
         \/ OKIf(1) \/ (call.left = 0 /\ OKIf(call.left))
         \/ (pc' = "stop" /\ UNCHANGED call)
         \/ (pc = "stop" /\ OKIf(call.left))
  PROVE  IInv'
<1>1. /\ call.fn = "write" /\ Addressed /\ pc \notin Over
      /\ call.left = 0 => card.hits = call.count
  <2>1. /\ call.fn = "write" /\ Addressed /\ pc \notin Over
        /\ card.hits + call.left = call.count
    BY DEF IInv, Control, Places, Sending, Over, Moving
  <2>2. card.hits \in Nat /\ call.left \in Int /\ call.count \in Nat
    BY DEF IInv, TypeOK, Cards, Calls
  <2> QED
    BY <2>1, <2>2
<1>2. CASE OKIf(1)
  BY <1>1, <1>2, ReturnIInv DEF OKIf
<1>3. CASE OKIf(call.left)
  BY <1>1, <1>3, ReturnIInv DEF OKIf
<1>4. CASE pc' = "stop" /\ UNCHANGED call
  BY <1>1, <1>4, GoOnIInv, CallIsKept DEF Places, Sending
<1> QED
  BY <1>2, <1>3, <1>4

LEMMA BlockIInv == IInv /\ (xmit_datablock \/ xmit_datablock_timeout \/ xmit_stop) => IInv'
<1> SUFFICES ASSUME IInv, xmit_datablock \/ xmit_datablock_timeout \/ xmit_stop
             PROVE  IInv'
  OBVIOUS
<1>1. CASE xmit_datablock_timeout \/ xmit_stop
  <2>1. pc \in {"wait_data", "stop"} /\ Calm
    BY <1>1 DEF xmit_datablock_timeout, xmit_stop, Calm
  <2>2. \/ OKIf(1) \/ (pc' = "stop" /\ UNCHANGED call)
        \/ (pc = "stop" /\ OKIf(call.left))
    BY <1>1 DEF xmit_datablock_timeout, xmit_stop
  <2> QED
    BY <2>1, <2>2, StopIInv
<1>2. ASSUME xmit_datablock, UNCHANGED card, OKIf(1) \/ (pc' = "stop" /\ UNCHANGED call)
      PROVE  IInv'
  <2>1. pc \in {"wait_data", "stop"} /\ Calm
    BY <1>2 DEF xmit_datablock, Calm
  <2> QED
    BY <1>2, <2>1, StopIInv
<1>3. ASSUME xmit_datablock, card.in, card.mode = "ready", call.left > 0,
             card' = [card EXCEPT !.hits = IF Hits THEN @ + 1 ELSE @, !.busy = TRUE],
             IF call.count = 1 THEN OKIf(0) /\ UNCHANGED <<Timer2, I>>
             ELSE /\ call' = [call EXCEPT !.left = @ - 1]
                  /\ Timer2' = Short /\ I' = TRUE
                  /\ pc' = IF call.left = 1 THEN "stop" ELSE "wait_data"
      PROVE  IInv'
  <2>1. /\ call.fn = "write" /\ Addressed /\ card.hits + call.left = call.count
        /\ pc = "wait_data" /\ UNCHANGED <<Stat, CardType>>
    BY <1>3 DEF IInv, xmit_datablock, Control, Places, Sending, Over, Moving
  <2>2. card \in Cards /\ card.hits \in Nat /\ card.hits + 1 \in Nat
        /\ call.left \in Int /\ call.count \in Nat /\ call \in Calls
    BY DEF IInv, TypeOK, Cards, Calls
  <2>3. Hits
    BY <2>1, <1>3 DEF Addressed
  <2>4. /\ card' \in Cards /\ card'.hits = card.hits + 1
        /\ card'.mode = card.mode /\ card'.in = card.in /\ card'.kind = card.kind
        /\ card'.empty = card.empty
    <3>1. card' = [card EXCEPT !.hits = card.hits + 1, !.busy = TRUE]
      BY <1>3, <2>3
    <3> QED
      BY <2>2, <3>1, HitsCounted
  <2>5. /\ (card.hits + 1) + (call.left - 1) = call.count
        /\ call.count = 1 => card.hits + 1 = call.count
    BY <2>1, <2>2, <1>3, OneMore
  <2>6. CASE call.count = 1
    <3>1. /\ CallKept /\ pc' = "return" /\ Control'
      BY <2>1, <2>2, <1>3, <2>6 DEF OKIf, Return, CallKept, Calls, Control, Sending, Over
    <3> QED
      BY <2>1, <1>3, <2>3, <2>4, <2>5, <2>6, <3>1, MovedIInv DEF Moved, CallKept, Over
  <2>7. CASE call.count # 1
    <3>1. /\ CallKept /\ call'.left = call.left - 1 /\ pc' \in {"stop", "wait_data"}
          /\ Control'
      BY <2>1, <2>2, <1>3, <2>7 DEF CallKept, Calls, Control, Places, Sending
    <3> QED
      BY <2>1, <1>3, <2>3, <2>4, <2>5, <3>1, MovedIInv DEF Moved, CallKept
  <2> QED
    BY <2>6, <2>7
<1> QED
  BY <1>1, <1>2, <1>3 DEF xmit_datablock

LEMMA SyncIInv == IInv /\ (ioctl_SYNC \/ ioctl_select) => IInv'
<1> SUFFICES ASSUME IInv, ioctl_SYNC \/ ioctl_select PROVE IInv'
  OBVIOUS
<1>1. call.fn = "sync" /\ pc \notin Over /\ Calm
  <2>1. call.fn \in {"initialize", "read", "write", "sync"}
    BY DEF IInv, TypeOK, Calls
  <2> QED
    BY <2>1 DEF IInv, ioctl_SYNC, ioctl_select, Control, Places, Sending, Over, Calm
<1>2. \/ \E result \in {"OK", "ERROR", "NOTRDY"} : Return(result)
      \/ pc' = "select" /\ UNCHANGED call
  BY DEF ioctl_SYNC, ioctl_select, OKIf
<1>3. CASE \E result \in {"OK", "ERROR", "NOTRDY"} : Return(result)
  BY <1>1, <1>3, ReturnIInv
<1>4. CASE pc' = "select" /\ UNCHANGED call
  BY <1>1, <1>4, GoOnIInv, CallIsKept DEF Places, Sending
<1> QED
  BY <1>2, <1>3, <1>4
-----------------------------------------------------------------------------
(* A call begins: nothing moved yet, everything still to move.             *)
LEMMA CallType ==
  ASSUME Stat \in Stats, NEW fn \in {"initialize", "read", "write", "sync"}, NEW n \in Nat
  PROVE  /\ Call(fn, n) \in Calls /\ Call(fn, n).fn = fn
         /\ Call(fn, n).count = n /\ Call(fn, n).left = n
BY DEF Call, Calls, Types

LEMMA AsksIInv ==
  ASSUME IInv, NEW w, NEW interrupts, Asks(w, interrupts)
  PROVE  IInv'
<1>1. PICK n \in 1 .. MaxCount : call' = Call(pc', n)
  BY DEF Asks
<1>2. n \in Nat /\ n > 0 /\ pc' \in {"read", "write", "sync"} /\ UNCHANGED <<Stat, CardType>>
  BY CountAssumption DEF Asks
<1>3. /\ call' \in Calls /\ call'.fn = pc' /\ call'.count = n /\ call'.left = n
  BY <1>1, <1>2, CallType DEF IInv, TypeOK
<1>4. /\ card' \in Cards /\ card'.hits = 0 /\ card'.mode = card.mode
      /\ card'.in = card.in /\ card'.kind = card.kind /\ card'.empty = card.empty
  <2>1. card \in Cards /\ 0 \in Nat /\ card' = [card EXCEPT !.hits = 0]
    BY DEF IInv, TypeOK, Asks
  <2> QED
    BY <2>1, HitsCounted
<1>5. TypeOK' /\ Gone' /\ ReadyIsInitialised'
  BY <1>2, <1>3, <1>4 DEF IInv, TypeOK, Gone, ReadyIsInitialised, Hits
<1>6. Control' /\ Initialising'
  BY <1>2, <1>3 DEF Control, Places, Sending, Initialising
<1>7. Moving'
  BY <1>2, <1>3, <1>4 DEF Moving, Over
<1> QED
  BY <1>5, <1>6, <1>7 DEF IInv

(* main's first call and a mount in INT1 find the card not initialised.    *)
LEMMA MountIInv == IInv /\ (initConsoleBuffer \/ INT1_mounts) => IInv'
<1> SUFFICES ASSUME IInv, initConsoleBuffer \/ INT1_mounts PROVE IInv'
  OBVIOUS
<1>1. /\ pc' = "initialize" /\ call' = Call("initialize", 0) /\ Stat.noinit
      /\ UNCHANGED <<Stat, CardType>>
  BY DEF IInv, initConsoleBuffer, INT1_mounts, Control, Places, Sending, Over, Initialising
<1>2. call' \in Calls /\ call'.fn = "initialize"
  BY <1>1, CallType DEF IInv, TypeOK
<1>3. /\ card' \in Cards /\ card'.mode = card.mode /\ card'.in = card.in
      /\ card'.empty = card.empty
  <2>1. CASE card' = card
    BY <2>1 DEF IInv, TypeOK
  <2>2. CASE card' = [card EXCEPT !.hits = 0]
    BY <2>2, HitsCounted DEF IInv, TypeOK
  <2> QED
    BY <2>1, <2>2 DEF initConsoleBuffer, INT1_mounts
<1>4. TypeOK' /\ Gone' /\ ReadyIsInitialised'
  BY <1>1, <1>2, <1>3 DEF IInv, TypeOK, Gone, ReadyIsInitialised
<1>5. Control' /\ Initialising' /\ Moving'
  BY <1>1, <1>2 DEF Control, Places, Sending, Over, Initialising, Moving
<1> QED
  BY <1>4, <1>5 DEF IInv

LEMMA ReturnsIInv == IInv /\ Returns => IInv'
<1> SUFFICES ASSUME IInv, Returns PROVE IInv'
  OBVIOUS
<1>1. pc' = "idle" /\ UNCHANGED <<Stat, CardType, card, cmd, res, call>>
  BY DEF Returns
<1>2. TypeOK' /\ Gone' /\ ReadyIsInitialised'
  BY <1>1 DEF IInv, TypeOK, Gone, ReadyIsInitialised, Hits
<1>3. Control' /\ Initialising' /\ Moving'
  BY <1>1 DEF Control, Places, Sending, Over, Initialising, Moving
<1> QED
  BY <1>2, <1>3 DEF IInv
-----------------------------------------------------------------------------
(* A tick finds an empty socket before another card can be in it.          *)
LEMMA TickIInv == IInv /\ mmc_disk_timerproc => IInv'
<1> SUFFICES ASSUME IInv, mmc_disk_timerproc PROVE IInv'
  OBVIOUS
<1>1. UNCHANGED <<CardType, pc, cmd, res, call>>
  BY DEF mmc_disk_timerproc
<1>2. card \in Cards /\ Stat \in Stats
  BY DEF IInv, TypeOK
<1>3. /\ Stat' \in Stats /\ Stat'.noinit = (Stat.noinit \/ ~card.in)
  BY <1>2 DEF mmc_disk_timerproc, StatFrom, Stats, Cards
<1>4. Seen \in {0, 1, 2} /\ (pc \in {"response", "clear_NOINIT", "store"} => Seen = 1)
  BY <1>2 DEF Seen, Cards
<1>5. PICK e \in {0, 1, 2} : card' = [card EXCEPT !.empty = e]
                          /\ e = IF card.in THEN card.empty ELSE Seen
  BY <1>2, <1>4 DEF mmc_disk_timerproc, Cards
<1>6. /\ card' \in Cards /\ card'.mode = card.mode /\ card'.in = card.in
      /\ card'.kind = card.kind /\ card'.hits = card.hits /\ card'.empty = e
  BY <1>2, <1>5 DEF Cards
<1>7. TypeOK' /\ Gone' /\ ReadyIsInitialised'
  BY <1>1, <1>3, <1>6 DEF IInv, TypeOK, Gone, ReadyIsInitialised, Hits
<1>8. Control' /\ Moving'
  BY <1>1, <1>6 DEF IInv, Control, Places, Sending, Over, CommandsOf, Moving, Addressed, Hits
<1>9. Initialising'
  <2>1. pc \in {"response", "clear_NOINIT", "store"} => SameCard'
    BY <1>4, <1>5, <1>6 DEF SameCard
  <2> QED
    BY <1>1, <1>3, <1>6, <2>1
       DEF IInv, Initialising, Progress, Ready, Hits, Sending, Over, Old
<1> QED
  BY <1>7, <1>8, <1>9 DEF IInv

(* A card goes with its mode; one comes without, and finds NOINIT set.     *)
LEMMA CardIInv == IInv /\ Card => IInv'
<1> SUFFICES ASSUME IInv, Card PROVE IInv'
  OBVIOUS
<1>1. UNCHANGED <<Stat, CardType, pc, cmd, res, call>> /\ card \in Cards
  BY DEF Card, Removed, Inserted, CardWritten, IInv, TypeOK
<1>2. card' \in Cards /\ card'.hits = card.hits
  <2>1. CASE Removed
    BY <1>1, <2>1 DEF Removed, Cards
  <2>2. CASE Inserted
    BY <1>1, <2>2 DEF Inserted, Cards
  <2>3. CASE CardWritten
    BY <1>1, <2>3 DEF CardWritten, Cards
  <2> QED
    BY <2>1, <2>2, <2>3 DEF Card
<1>3. \/ /\ ~card'.in /\ card'.mode = "off" /\ card'.empty = 0
      \/ /\ ~card.in /\ card.empty = 2 /\ card'.in /\ card'.mode = card.mode
      \/ /\ card'.in = card.in /\ card'.mode = card.mode /\ card'.kind = card.kind
         /\ card'.empty = card.empty
  <2>1. CASE Removed
    BY <1>1, <2>1 DEF Removed, Cards
  <2>2. CASE Inserted
    BY <1>1, <2>2 DEF Inserted, Cards
  <2>3. CASE CardWritten
    BY <1>1, <2>3 DEF CardWritten, Cards
  <2> QED
    BY <2>1, <2>2, <2>3 DEF Card
<1>4. TypeOK' /\ Gone' /\ ReadyIsInitialised'
  BY <1>1, <1>2, <1>3 DEF IInv, TypeOK, Gone, ReadyIsInitialised, Hits
<1>5. Control' /\ Moving'
  BY <1>1, <1>2, <1>3 DEF IInv, Gone, Control, Places, Sending, Over, CommandsOf, Moving,
                          Addressed, Hits
<1>6. Initialising'
  BY <1>1, <1>3 DEF IInv, Gone, Initialising, Progress, Ready, SameCard, Hits, Sending, Over, Old
<1> QED
  BY <1>4, <1>5, <1>6 DEF IInv
-----------------------------------------------------------------------------
(* Nothing the driver, its callers or the user with the card do breaks the *)
(* invariant.                                                              *)
THEOREM Invariance == Spec => []IInv
<1>1. IInv /\ [Next]_vars => IInv'
  <2> SUFFICES ASSUME IInv, [Next]_vars PROVE IInv'
    OBVIOUS
  <2>1. CASE Initialize
    BY <2>1, PowerIInv, AnsweredIInv, ClearIInv DEF Initialize
  <2>2. CASE Driver /\ ~Initialize
    BY <2>2, ResponseIInv, TimeoutIInv, ReadIInv, PacketIInv, WriteIInv, BlockIInv, SyncIInv,
       MountIInv, ReturnsIInv DEF Driver
  <2>3. CASE Timer2_transfers \/ INT1_reopens
    BY <2>3, AsksIInv DEF Timer2_transfers, INT1_reopens
  <2>4. CASE INT1_mounts
    BY <2>4, MountIInv
  <2>5. CASE mmc_disk_timerproc
    BY <2>5, TickIInv
  <2>6. CASE Card
    BY <2>6, CardIInv
  <2>7. CASE UNCHANGED vars
    <3>1. TypeOK' /\ Control' /\ Gone' /\ ReadyIsInitialised'
      BY <2>7 DEF vars, IInv, TypeOK, Control, Places, Sending, Over, CommandsOf, Gone,
                  ReadyIsInitialised, Hits
    <3>2. Initialising' /\ Moving'
      BY <2>7 DEF vars, IInv, Initialising, Progress, Ready, SameCard, Moving, Addressed, Hits,
                  Sending, Over, Old
    <3> QED
      BY <3>1, <3>2 DEF IInv
  <2> QED
    BY <2>1, <2>2, <2>3, <2>4, <2>5, <2>6, <2>7 DEF Next
<1> QED
  BY <1>1, InitIInv, PTL DEF Spec

(* While NOINIT is clear, the card in the socket has been through          *)
(* mmc_disk_initialize since it was put in, and the driver counts its      *)
(* addresses as it does, whenever it was pulled and whatever came instead. *)
THEOREM CardIsInitialised == Spec => []ReadyIsInitialised
<1>1. IInv => ReadyIsInitialised
  BY DEF IInv
<1> QED
  BY <1>1, Invariance, PTL

(* RES_OK of mmc_disk_read and mmc_disk_write says that each sector of the *)
(* call was moved, and to or from the block it was asked for.              *)
THEOREM SuccessMeansMoved == Spec => []SuccessIsComplete
<1>1. IInv => SuccessIsComplete
  BY DEF IInv, Moving, SuccessIsComplete
<1> QED
  BY <1>1, Invariance, PTL
=============================================================================
