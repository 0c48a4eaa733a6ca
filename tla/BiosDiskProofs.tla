--------------------------- MODULE BiosDiskProofs ---------------------------
(***************************************************************************)
(* Proofs about the disk calls of the BIOS, for every set of drives and    *)
(* sectors and every queue size.  The invariant follows one request from   *)
(* the OUT that starts it through the steps of Timer2 and the interrupt it *)
(* raises to the status the Z80 reads: there is one request at a time, one *)
(* wake-up for it, and the wake-up comes after the transfer.  A reset of   *)
(* the Z80 may leave a request or a wake-up behind: a wake-up is taken in  *)
(* before the first disk call of BOOT, a request is lost track of until a  *)
(* reset finds all requests at rest.                                       *)
(***************************************************************************)
EXTENDS BiosDisk, TLAPS

VectorOf(o) == Vector(IF o = "read" THEN DSKRD ELSE DSKWR)
Req == fd[cfd][op]
InCall == pc \in {"wait", "status"}

(* A request is under way in a call, or in the reset that has cut it short. *)
Asked == InCall \/ pc = "reset"

(* From a reset to the first disk call of BOOT, which waits until the      *)
(* interrupts are enabled and the queue is empty: what is in the queue may *)
(* be of the time before.                                                  *)
Restarting == pc \in {"reset", "boot"} \/ (pc = "load" /\ (iff \/ serving))

(* Where a wake-up is between the handler that raises it and its flag.     *)
Kept(v) == \E i \in 1 .. Len(pending) : pending[i] = v
Once(v) == \A i, j \in 1 .. Len(pending) : pending[i] = v /\ pending[j] = v => i = j
Delivering(v) == serving /\ bus = v

(* The request of the call has been served.                                *)
Finished == t2pc = "done" \/ (t2pc = "check" /\ Req.state = "IDLE")

(* A device raises the vector its flag belongs to.                         *)
LevelsSet == \A o \in Ops : int_level[o] # Disabled => Vector(int_level[o]) = VectorOf(o)

(* Only the request of a call that waits is not at rest.                   *)
OneRequest == \A d \in Drives, o \in Ops : fd[d][o].state # "IDLE" =>
  Asked /\ d = cfd /\ o = op /\ fd[d][o].state # "REJECTED"

(* Timer2 is past its check exactly with that request.                     *)
Timer2Serves ==
  /\ t2pc # "check" => Asked /\ t2op = op
  /\ t2pc = "start" => Req.state = "REQUESTING"
  /\ t2pc \in {"transfer", "notify", "done"} <=> Req.state = "DOING"

(* It raises one wake-up, when it has finished, and the flag is set by it. *)
OneWakeUp == Restarting \/ \A o \in Ops :
  /\ Kept(VectorOf(o)) \/ Delivering(VectorOf(o)) =>
       pc = "wait" /\ o = op /\ Finished /\ ~flag[VectorOf(o)]
  /\ Once(VectorOf(o)) /\ ~(Kept(VectorOf(o)) /\ Delivering(VectorOf(o)))
FlagIsAnswer == pc = "status" \/ (pc = "wait" /\ flag[VectorOf(op)]) => Finished

(* The transfer is the one asked for.                                      *)
PositionKept == InCall => Req.position = dt_pos[op]
Transferred == InCall /\ (Finished \/ t2pc = "notify") /\ Req.ok =>
  buffer = image[cfd][dt_pos[op]]

Returned == ret \in {"ok", "error"} => pc \in {"program", "load", "halt"}

Followed == /\ TypeOK /\ LevelsSet /\ OneRequest /\ Timer2Serves
            /\ OneWakeUp /\ FlagIsAnswer /\ PositionKept /\ Transferred
            /\ Returned /\ SuccessIsTransfer /\ ErrorIsReported

(* What stays also when a reset has lost track of a request.               *)
HandlerRests == t2op = "none" => t2pc = "check"
NothingReturned == pc = "reset" => ret = "none"
Always == TypeOK /\ LevelsSet /\ HandlerRests /\ NothingReturned

IInv == Always /\ (crossed \/ Followed)
-----------------------------------------------------------------------------
Files == [Drives -> [open : BOOLEAN, read : Request, write : Request]]

(* A record of fd by its three fields, one of them reached by the name of  *)
(* an operation.                                                           *)
LEMMA FileType ==
  ASSUME NEW f \in Files, NEW d \in Drives, NEW o \in Ops
  PROVE  f[d].open \in BOOLEAN /\ f[d][o] \in Request
<1>1. CASE o = "read"
  BY <1>1 DEF Files
<1>2. CASE o = "write"
  BY <1>2 DEF Files
<1> QED
  BY <1>1, <1>2 DEF Ops

WithRequest(f, d, o, q) == [f EXCEPT ![d][o] = q]

LEMMA SetRequest ==
  ASSUME NEW f \in Files, NEW d \in Drives, NEW o \in Ops, NEW q \in Request
  PROVE  LET g == WithRequest(f, d, o, q)
         IN  /\ g \in Files /\ g[d][o] = q /\ g[d].open = f[d].open
             /\ \A c \in Drives, p \in Ops : c # d \/ p # o => g[c][p] = f[c][p]
<1>1. CASE o = "read"
  BY <1>1 DEF WithRequest, Files, Ops
<1>2. CASE o = "write"
  BY <1>2 DEF WithRequest, Files, Ops
<1> QED
  BY <1>1, <1>2 DEF Ops
-----------------------------------------------------------------------------
(* What a notification adds to the queue, and an acknowledge takes from it. *)
LEMMA NotifyPending ==
  ASSUME IntTypeOK, NEW level \in {DSKRD, DSKWR, CONIN_INT, Disabled}, Notify(level)
  PROVE  /\ pending' \in Seq(FlaggedVectors) /\ Len(pending') < INT_QUEUE_SIZE
         /\ bus' = bus /\ refused' \in BOOLEAN
         /\ \A v : Kept(v)' => Kept(v) \/ (level # Disabled /\ v = Vector(level))
         /\ \A v : Once(v) /\ (Kept(v) => v # Vector(level)) => Once(v)'
<1>1. CASE UNCHANGED <<pending, bus>> /\ refused' \in BOOLEAN
  BY <1>1 DEF IntTypeOK, Kept, Once
<1>2. CASE level # Disabled /\ Queue!Accept(Vector(level)) /\ refused' = refused
  <2>1. /\ pending' = Append(pending, Vector(level)) /\ Len(pending) < INT_QUEUE_SIZE - 1
        /\ bus' = bus
    BY <1>2 DEF Queue!Accept
  <2>2. Vector(level) \in FlaggedVectors
    BY <1>2 DEF FlaggedVectors
  <2>3. /\ pending' \in Seq(FlaggedVectors) /\ Len(pending') = Len(pending) + 1
        /\ pending'[Len(pending) + 1] = Vector(level)
        /\ \A i \in 1 .. Len(pending) : pending'[i] = pending[i]
        /\ Len(pending) \in Nat
    BY <2>1, <2>2 DEF IntTypeOK
  <2>4. Len(pending') < INT_QUEUE_SIZE
    BY <2>1, <2>3, IntQueueAssumption
  <2>5. ASSUME NEW v, Kept(v)'
        PROVE  Kept(v) \/ v = Vector(level)
    BY <2>3, <2>5 DEF Kept
  <2>6. ASSUME NEW v, Once(v), Kept(v) => v # Vector(level)
        PROVE  Once(v)'
    BY <2>3, <2>6 DEF Kept, Once
  <2> QED
    BY <1>2, <2>1, <2>3, <2>4, <2>5, <2>6 DEF IntTypeOK
<1>3. \/ UNCHANGED <<pending, bus>> /\ refused' \in BOOLEAN
      \/ level # Disabled /\ Queue!Accept(Vector(level)) /\ refused' = refused
  <2>1. level < Disabled => level # Disabled
    BY DEF Disabled
  <2> QED
    BY <2>1, Zenon DEF Notify, Queue!Refuse, Queue!fifoVars, IntTypeOK
<1> QED
  BY <1>1, <1>2, <1>3

LEMMA TakePending ==
  ASSUME IntTypeOK, Queue!Take
  PROVE  /\ pending' \in Seq(FlaggedVectors) /\ Len(pending') < INT_QUEUE_SIZE
         /\ bus' \in FlaggedVectors /\ Kept(bus')
         /\ \A v : Kept(v)' => Kept(v)
         /\ \A v : Once(v) => Once(v)'
         /\ \A v : Once(v) /\ v = bus' => ~Kept(v)'
<1>1. /\ pending # <<>> /\ bus' = Head(pending) /\ pending' = Tail(pending)
  BY DEF Queue!Take
<1>2. /\ Len(pending) \in Nat \ {0} /\ bus' = pending[1] /\ bus' \in FlaggedVectors
      /\ pending' \in Seq(FlaggedVectors) /\ Len(pending') = Len(pending) - 1
      /\ \A i \in 1 .. Len(pending) - 1 : pending'[i] = pending[i + 1]
  BY <1>1 DEF IntTypeOK
<1>3. Len(pending') < INT_QUEUE_SIZE
  BY <1>2, IntQueueAssumption DEF IntTypeOK
<1>4. Kept(bus')
  BY <1>2 DEF Kept
<1>5. ASSUME NEW v, Kept(v)'
      PROVE  Kept(v)
  BY <1>2, <1>5 DEF Kept
<1>6. ASSUME NEW v, Once(v)
      PROVE  Once(v)'
  BY <1>2, <1>6 DEF Once
<1>7. ASSUME NEW v, Once(v), v = bus'
      PROVE  ~Kept(v)'
  BY <1>2, <1>7 DEF Kept, Once
<1> QED
  BY <1>2, <1>3, <1>4, <1>5, <1>6, <1>7
-----------------------------------------------------------------------------
LEMMA RequestOfCall ==
  ASSUME TypeOK
  PROVE  /\ fd \in Files /\ cfd \in Drives /\ op \in Ops /\ Req \in Request
         /\ IntTypeOK /\ t2op \in Ops \cup {"none"} /\ "none" \notin Ops
         /\ t2pc \in {"check", "start", "transfer", "notify", "done"}
  <1>1. /\ fd \in Files /\ cfd \in Drives /\ op \in Ops /\ IntTypeOK
        /\ t2op \in Ops \cup {"none"}
        /\ t2pc \in {"check", "start", "transfer", "notify", "done"}
    BY DEF TypeOK, DiskTypeOK, Files
  <1>2. "none" \notin Ops
    BY DEF Ops
  <1> QED
    BY <1>1, <1>2, FileType DEF Req

(* Outside a call nothing of a request is left: neither its state, nor     *)
(* Timer2's, nor, once the Z80 has restarted, its wake-up.                 *)
NoWakeUp == \A o \in Ops : ~Kept(VectorOf(o)) /\ ~Delivering(VectorOf(o))
Quiet == /\ ~Asked /\ t2pc = "check"
         /\ \A d \in Drives, o \in Ops : fd[d][o].state = "IDLE"
         /\ Restarting \/ NoWakeUp
Results == Returned /\ SuccessIsTransfer /\ ErrorIsReported

LEMMA OutsideCalls ==
  ASSUME Followed, ~Asked
  PROVE  Quiet
<1>1. t2pc = "check" /\ \A d \in Drives, o \in Ops : fd[d][o].state = "IDLE"
  BY RequestOfCall DEF Followed, Timer2Serves, OneRequest
<1>2. pc # "wait"
  BY DEF Asked, InCall
<1>3. Restarting \/ NoWakeUp
  BY <1>2, Zenon DEF Followed, OneWakeUp, NoWakeUp
<1> QED
  BY <1>1, <1>3 DEF Quiet

LEMMA QuietFollowed == Quiet /\ TypeOK /\ LevelsSet /\ Results => Followed
<1> SUFFICES ASSUME Quiet, TypeOK, LevelsSet, Results
             PROVE  Followed
  OBVIOUS
<1>1. OneRequest
  BY DEF Quiet, OneRequest
<1>2. Timer2Serves
  BY RequestOfCall DEF Quiet, Timer2Serves, Req
<1>3. OneWakeUp
  BY Zenon DEF Quiet, NoWakeUp, OneWakeUp, Once, Kept
<1>4. pc # "wait" /\ pc # "status" /\ ~InCall
  BY DEF Quiet, Asked, InCall
<1> QED
  BY <1>1, <1>2, <1>3, <1>4, Zenon
     DEF Followed, FlagIsAnswer, PositionKept, Transferred, Results

LEMMA QuietFollowedNext == (Quiet /\ TypeOK /\ LevelsSet /\ Results)' => Followed'
BY QuietFollowed, PTL

LEMMA InitFollowed == Init => Followed
<1> SUFFICES ASSUME Init
             PROVE  Followed
  OBVIOUS
<1>1. AtRest \in Request /\ AtRest.state = "IDLE" /\ AtRest.ok = TRUE
  BY ZeroAssumption DEF AtRest, Request
<1>2. PICK opened \in [Drives -> BOOLEAN] :
        fd = [d \in Drives |-> [open |-> opened[d], read |-> AtRest, write |-> AtRest]]
  BY DEF Init, DiskInit
<1>3. fd \in Files /\ \A d \in Drives, o \in Ops : fd[d][o] = AtRest
  BY <1>1, <1>2 DEF Files, Ops
<1>4. pending = <<>> /\ bus = 0 /\ serving = FALSE /\ flag = [v \in FlaggedVectors |-> FALSE]
  BY DEF Init, IntInit, Queue!FifoInit
<1>5. IntTypeOK
  <2>1. pending \in Seq(FlaggedVectors)
    BY <1>4
  <2>2. Len(pending) = 0
    BY <1>4
  <2>3. Len(pending) < INT_QUEUE_SIZE
    BY <2>2, IntQueueAssumption
  <2>4. bus \in FlaggedVectors
    BY <1>4 DEF FlaggedVectors, Vector, DSKRD
  <2>5. refused \in BOOLEAN /\ iff \in BOOLEAN /\ serving \in BOOLEAN
    BY Zenon DEF Init, IntInit
  <2>6. flag \in [FlaggedVectors -> BOOLEAN]
    BY <1>4
  <2> QED
    BY <2>1, <2>3, <2>4, <2>5, <2>6, Zenon DEF IntTypeOK
<1>6. DiskTypeOK
  BY <1>3, ZeroAssumption DEF Init, DiskInit, DiskTypeOK, Files, Ops
<1>7. TypeOK
  BY <1>5, <1>6 DEF Init, TypeOK, Ops
<1>8. \A v : ~Kept(v) /\ ~Delivering(v) /\ Once(v)
  BY <1>4 DEF Kept, Delivering, Once
<1>9. Quiet
  BY <1>1, <1>3 DEF Quiet, Restarting, Init, DiskInit, Asked, InCall
<1>10. LevelsSet
  BY DEF Init, DiskInit, LevelsSet
<1>11. Results
  BY DEF Init, Results, Returned, SuccessIsTransfer, ErrorIsReported
<1> QED
  BY <1>7, <1>9, <1>10, <1>11, QuietFollowed
-----------------------------------------------------------------------------
(* The steps of the devices beside the disk, and of the Z80's interrupts.  *)
LEMMA Vectors ==
  /\ \A o \in Ops : VectorOf(o) \in FlaggedVectors /\ VectorOf(o) # Vector(CONIN_INT)
  /\ \A o, p \in Ops : VectorOf(o) = VectorOf(p) => o = p
BY DEF Ops, VectorOf, FlaggedVectors, Vector, DSKRD, DSKWR, CONIN_INT, CONOUT_INT

AwayFromInterrupts == UNCHANGED <<diskVars, z80Vars>>

(* The parts of the invariant that do not look at interrupts.              *)
LEMMA AwayStays ==
  ASSUME Followed, AwayFromInterrupts, IntTypeOK'
  PROVE  /\ TypeOK' /\ LevelsSet' /\ OneRequest' /\ Timer2Serves'
         /\ PositionKept' /\ Transferred' /\ Results'
         /\ Finished' = Finished /\ UNCHANGED <<pc, op>>
<1> USE DEF AwayFromInterrupts, diskVars, devVars, dataVars, t2Vars, z80Vars
<1>1. TypeOK'
  BY DEF Followed, TypeOK, DiskTypeOK
<1>2. Finished' = Finished /\ UNCHANGED <<pc, op>>
  BY DEF Finished, Req
<1>3. LevelsSet' /\ OneRequest' /\ Timer2Serves'
  BY DEF Followed, LevelsSet, OneRequest, Timer2Serves, Req, Asked, InCall
<1>4. PositionKept' /\ Transferred'
  BY <1>2 DEF Followed, PositionKept, Transferred, Req, InCall
<1>5. Results'
  BY DEF Followed, Results, Returned, SuccessIsTransfer, ErrorIsReported
<1> QED
  BY <1>1, <1>2, <1>3, <1>4, <1>5

LEMMA OtherDeviceFollowed == ASSUME Followed, OtherDevice PROVE Followed'
<1>1. /\ AwayFromInterrupts /\ UNCHANGED <<iff, serving, flag>> /\ Notify(CONIN_INT)
      /\ IntTypeOK
  BY RequestOfCall DEF OtherDevice, AwayFromInterrupts, Followed
<1>2. /\ pending' \in Seq(FlaggedVectors) /\ Len(pending') < INT_QUEUE_SIZE
      /\ bus' = bus /\ refused' \in BOOLEAN
      /\ \A v : v # Vector(CONIN_INT) => (Kept(v)' => Kept(v)) /\ (Once(v) => Once(v)')
  BY <1>1, NotifyPending
<1>3. IntTypeOK'
  BY <1>1, <1>2, Zenon DEF IntTypeOK
<1>4. OneWakeUp'
  <2>1. UNCHANGED <<pc, op>>
    BY <1>1, <1>3, AwayStays
  <2>2. CASE Restarting
    <3>1. Restarting'
      BY <1>1, <2>1, <2>2, Zenon DEF Restarting
    <3> QED  BY <3>1 DEF OneWakeUp
  <2>3. CASE ~Restarting
    BY <1>1, <1>2, <1>3, <2>3, AwayStays, Vectors DEF Followed, OneWakeUp, Delivering
  <2> QED  BY <2>2, <2>3
<1>5. FlagIsAnswer'
  BY <1>1, <1>3, AwayStays DEF Followed, FlagIsAnswer
<1> QED
  BY <1>1, <1>3, <1>4, <1>5, AwayStays DEF Followed, Results

LEMMA AcknowledgeFollowed ==
  ASSUME Followed, Z80_acknowledge, AwayFromInterrupts
  PROVE  Followed'
<1>1. /\ Queue!Take /\ serving' = TRUE /\ iff' = FALSE /\ UNCHANGED <<refused, flag>>
      /\ IntTypeOK
  BY RequestOfCall DEF Z80_acknowledge, Followed
<1>2. /\ pending' \in Seq(FlaggedVectors) /\ Len(pending') < INT_QUEUE_SIZE
      /\ bus' \in FlaggedVectors /\ Kept(bus')
      /\ \A v : (Kept(v)' => Kept(v)) /\ (Once(v) => Once(v)')
      /\ \A v : Once(v) /\ v = bus' => ~Kept(v)'
  BY <1>1, TakePending
<1>3. IntTypeOK'
  BY <1>1, <1>2, Zenon DEF IntTypeOK
<1>4. \A v : Delivering(v)' <=> v = bus'
  BY <1>1 DEF Delivering
<1>5. OneWakeUp'
  <2>1. UNCHANGED <<pc, op>>
    BY <1>1, <1>3, AwayStays
  <2>2. CASE Restarting
    <3>1. Restarting'
      BY <1>1, <2>1, <2>2, Zenon DEF Restarting
    <3> QED  BY <3>1 DEF OneWakeUp
  <2>3. CASE ~Restarting
    BY <1>1, <1>2, <1>3, <1>4, <2>3, AwayStays DEF Followed, OneWakeUp
  <2> QED  BY <2>2, <2>3
<1>6. FlagIsAnswer'
  BY <1>1, <1>3, AwayStays DEF Followed, FlagIsAnswer
<1> QED
  BY <1>3, <1>5, <1>6, AwayStays DEF Followed, Results

LEMMA IsrFollowed ==
  ASSUME Followed, Z80_isr, AwayFromInterrupts
  PROVE  Followed'
<1>1. /\ serving = TRUE /\ serving' = FALSE /\ iff' = TRUE
      /\ flag' = [flag EXCEPT ![bus] = TRUE]
      /\ UNCHANGED <<pending, bus, refused>> /\ IntTypeOK
  BY RequestOfCall DEF Z80_isr, Followed, IntTypeOK
<1>2. /\ flag' \in [FlaggedVectors -> BOOLEAN]
      /\ \A v \in FlaggedVectors : flag'[v] <=> flag[v] \/ v = bus
  BY <1>1, Zenon DEF IntTypeOK
<1>3. IntTypeOK'
  BY <1>1, <1>2, Zenon DEF IntTypeOK
<1>4. \A v : /\ Kept(v)' <=> Kept(v)
             /\ Once(v)' <=> Once(v)
             /\ ~Delivering(v)' /\ (Delivering(v) <=> v = bus)
  BY <1>1 DEF Kept, Once, Delivering
<1>5. OneWakeUp'
  <2>1. UNCHANGED <<pc, op>>
    BY <1>3, AwayStays
  <2>2. CASE Restarting
    <3>1. Restarting'
      BY <1>1, <2>1, <2>2, Zenon DEF Restarting
    <3> QED  BY <3>1 DEF OneWakeUp
  <2>3. CASE ~Restarting
    BY <1>2, <1>3, <1>4, <2>3, AwayStays, Vectors DEF Followed, OneWakeUp
  <2> QED  BY <2>2, <2>3
<1>6. FlagIsAnswer'
  <2>1. VectorOf(op) \in FlaggedVectors
    BY Vectors, RequestOfCall DEF Followed
  <2>2. UNCHANGED <<pc, op>> /\ Finished' = Finished
    BY <1>3, AwayStays
  <2>3. pc = "status" => Finished
    BY DEF Followed, FlagIsAnswer
  <2>4. ASSUME pc = "wait", flag'[VectorOf(op)] PROVE Finished
    <3>1. ~Restarting
      BY <2>4 DEF Restarting
    <3>2. CASE flag[VectorOf(op)]
      BY <2>4, <3>2 DEF Followed, FlagIsAnswer
    <3>3. CASE VectorOf(op) = bus
      BY <1>1, <1>4, <3>1, <3>3, RequestOfCall DEF Followed, OneWakeUp
    <3> QED  BY <1>2, <2>1, <2>4, <3>2, <3>3
  <2> QED
    BY <2>2, <2>3, <2>4 DEF FlagIsAnswer
<1> QED
  BY <1>3, <1>5, <1>6, AwayStays DEF Followed, Results
-----------------------------------------------------------------------------
(* The steps of the main line outside a call.                              *)
LEMMA SelectFile ==
  ASSUME fd \in Files, NEW d \in Drives, OUT_0A_DSK_SelectDisk(d)
  PROVE  /\ fd' \in Files /\ cfd' = d /\ UNCHANGED <<int_level, dt_pos>>
         /\ \A o \in Ops : fd'[d][o].state = "IDLE"
         /\ \A c \in Drives : c # d => fd'[c] = fd[c]
<1>1. PICK opens \in BOOLEAN :
        fd' = [fd EXCEPT ![d] = [open |-> opens, read |-> Forgotten(fd[d].read),
                                 write |-> Forgotten(fd[d].write)]]
  BY DEF OUT_0A_DSK_SelectDisk
<1>2. ASSUME NEW q \in Request
      PROVE  Forgotten(q) \in Request /\ Forgotten(q).state = "IDLE"
  BY DEF Forgotten, Request
<1>3. fd[d].read \in Request /\ fd[d].write \in Request
  BY DEF Files
<1> HIDE DEF Forgotten
<1>4. fd' \in Files /\ \A c \in Drives : c # d => fd'[c] = fd[c]
  BY <1>1, <1>2, <1>3 DEF Files
<1>5. fd'[d].read = Forgotten(fd[d].read) /\ fd'[d].write = Forgotten(fd[d].write)
  BY <1>1, <1>3 DEF Files
<1> QED
  BY <1>2, <1>3, <1>4, <1>5 DEF OUT_0A_DSK_SelectDisk, Ops

(* The queue and the flags are not touched by these steps.                 *)
InterruptsStay == /\ UNCHANGED <<pending, bus, refused, flag>>
                  /\ iff' \in BOOLEAN /\ serving' \in {FALSE, serving}

LEMMA QuietStays ==
  ASSUME Followed, ~Asked, InterruptsStay, ~Asked', t2pc' = t2pc, crossed' = crossed,
         Restarting => Restarting' \/ (pending = <<>> /\ ~serving),
         \A d \in Drives, o \in Ops : fd'[d][o].state = "IDLE",
         DiskTypeOK', LevelsSet', Results',
         pc' \in {"reset", "boot", "load", "position", "halt", "program", "selected",
                  "ask", "wait", "status"},
         op' \in Ops, ret' \in {"none", "ok", "error", "load"}
  PROVE  Followed'
<1>1. IntTypeOK'
  <2>1. IntTypeOK
    BY RequestOfCall DEF Followed
  <2> QED
    BY <2>1, Zenon DEF IntTypeOK, InterruptsStay
<1>2. TypeOK'
  BY <1>1, Zenon DEF TypeOK, Followed
<1>3. Quiet'
  <2>1. Quiet
    BY OutsideCalls
  <2>2. \A v : /\ Kept(v)' <=> Kept(v)
               /\ Delivering(v)' => Delivering(v)
    BY DEF InterruptsStay, Kept, Delivering
  <2>3. pending = <<>> /\ ~serving => NoWakeUp
    BY DEF NoWakeUp, Kept, Delivering
  <2>4. Restarting' \/ NoWakeUp'
    <3>1. Restarting' \/ NoWakeUp
      BY <2>1, <2>3, Zenon DEF Quiet
    <3> QED  BY <2>2, <3>1, Zenon DEF NoWakeUp
  <2> QED
    BY <2>1, <2>4 DEF Quiet
<1> QED
  BY <1>2, <1>3, QuietFollowedNext

LEMMA BootFollowed ==
  ASSUME Followed, BOOT \/ WBOOT \/ ProgramDIEI
  PROVE  Followed'
<1>1. DiskTypeOK /\ Quiet /\ ~Asked
  <2>1. ~Asked
    BY DEF BOOT, WBOOT, ProgramDIEI, Asked, InCall
  <2> QED
    BY <2>1, OutsideCalls DEF Followed, TypeOK
<1>2. InterruptsStay
  <2>1. iff \in BOOLEAN
    BY RequestOfCall DEF Followed, IntTypeOK
  <2> QED
    BY <2>1, Zenon
       DEF InterruptsStay, BOOT, WBOOT, ProgramDIEI, intVars, diskVars
<1>3. /\ ~Asked' /\ UNCHANGED <<fd, cfd, dt_pos, image, buffer, t2pc, t2op, op, ret, crossed>>
      /\ pc' \in {"boot", "load", "program"}
      /\ ret' \in {"ok", "error"} => pc' \in {"program", "load"}
  BY DEF BOOT, WBOOT, ProgramDIEI, Asked, InCall, diskVars, devVars, dataVars,
         t2Vars, z80Vars, OUT_DSK_IntLevel, Followed, Returned
<1>4. \/ int_level' = int_level
      \/ int_level' = [read |-> DSKRD, write |-> DSKWR]
  BY DEF BOOT, WBOOT, ProgramDIEI, diskVars, devVars, OUT_DSK_IntLevel
<1>5. DiskTypeOK' /\ LevelsSet'
  <2>1. int_level' \in [Ops -> {DSKRD, DSKWR, Disabled}] /\ LevelsSet'
    BY <1>1, <1>4 DEF DiskTypeOK, Followed, LevelsSet, Ops, VectorOf
  <2> QED
    BY <1>1, <1>3, <2>1, Zenon DEF DiskTypeOK
<1>6. Results'
  BY <1>3 DEF Followed, Results, Returned, SuccessIsTransfer, ErrorIsReported
<1>7. op \in Ops /\ ret \in {"none", "ok", "error", "load"}
  BY DEF Followed, TypeOK
<1>8. Restarting => Restarting'
  <2>1. CASE BOOT
    BY <2>1 DEF BOOT, Restarting
  <2>2. CASE WBOOT \/ ProgramDIEI
    BY <2>2 DEF WBOOT, ProgramDIEI, Restarting
  <2> QED  BY <2>1, <2>2
<1> QED
  BY <1>1, <1>2, <1>3, <1>5, <1>6, <1>7, <1>8, QuietStays DEF Quiet

(* A reset leaves the request where it is.                                 *)
LEMMA ResetFollowed == ASSUME Followed, Z80_RESET PROVE Followed'
<1>1. /\ TypeOK /\ pc' = "reset" /\ op' = op /\ ret' = "none" /\ iff' = FALSE
      /\ serving' = FALSE /\ pc # "reset"
      /\ UNCHANGED <<pending, bus, refused, flag, diskVars, crossed>>
  BY DEF Z80_RESET, Followed
<1> USE DEF diskVars, devVars, dataVars, t2Vars
<1>2. TypeOK'
  <2>1. IntTypeOK'
    BY <1>1, Zenon DEF TypeOK, IntTypeOK
  <2>2. DiskTypeOK'
    BY <1>1 DEF TypeOK, DiskTypeOK
  <2> QED
    BY <1>1, <2>1, <2>2 DEF TypeOK
<1>3. Req' = Req /\ Asked' /\ ~InCall' /\ Restarting' /\ pc' # "status" /\ pc' # "wait"
  BY <1>1 DEF Req, Asked, InCall, Restarting
<1>4. LevelsSet' /\ OneRequest' /\ Timer2Serves'
  BY <1>1, <1>3 DEF Followed, LevelsSet, OneRequest, Timer2Serves
<1>5. OneWakeUp' /\ FlagIsAnswer' /\ PositionKept' /\ Transferred'
  BY <1>3, Zenon DEF OneWakeUp, FlagIsAnswer, PositionKept, Transferred
<1>6. Results'
  BY <1>1 DEF Results, Returned, SuccessIsTransfer, ErrorIsReported
<1> QED
  BY <1>2, <1>4, <1>5, <1>6 DEF Followed, Results

(* At its end all is quiet, or it has crossed a request.                   *)
LEMMA EndResetFollowed ==
  ASSUME Always, Always', EndReset, ~crossed'
  PROVE  Followed'
<1>1. /\ t2pc = "check" /\ pc' = "boot" /\ ret' = ret /\ pc = "reset"
      /\ UNCHANGED diskVars
      /\ \A d \in Drives, o \in Ops : fd[d][o].state = "IDLE"
  BY DEF EndReset, Always, HandlerRests
<1>2. Quiet'
  BY <1>1 DEF Quiet, Asked, InCall, Restarting, diskVars, devVars, t2Vars
<1>3. ret' = "none"
  BY <1>1 DEF Always, NothingReturned
<1>4. Results'
  BY <1>3 DEF Results, Returned, SuccessIsTransfer, ErrorIsReported
<1> QED
  BY <1>2, <1>4, QuietFollowedNext DEF Always

LEMMA SelectFollowed ==
  ASSUME Followed, LOAD_CCP_BDOS \/ (\E d \in Drives : SELDSK(d)) \/ SELDSK_check
  PROVE  Followed'
<1>1. DiskTypeOK /\ Quiet /\ ~Asked
  <2>1. ~Asked
    BY DEF LOAD_CCP_BDOS, SELDSK, SELDSK_check, Asked, InCall
  <2> QED
    BY <2>1, OutsideCalls DEF Followed, TypeOK
<1>2. InterruptsStay
  <2>1. iff \in BOOLEAN
    BY RequestOfCall DEF Followed, IntTypeOK
  <2> QED
    BY <2>1, Zenon
       DEF InterruptsStay, LOAD_CCP_BDOS, SELDSK, SELDSK_check, intVars
<1>3. /\ \/ \E d \in Drives : OUT_0A_DSK_SelectDisk(d)
         \/ UNCHANGED <<fd, cfd, int_level, dt_pos>>
      /\ UNCHANGED <<image, buffer, t2pc, t2op>> /\ op' \in {op, "read"}
      /\ ret' \in {"none", "load"} \/ (ret' = ret /\ pc = "selected")
      /\ pc' \in {"position", "selected", "program"} /\ ~Asked' /\ crossed' = crossed
  BY ZeroAssumption
     DEF LOAD_CCP_BDOS, SELDSK, SELDSK_check, Asked, InCall, dataVars, t2Vars
<1>4. fd \in Files
  BY <1>1 DEF DiskTypeOK, Files
<1>5. /\ fd' \in Files /\ cfd' \in Drives /\ UNCHANGED <<int_level, dt_pos>>
      /\ \A d \in Drives, o \in Ops : fd'[d][o].state = "IDLE"
  <2>1. CASE \E d \in Drives : OUT_0A_DSK_SelectDisk(d)
    BY <1>1, <1>4, <2>1, SelectFile DEF Quiet
  <2>2. CASE UNCHANGED <<fd, cfd, int_level, dt_pos>>
    BY <1>1, <1>4, <2>2 DEF Quiet, DiskTypeOK
  <2> QED
    BY <1>3, <2>1, <2>2
<1>6. DiskTypeOK' /\ LevelsSet'
  BY <1>1, <1>3, <1>5 DEF DiskTypeOK, Files, Followed, LevelsSet
<1>7. ret' \in {"none", "load"}
  BY <1>3 DEF Followed, TypeOK, Returned
<1>8. Results'
  BY <1>7 DEF Results, Returned, SuccessIsTransfer, ErrorIsReported
<1>9. op' \in Ops
  BY <1>3 DEF Followed, TypeOK, Ops
<1>10. Restarting => pending = <<>> /\ ~serving
  BY DEF LOAD_CCP_BDOS, SELDSK, SELDSK_check, Restarting, MainRuns
<1> QED
  BY <1>1, <1>2, <1>3, <1>5, <1>6, <1>7, <1>8, <1>9, <1>10, QuietStays

LEMMA SetUpFollowed ==
  ASSUME Followed, \/ LOAD_position \/ \E s \in Sectors : CallRead(s)
               \/ \E s \in Sectors, data \in Data : CallWrite(s, data)
  PROVE  Followed'
<1>1. DiskTypeOK /\ Quiet /\ ~Asked /\ ~Restarting
  <2>1. ~Asked /\ ~Restarting
    BY DEF LOAD_position, CallRead, CallWrite, Asked, InCall, Restarting
  <2> QED
    BY <2>1, OutsideCalls DEF Followed, TypeOK
<1>2. InterruptsStay
  <2>1. iff \in BOOLEAN
    BY RequestOfCall DEF Followed, IntTypeOK
  <2> QED
    BY <2>1, Zenon DEF InterruptsStay, LOAD_position, CallRead, CallWrite, intVars
<1>3. /\ \E o \in Ops, s \in Sectors : OUT_DSK_Pos(o, s)
      /\ buffer' = buffer \/ buffer' \in Data
      /\ UNCHANGED <<fd, cfd, int_level, image, t2pc, t2op>>
      /\ op' \in {op, "read", "write"}
      /\ ret' = "none" \/ (ret' = ret /\ pc = "position")
      /\ pc' = "ask" /\ ~Asked' /\ crossed' = crossed
  BY ZeroAssumption
     DEF LOAD_position, CallRead, CallWrite, Asked, InCall, dataVars, t2Vars, Ops
<1>4. DiskTypeOK' /\ LevelsSet'
  <2>1. dt_pos' \in [Ops -> Sectors] /\ buffer' \in Data
    BY <1>1, <1>3 DEF DiskTypeOK, OUT_DSK_Pos
  <2>2. DiskTypeOK'
    BY <1>1, <1>3, <2>1, Zenon DEF DiskTypeOK
  <2> QED
    BY <1>3, <2>2 DEF Followed, LevelsSet
<1>5. ret' \in {"none", "load"}
  BY <1>3 DEF Followed, TypeOK, Returned
<1>6. Results'
  BY <1>5 DEF Results, Returned, SuccessIsTransfer, ErrorIsReported
<1>7. op' \in Ops
  BY <1>3 DEF Followed, TypeOK, Ops
<1> QED
  BY <1>1, <1>2, <1>3, <1>4, <1>5, <1>6, <1>7, QuietStays DEF Quiet
-----------------------------------------------------------------------------
(* A call: it asks, waits for its flag and reads the status.               *)
LEMMA AskFollowed == ASSUME Followed, DISK_SUB PROVE Followed'
<1> DEFINE v == VectorOf(op)
           q == [Req EXCEPT !.state = "REQUESTING", !.position = dt_pos[op]]
<1>1. /\ DiskTypeOK /\ IntTypeOK /\ Quiet /\ NoWakeUp /\ fd \in Files /\ cfd \in Drives
      /\ op \in Ops /\ Req \in Request
  <2>1. ~Asked /\ ~Restarting
    BY DEF DISK_SUB, Asked, InCall, Restarting
  <2> QED
    BY <2>1, OutsideCalls, RequestOfCall DEF Followed, TypeOK, Quiet
<1>2. /\ fd' = WithRequest(fd, cfd, op, q) /\ q \in Request
      /\ q.state = "REQUESTING" /\ q.position = dt_pos[op]
  <2>1. ~Busy(Req) /\ ~Busy(fd[cfd][Other[op]])
    BY <1>1 DEF Quiet, Busy, Req, Ops, Other
  <2>2. dt_pos[op] \in Sectors
    BY <1>1 DEF DiskTypeOK
  <2>3. q \in Request /\ q.state = "REQUESTING" /\ q.position = dt_pos[op]
    BY <1>1, <2>2 DEF Request
  <2>4. fd' = WithRequest(fd, cfd, op, q)
    BY <2>1 DEF WithRequest, DISK_SUB, OUT_start, Requested, Req
  <2> QED
    BY <2>3, <2>4
<1> HIDE DEF q
<1>3. /\ fd' \in Files /\ fd'[cfd][op] = q
      /\ \A c \in Drives, p \in Ops : c # cfd \/ p # op => fd'[c][p] = fd[c][p]
  BY <1>1, <1>2, SetRequest
<1>4. /\ pc' = "wait" /\ flag' = [flag EXCEPT ![v] = FALSE] /\ iff' = TRUE
      /\ UNCHANGED <<cfd, int_level, dt_pos, pending, bus, refused, serving, image, buffer,
                     t2op, t2pc, op, ret, crossed>>
  BY DEF DISK_SUB, OUT_start, dataVars, t2Vars, VectorOf
<1>5. v \in FlaggedVectors
  BY <1>1, Vectors
<1>6. flag' \in [FlaggedVectors -> BOOLEAN] /\ ~flag'[v]
  BY <1>1, <1>4, <1>5, Zenon DEF IntTypeOK
<1>7. TypeOK'
  <2>1. IntTypeOK'
    BY <1>1, <1>4, <1>6, Zenon DEF IntTypeOK
  <2>2. DiskTypeOK'
    BY <1>1, <1>3, <1>4, Zenon DEF DiskTypeOK, Files
  <2> QED
    BY <1>4, <2>1, <2>2 DEF Followed, TypeOK
<1>8. /\ Req' = q /\ ~Finished' /\ InCall' /\ Asked' /\ t2pc' = "check"
  BY <1>1, <1>2, <1>3, <1>4 DEF Req, Finished, Asked, InCall, Quiet
<1>9. LevelsSet' /\ OneRequest' /\ Timer2Serves'
  BY <1>1, <1>2, <1>3, <1>4, <1>8 DEF Followed, LevelsSet, OneRequest, Timer2Serves, Quiet
<1>10. OneWakeUp' /\ FlagIsAnswer'
  <2>1. \A w : (Kept(w)' <=> Kept(w)) /\ (Delivering(w)' <=> Delivering(w))
    BY <1>4 DEF Kept, Delivering
  <2>2. OneWakeUp'
    BY <1>1, <2>1 DEF NoWakeUp, OneWakeUp, Once, Kept
  <2> QED
    BY <1>4, <1>6, <2>2 DEF FlagIsAnswer
<1>11. PositionKept' /\ Transferred'
  BY <1>2, <1>4, <1>8 DEF PositionKept, Transferred
<1>12. Results'
  <2>1. ret' \notin {"ok", "error"}
    BY <1>4 DEF DISK_SUB, Followed, Returned
  <2> QED
    BY <2>1 DEF Results, Returned, SuccessIsTransfer, ErrorIsReported
<1> QED
  BY <1>7, <1>9, <1>10, <1>11, <1>12 DEF Followed, Results

LEMMA WaitFollowed == ASSUME Followed, WAIT_COMPLETE PROVE Followed'
<1>1. /\ pc = "wait" /\ pc' = "status" /\ flag[VectorOf(op)]
      /\ UNCHANGED <<intVars, diskVars, op, ret, crossed>>
  BY DEF WAIT_COMPLETE, VectorOf
<1> USE DEF intVars, diskVars, devVars, dataVars, t2Vars
<1>2. Finished /\ Finished' /\ Req' = Req /\ InCall /\ InCall' /\ Asked' /\ ~Restarting
  BY <1>1 DEF Followed, FlagIsAnswer, Finished, Req, Asked, InCall, Restarting
<1>3. TypeOK'
  <2>1. IntTypeOK' /\ DiskTypeOK'
    BY <1>1 DEF Followed, TypeOK, IntTypeOK, DiskTypeOK
  <2> QED
    BY <1>1, <2>1 DEF Followed, TypeOK
<1>4. LevelsSet' /\ OneRequest' /\ Timer2Serves'
  BY <1>1, <1>2 DEF Followed, LevelsSet, OneRequest, Timer2Serves
<1>5. OneWakeUp' /\ FlagIsAnswer'
  <2>1. \A w : /\ Kept(w)' <=> Kept(w)
               /\ Once(w)' <=> Once(w)
               /\ Delivering(w)' <=> Delivering(w)
    BY <1>1 DEF Kept, Once, Delivering
  <2>2. \A o \in Ops : ~Kept(VectorOf(o)) /\ ~Delivering(VectorOf(o))
    BY <1>1, <1>2 DEF Followed, OneWakeUp
  <2> QED
    BY <1>2, <2>1, <2>2 DEF Followed, OneWakeUp, FlagIsAnswer
<1>6. PositionKept' /\ Transferred'
  BY <1>1, <1>2 DEF Followed, PositionKept, Transferred
<1>7. Results'
  <2>1. ret' \notin {"ok", "error"}
    BY <1>1 DEF Followed, Returned
  <2> QED
    BY <2>1 DEF Results, Returned, SuccessIsTransfer, ErrorIsReported
<1> QED
  BY <1>3, <1>4, <1>5, <1>6, <1>7 DEF Followed, Results

LEMMA StatusFollowed == ASSUME Followed, CheckStatus PROVE Followed'
<1>1. /\ pc = "status" /\ t2pc = "check" /\ Req.state = "IDLE" /\ InCall
      /\ Req.ok \in BOOLEAN /\ TypeOK /\ ~Restarting
  <2>1. pc = "status" /\ t2pc # "done"
    BY DEF CheckStatus, StatusSettled
  <2> QED
    BY <2>1, RequestOfCall
       DEF Followed, FlagIsAnswer, Finished, InCall, Request, Restarting
<1>2. IN_status(op) = IF Req.ok THEN 0 ELSE 2
  BY <1>1 DEF IN_status, Busy, Req
<1>3. /\ pc' = IF ret = "load" /\ ~Req.ok THEN "halt" ELSE "program"
      /\ ret' = IF Req.ok THEN "ok" ELSE "error"
      /\ UNCHANGED <<intVars, diskVars, op, crossed>>
  <2>1. op = "read" \/ op = "write"
    BY <1>1 DEF TypeOK, Ops
  <2> QED
    BY <1>1, <1>2, <2>1 DEF CheckStatus, IN_13_DSK_ReadStatus, IN_0E_DSK_WriteStatus
<1> USE DEF intVars, diskVars, devVars, dataVars, t2Vars
<1>4. TypeOK' /\ ~Asked' /\ LevelsSet'
  <2>1. IntTypeOK' /\ DiskTypeOK'
    BY <1>1, <1>3 DEF TypeOK, IntTypeOK, DiskTypeOK
  <2> QED
    BY <1>1, <1>3, <2>1 DEF Followed, TypeOK, Asked, InCall, LevelsSet
<1>5. Quiet'
  <2>1. \A d \in Drives, o \in Ops : fd'[d][o].state = "IDLE"
    BY <1>1, <1>3 DEF Followed, OneRequest, Req
  <2>2. \A w : (Kept(w)' <=> Kept(w)) /\ (Delivering(w)' <=> Delivering(w))
    BY <1>3 DEF Kept, Delivering
  <2>3. \A o \in Ops : ~Kept(VectorOf(o)) /\ ~Delivering(VectorOf(o))
    BY <1>1, Zenon DEF Followed, OneWakeUp
  <2> QED
    BY <1>1, <1>3, <1>4, <2>1, <2>2, <2>3 DEF Quiet, NoWakeUp
<1>6. Results'
  <2>1. Req.ok => buffer = image[cfd][dt_pos[op]]
    BY <1>1 DEF Followed, Transferred, Finished
  <2> QED
    BY <1>1, <1>3, <2>1 DEF Results, Returned, SuccessIsTransfer, ErrorIsReported, Req
<1> QED
  BY <1>4, <1>5, <1>6, QuietFollowedNext
-----------------------------------------------------------------------------
(* The steps of Timer2.                                                    *)
LEMMA PassFollowed ==
  ASSUME Followed, t2pc = "check", t2pc' = "check", t2op' \in Ops \cup {"none"},
         UNCHANGED <<devVars, dataVars, intVars, z80Vars>>
  PROVE  Followed'
<1> USE DEF devVars, dataVars, intVars, z80Vars
<1>1. TypeOK'
  <2>1. IntTypeOK' /\ DiskTypeOK'
    BY DEF Followed, TypeOK, IntTypeOK, DiskTypeOK
  <2> QED
    BY <2>1 DEF Followed, TypeOK
<1>2. /\ Finished' = Finished /\ Req' = Req /\ InCall' = InCall /\ Asked' = Asked
      /\ Restarting' = Restarting
  BY DEF Finished, Req, InCall, Asked, Restarting
<1>3. LevelsSet' /\ OneRequest' /\ Timer2Serves'
  BY <1>2 DEF Followed, LevelsSet, OneRequest, Timer2Serves
<1>4. OneWakeUp' /\ FlagIsAnswer'
  BY <1>2 DEF Followed, OneWakeUp, FlagIsAnswer, Kept, Once, Delivering
<1>5. PositionKept' /\ Transferred'
  BY <1>2 DEF Followed, PositionKept, Transferred
<1>6. Results'
  BY <1>2 DEF Followed, Results, Returned, SuccessIsTransfer, ErrorIsReported
<1> QED
  BY <1>1, <1>3, <1>4, <1>5, <1>6 DEF Followed, Results

(* A request that waits is the one of the call, and nothing of its answer  *)
(* is there yet; or a reset has cut the call short.                        *)
LEMMA Unanswered ==
  ASSUME Followed, Asked, ~Finished
  PROVE  /\ \/ pc = "reset"
            \/ pc = "wait" /\ ~flag[VectorOf(op)] /\ NoWakeUp /\ ~Restarting
         /\ ret \notin {"ok", "error"}
<1>1. pc = "reset" \/ (pc = "wait" /\ ~flag[VectorOf(op)])
  BY DEF Followed, FlagIsAnswer, Asked, InCall
<1>2. pc = "wait" => ~Restarting
  BY DEF Restarting
<1>3. pc = "wait" => NoWakeUp
  BY <1>2, Zenon DEF Followed, OneWakeUp, NoWakeUp
<1> QED
  BY <1>1, <1>2, <1>3 DEF Followed, Returned

\* During the reset nothing else is asked of what the handler does.
LEMMA DuringReset ==
  ASSUME pc' = "reset"
  PROVE  OneWakeUp' /\ FlagIsAnswer' /\ PositionKept' /\ Transferred'
<1>1. Restarting' /\ ~InCall' /\ pc' # "status" /\ pc' # "wait"
  BY DEF Restarting, InCall
<1> QED
  BY <1>1, Zenon DEF OneWakeUp, FlagIsAnswer, PositionKept, Transferred

LEMMA CheckFollowed ==
  ASSUME Followed, TIMER2_COMP \/ em_disk_check, UNCHANGED z80Vars
  PROVE  Followed'
<1>0. TypeOK
  BY DEF Followed
<1>1. CASE TIMER2_COMP
  <2>1. t2pc = "check"
    BY <1>0, <1>1, RequestOfCall DEF TIMER2_COMP, Followed, Timer2Serves
  <2> QED
    BY <1>1, <2>1, PassFollowed DEF TIMER2_COMP, Ops
<1>2. CASE em_disk_check /\ fd[cfd][t2op].state # "REQUESTING"
  <2>1. /\ t2pc = "check" /\ NextOp /\ UNCHANGED <<devVars, dataVars, intVars>>
    BY <1>2 DEF em_disk_check, devVars, intVars
  <2> QED
    BY <2>1, PassFollowed DEF NextOp, Ops
<1>3. CASE em_disk_check /\ fd[cfd][t2op].state = "REQUESTING"
  <2>1. t2op \in Ops /\ t2pc = "check" /\ cfd \in Drives
    BY <1>0, <1>3, RequestOfCall DEF em_disk_check
  <2>2. Asked /\ t2op = op /\ Req.state = "REQUESTING" /\ ~Finished
    BY <1>3, <2>1 DEF Followed, OneRequest, Req, Finished
  <2>3. ~Busy(fd[cfd][Other[t2op]])
    <3>1. Other[t2op] \in Ops /\ Other[t2op] # t2op
      BY <2>1 DEF Ops, Other
    <3> QED
      BY <2>1, <2>2, <3>1 DEF Followed, OneRequest, Busy
  <2>4. /\ t2pc' = "start" /\ t2op' = t2op
        /\ UNCHANGED <<devVars, dataVars, intVars>>
    BY <1>3, <2>3 DEF em_disk_check, devVars, intVars
  <2>5. ~Finished' /\ Req' = Req /\ UNCHANGED <<pc, op, ret, crossed>> /\ Asked'
    BY <2>2, <2>4 DEF Finished, Req, Asked, InCall, devVars, z80Vars
  <2> USE DEF devVars, dataVars, intVars
  <2>6. TypeOK'
    <3>1. IntTypeOK' /\ DiskTypeOK'
      BY <1>0, <2>4 DEF TypeOK, IntTypeOK, DiskTypeOK
    <3> QED
      BY <1>0, <2>5, <3>1 DEF TypeOK
  <2>7. LevelsSet' /\ OneRequest' /\ Timer2Serves'
    BY <2>2, <2>4, <2>5 DEF Followed, LevelsSet, OneRequest, Timer2Serves
  <2>8. ASSUME pc = "reset"
        PROVE  OneWakeUp' /\ FlagIsAnswer' /\ PositionKept' /\ Transferred'
    BY <2>5, <2>8, DuringReset
  <2>9. ASSUME pc = "wait"
        PROVE  OneWakeUp' /\ FlagIsAnswer' /\ PositionKept' /\ Transferred'
    <3>1. NoWakeUp /\ ~flag[VectorOf(op)] /\ InCall
      BY <2>2, <2>9, Unanswered DEF InCall
    <3>2. OneWakeUp' /\ FlagIsAnswer'
      BY <2>4, <2>5, <2>9, <3>1
         DEF NoWakeUp, OneWakeUp, FlagIsAnswer, Kept, Once, Delivering
    <3>3. PositionKept' /\ Transferred'
      BY <2>2, <2>4, <2>5, <3>1 DEF Followed, PositionKept, Transferred, InCall
    <3> QED  BY <3>2, <3>3
  <2>10. Results'
    BY <2>2, <2>5, Unanswered DEF Results, Returned, SuccessIsTransfer, ErrorIsReported
  <2>11. OneWakeUp' /\ FlagIsAnswer' /\ PositionKept' /\ Transferred'
    BY <2>2, <2>8, <2>9, Unanswered
  <2> QED
    BY <2>6, <2>7, <2>10, <2>11 DEF Followed, Results
<1> QED
  BY <1>1, <1>2, <1>3

(* A step inside the service of the request of the call.                   *)
LEMMA ServeFollowed ==
  ASSUME Followed, Asked, ~Finished, UNCHANGED z80Vars, UNCHANGED <<cfd, int_level, dt_pos>>,
         UNCHANGED intVars, t2op = op, t2op' = op, t2pc' \in {"transfer", "notify"},
         NEW q \in Request, fd' = WithRequest(fd, cfd, op, q),
         q.state = "DOING", q.position = Req.position,
         image' \in [Drives -> [Sectors -> Data]], buffer' \in Data,
         t2pc' = "notify" /\ q.ok => buffer' = image'[cfd][Req.position]
  PROVE  Followed'
<1>1. TypeOK /\ DiskTypeOK /\ fd \in Files /\ cfd \in Drives /\ op \in Ops
  BY RequestOfCall DEF Followed, TypeOK
<1>2. /\ fd' \in Files /\ fd'[cfd][op] = q
      /\ \A c \in Drives, p \in Ops : c # cfd \/ p # op => fd'[c][p] = fd[c][p]
  BY <1>1, SetRequest
<1>3. UNCHANGED <<pc, op, ret, crossed>> /\ Req' = q /\ Asked' /\ ~Finished'
  BY <1>2 DEF z80Vars, Req, Asked, InCall, Finished
<1>4. TypeOK'
  <2>1. IntTypeOK'
    BY <1>1 DEF TypeOK, IntTypeOK, intVars
  <2>2. DiskTypeOK'
    BY <1>1, <1>2 DEF DiskTypeOK, Files
  <2> QED
    BY <1>1, <1>3, <2>1, <2>2 DEF TypeOK
<1>5. LevelsSet' /\ OneRequest' /\ Timer2Serves'
  BY <1>1, <1>2, <1>3 DEF Followed, LevelsSet, OneRequest, Timer2Serves
<1>6. ASSUME pc = "reset"
      PROVE  OneWakeUp' /\ FlagIsAnswer' /\ PositionKept' /\ Transferred'
  BY <1>3, <1>6, DuringReset
<1>7. ASSUME pc = "wait"
      PROVE  OneWakeUp' /\ FlagIsAnswer' /\ PositionKept' /\ Transferred'
  <2>1. NoWakeUp /\ ~flag[VectorOf(op)] /\ InCall
    BY <1>7, Unanswered DEF InCall
  <2>2. OneWakeUp' /\ FlagIsAnswer'
    BY <1>3, <1>7, <2>1
       DEF NoWakeUp, OneWakeUp, FlagIsAnswer, Kept, Once, Delivering, intVars
  <2>3. PositionKept' /\ Transferred'
    BY <1>3, <2>1 DEF Followed, PositionKept, Transferred
  <2> QED  BY <2>2, <2>3
<1>8. Results'
  BY <1>3, Unanswered DEF Results, Returned, SuccessIsTransfer, ErrorIsReported
<1>9. OneWakeUp' /\ FlagIsAnswer' /\ PositionKept' /\ Transferred'
  BY <1>6, <1>7, Unanswered
<1> QED
  BY <1>4, <1>5, <1>8, <1>9 DEF Followed, Results

LEMMA TransferFollowed ==
  ASSUME Followed, em_disk_start \/ em_disk_transfer, UNCHANGED z80Vars
  PROVE  Followed'
<1>1. /\ DiskTypeOK /\ fd \in Files /\ cfd \in Drives /\ op \in Ops /\ Req \in Request
      /\ t2op = op /\ Asked /\ ~Finished
  BY RequestOfCall
     DEF Followed, TypeOK, Timer2Serves, em_disk_start, em_disk_transfer, Finished
<1>2. /\ UNCHANGED <<cfd, int_level, dt_pos>> /\ UNCHANGED intVars /\ t2op' = op
  BY <1>1 DEF em_disk_start, em_disk_transfer
<1>3. CASE em_disk_start
  <2> DEFINE q == [Req EXCEPT !.state = "DOING"]
  <2>1. q \in Request /\ q.state = "DOING" /\ q.position = Req.position
    BY <1>1 DEF Request
  <2>2. fd' = WithRequest(fd, cfd, op, q)
    BY <1>1, <1>3 DEF em_disk_start, WithRequest, Req
  <2>3. /\ t2pc' = "transfer" /\ image' \in [Drives -> [Sectors -> Data]]
        /\ buffer' \in Data
    BY <1>1, <1>3 DEF em_disk_start, dataVars, DiskTypeOK
  <2> HIDE DEF q
  <2> QED
    BY <1>1, <1>2, <2>1, <2>2, <2>3, ServeFollowed
<1>4. CASE em_disk_transfer
  <2>1. Req.position \in Sectors /\ Req.state = "DOING"
    BY <1>1, <1>4 DEF Request, Followed, Timer2Serves, em_disk_transfer
  <2>2. PICK ok \in BOOLEAN :
          /\ fd' = [fd EXCEPT ![cfd][op].ok = ok]
          /\ buffer' = IF op = "read" /\ ok THEN image[cfd][Req.position] ELSE buffer
          /\ \/ (op = "read" \/ ~ok) /\ image' = image
             \/ op = "write" /\ image' = [image EXCEPT ![cfd][Req.position] = buffer]
    BY <1>1, <1>4 DEF em_disk_transfer, Req
  <2> DEFINE q == [Req EXCEPT !.ok = ok]
  <2>3. /\ q \in Request /\ q.state = "DOING" /\ q.position = Req.position
        /\ q.ok = ok
    BY <1>1, <2>1 DEF Request
  <2>4. fd' = WithRequest(fd, cfd, op, q)
    BY <2>2 DEF WithRequest, Req
  <2>5. image \in [Drives -> [Sectors -> Data]] /\ buffer \in Data
    BY <1>1 DEF DiskTypeOK
  <2>6. /\ image' \in [Drives -> [Sectors -> Data]] /\ buffer' \in Data
        /\ ok => buffer' = image'[cfd][Req.position]
    BY <1>1, <2>1, <2>2, <2>5 DEF Ops
  <2>7. t2pc' = "notify"
    BY <1>4 DEF em_disk_transfer
  <2> HIDE DEF q
  <2> QED
    BY <1>1, <1>2, <2>3, <2>4, <2>6, <2>7, ServeFollowed
<1> QED
  BY <1>3, <1>4

LEMMA NotifyFollowed ==
  ASSUME Followed, em_disk_notify, UNCHANGED z80Vars
  PROVE  Followed'
<1> DEFINE level == int_level[op]
<1>1. /\ DiskTypeOK /\ IntTypeOK /\ op \in Ops /\ TypeOK
      /\ t2op = op /\ Asked /\ ~Finished /\ t2pc = "notify"
  BY RequestOfCall DEF Followed, TypeOK, Timer2Serves, em_disk_notify, Finished
<1>2. /\ level \in {DSKRD, DSKWR, CONIN_INT, Disabled}
      /\ level # Disabled => Vector(level) = VectorOf(op)
  BY <1>1 DEF DiskTypeOK, Followed, LevelsSet
<1>3. /\ Notify(level) /\ t2pc' = "done" /\ t2op' = op
      /\ UNCHANGED <<devVars, dataVars, iff, serving, flag, pc, op, ret, crossed>>
  BY <1>1 DEF em_disk_notify, z80Vars
<1> HIDE DEF level
<1>4. /\ pending' \in Seq(FlaggedVectors) /\ Len(pending') < INT_QUEUE_SIZE
      /\ bus' = bus /\ refused' \in BOOLEAN
      /\ \A w : Kept(w)' => Kept(w) \/ (level # Disabled /\ w = Vector(level))
      /\ \A w : Once(w) /\ (Kept(w) => w # Vector(level)) => Once(w)'
  BY <1>1, <1>2, <1>3, NotifyPending
<1>5. /\ pc = "reset" \/ (pc = "wait" /\ ~flag[VectorOf(op)] /\ NoWakeUp)
      /\ ret \notin {"ok", "error"}
  BY <1>1, Unanswered
<1>6. Finished' /\ Req' = Req /\ Asked'
  BY <1>1, <1>3 DEF Finished, Req, Asked, InCall, devVars
<1>7. TypeOK'
  <2>1. IntTypeOK'
    BY <1>1, <1>3, <1>4, Zenon DEF IntTypeOK
  <2>2. DiskTypeOK'
    BY <1>1, <1>3 DEF DiskTypeOK, devVars, dataVars
  <2> QED
    BY <1>1, <1>3, <2>1, <2>2 DEF TypeOK
<1>8. LevelsSet' /\ OneRequest' /\ Timer2Serves'
  BY <1>1, <1>3, <1>6 DEF Followed, LevelsSet, OneRequest, Timer2Serves, devVars
<1>9. ASSUME pc = "reset"
      PROVE  OneWakeUp' /\ FlagIsAnswer' /\ PositionKept' /\ Transferred'
  BY <1>3, <1>9, DuringReset
<1>10. ASSUME pc = "wait"
       PROVE  OneWakeUp' /\ FlagIsAnswer' /\ PositionKept' /\ Transferred'
  <2>0. NoWakeUp /\ ~flag[VectorOf(op)] /\ InCall /\ InCall' /\ ~Restarting
    BY <1>3, <1>5, <1>10 DEF InCall, Restarting
  <2>1. ASSUME NEW o \in Ops
        PROVE  /\ Once(VectorOf(o))' /\ ~Delivering(VectorOf(o))'
               /\ Kept(VectorOf(o))' => o = op
    <3>0. Once(VectorOf(o)) /\ ~Kept(VectorOf(o)) /\ ~Delivering(VectorOf(o))
      BY <2>0 DEF NoWakeUp, Followed, OneWakeUp
    <3>1. Once(VectorOf(o))'
      BY <1>4, <3>0
    <3>2. ~Delivering(VectorOf(o))'
      BY <1>3, <1>4, <3>0 DEF Delivering
    <3>3. Kept(VectorOf(o))' => VectorOf(o) = VectorOf(op)
      BY <1>2, <1>4, <3>0
    <3> QED
      BY <1>1, <3>1, <3>2, <3>3, Vectors
  <2>2. pc' = "wait" /\ op' = op /\ ~flag'[VectorOf(op)]
    BY <1>3, <1>10, <2>0
  <2>3. OneWakeUp' /\ FlagIsAnswer'
    BY <1>6, <2>1, <2>2 DEF OneWakeUp, FlagIsAnswer
  <2>4. PositionKept' /\ Transferred'
    BY <1>1, <1>3, <1>6, <2>0 DEF Followed, PositionKept, Transferred, devVars, dataVars
  <2> QED  BY <2>3, <2>4
<1>11. Results'
  BY <1>3, <1>5 DEF Results, Returned, SuccessIsTransfer, ErrorIsReported
<1> QED
  BY <1>5, <1>7, <1>8, <1>9, <1>10, <1>11 DEF Followed, Results

LEMMA DoneFollowed ==
  ASSUME Followed, em_disk_done, UNCHANGED z80Vars
  PROVE  Followed'
<1> DEFINE q == [Req EXCEPT !.state = "IDLE"]
<1>1. /\ TypeOK /\ DiskTypeOK /\ fd \in Files /\ cfd \in Drives /\ op \in Ops
      /\ Req \in Request /\ t2op = op /\ Asked /\ Finished /\ t2pc = "done"
  BY RequestOfCall DEF Followed, TypeOK, Timer2Serves, em_disk_done, Finished
<1>2. /\ fd' = WithRequest(fd, cfd, op, q) /\ q \in Request
      /\ q.state = "IDLE" /\ q.position = Req.position /\ q.ok = Req.ok
  BY <1>1 DEF em_disk_done, WithRequest, Req, Request
<1>3. /\ t2pc' = "check" /\ t2op' \in Ops \cup {"none"}
      /\ UNCHANGED <<cfd, int_level, dt_pos, dataVars, intVars, pc, op, ret, crossed>>
  BY <1>1 DEF em_disk_done, NextOp, z80Vars, Ops
<1> HIDE DEF q
<1>4. /\ fd' \in Files /\ fd'[cfd][op] = q
      /\ \A c \in Drives, p \in Ops : c # cfd \/ p # op => fd'[c][p] = fd[c][p]
  BY <1>1, <1>2, SetRequest
<1>5. Req' = q /\ Asked' /\ Finished' /\ (InCall' <=> InCall) /\ (Restarting' <=> Restarting)
  BY <1>1, <1>2, <1>3, <1>4 DEF Req, Asked, InCall, Finished, Restarting, intVars
<1>6. TypeOK'
  <2>1. IntTypeOK'
    BY <1>1, <1>3 DEF TypeOK, IntTypeOK, intVars
  <2>2. DiskTypeOK'
    BY <1>1, <1>3, <1>4 DEF DiskTypeOK, Files, dataVars
  <2> QED
    BY <1>1, <1>3, <2>1, <2>2 DEF TypeOK
<1>7. LevelsSet' /\ OneRequest' /\ Timer2Serves'
  BY <1>1, <1>2, <1>3, <1>4, <1>5 DEF Followed, LevelsSet, OneRequest, Timer2Serves
<1>8. OneWakeUp' /\ FlagIsAnswer'
  BY <1>1, <1>3, <1>5
     DEF Followed, OneWakeUp, FlagIsAnswer, Kept, Once, Delivering, intVars
<1>9. PositionKept' /\ Transferred'
  BY <1>1, <1>2, <1>3, <1>5 DEF Followed, PositionKept, Transferred, dataVars
<1>10. Results'
  <2>1. ret \notin {"ok", "error"}
    BY <1>1 DEF Followed, Returned, Asked, InCall
  <2> QED
    BY <1>3, <2>1 DEF Results, Returned, SuccessIsTransfer, ErrorIsReported
<1> QED
  BY <1>6, <1>7, <1>8, <1>9, <1>10 DEF Followed, Results
-----------------------------------------------------------------------------
(* What stays whatever a reset has crossed: the steps one by one.          *)
PcValues == {"reset", "boot", "load", "position", "halt", "program", "selected",
             "ask", "wait", "status"}

LEMMA AlwaysFacts ==
  ASSUME Always
  PROVE  /\ TypeOK /\ IntTypeOK /\ DiskTypeOK /\ fd \in Files /\ cfd \in Drives
         /\ op \in Ops /\ t2op \in Ops \cup {"none"} /\ "none" \notin Ops
         /\ pc \in PcValues /\ iff \in BOOLEAN
BY RequestOfCall DEF Always, TypeOK, IntTypeOK, PcValues

(* A step of the main line leaves the queue and the handler as they are.   *)
LEMMA MainLineAlways ==
  ASSUME Always, DiskTypeOK', LevelsSet', UNCHANGED <<pending, bus, t2pc, t2op>>,
         iff' \in BOOLEAN, serving' \in {FALSE, serving}, refused' \in {FALSE, refused},
         flag' \in [FlaggedVectors -> BOOLEAN], pc' \in PcValues, op' \in Ops,
         ret' \in {"none", "ok", "error", "load"}, crossed' \in BOOLEAN,
         pc' = "reset" => ret' = "none"
  PROVE  Always'
<1>1. IntTypeOK'
  <2>1. IntTypeOK
    BY AlwaysFacts
  <2>2. serving' \in BOOLEAN /\ refused' \in BOOLEAN
    BY <2>1, Zenon DEF IntTypeOK
  <2> QED
    BY <2>1, <2>2, Zenon DEF IntTypeOK
<1>2. TypeOK'
  BY <1>1, Zenon DEF TypeOK, PcValues
<1>3. HandlerRests' /\ NothingReturned'
  BY DEF Always, HandlerRests, NothingReturned
<1> QED
  BY <1>2, <1>3 DEF Always

LEMMA RestartAlways ==
  ASSUME Always, Z80_RESET \/ EndReset \/ BOOT \/ WBOOT \/ ProgramDIEI
                 \/ WAIT_COMPLETE \/ CheckStatus
  PROVE  Always'
<1> USE DEF intVars, diskVars, devVars, dataVars, t2Vars, z80Vars
<1> DEFINE Step == Z80_RESET \/ EndReset \/ BOOT \/ WBOOT \/ ProgramDIEI
                   \/ WAIT_COMPLETE \/ CheckStatus
<1>1. /\ UNCHANGED <<pending, bus, flag, fd, cfd, dt_pos, image, buffer, t2pc, t2op, op>>
      /\ iff' \in BOOLEAN
  BY AlwaysFacts, Zenon DEF Z80_RESET, EndReset, BOOT, WBOOT, ProgramDIEI, WAIT_COMPLETE,
     CheckStatus, OUT_DSK_IntLevel
<1>2. serving' \in {FALSE, serving} /\ refused' \in {FALSE, refused}
  BY Zenon DEF Z80_RESET, EndReset, BOOT, WBOOT, ProgramDIEI, WAIT_COMPLETE, CheckStatus
<1>3. /\ pc' \in PcValues /\ ret' \in {"none", "ok", "error", "load"}
      /\ pc' = "reset" => ret' = "none"
  BY DEF Z80_RESET, EndReset, BOOT, WBOOT, ProgramDIEI, WAIT_COMPLETE, CheckStatus,
         PcValues, Always, TypeOK
<1>4. crossed' \in BOOLEAN
  <2>1. crossed \in BOOLEAN
    BY DEF Always, TypeOK
  <2> QED
    BY <2>1, Zenon
       DEF Z80_RESET, EndReset, BOOT, WBOOT, ProgramDIEI, WAIT_COMPLETE, CheckStatus
<1>5. int_level' = int_level \/ int_level' = [read |-> DSKRD, write |-> DSKWR]
  BY DEF Z80_RESET, EndReset, BOOT, WBOOT, ProgramDIEI, WAIT_COMPLETE, CheckStatus,
         OUT_DSK_IntLevel
<1>6. DiskTypeOK' /\ LevelsSet'
  <2>1. int_level' \in [Ops -> {DSKRD, DSKWR, Disabled}] /\ LevelsSet'
    BY <1>5, AlwaysFacts DEF DiskTypeOK, Always, LevelsSet, Ops, VectorOf
  <2> QED
    BY <1>1, <2>1, AlwaysFacts, Zenon DEF DiskTypeOK
<1>7. flag' \in [FlaggedVectors -> BOOLEAN] /\ op' \in Ops
  BY <1>1, AlwaysFacts, Zenon DEF IntTypeOK
<1> QED
  BY <1>1, <1>2, <1>3, <1>4, <1>6, <1>7, MainLineAlways

LEMMA CallAlways ==
  ASSUME Always, \/ LOAD_CCP_BDOS \/ (\E d \in Drives : SELDSK(d)) \/ SELDSK_check
                 \/ LOAD_position \/ (\E s \in Sectors : CallRead(s))
                 \/ (\E s \in Sectors, data \in Data : CallWrite(s, data))
                 \/ DISK_SUB
  PROVE  Always'
<1> USE DEF intVars, dataVars, t2Vars
<1>1. /\ UNCHANGED <<pending, bus, refused, serving, image, t2pc, t2op, crossed, int_level>>
      /\ op' \in Ops /\ pc' \in PcValues \ {"reset"}
      /\ ret' \in {"none", "load", ret} /\ (buffer' = buffer \/ buffer' \in Data)
  BY AlwaysFacts
     DEF LOAD_CCP_BDOS, SELDSK, SELDSK_check, LOAD_position, CallRead, CallWrite, DISK_SUB,
         OUT_0A_DSK_SelectDisk, OUT_DSK_Pos, OUT_start, PcValues, Ops
<1>2. iff' \in BOOLEAN
  BY AlwaysFacts, Zenon
     DEF LOAD_CCP_BDOS, SELDSK, SELDSK_check, LOAD_position, CallRead, CallWrite, DISK_SUB
<1>3. flag' \in [FlaggedVectors -> BOOLEAN]
  <2>1. \/ flag' = flag
        \/ flag' = [flag EXCEPT ![VectorOf(op)] = FALSE]
    BY DEF LOAD_CCP_BDOS, SELDSK, SELDSK_check, LOAD_position, CallRead, CallWrite, DISK_SUB,
           VectorOf
  <2> QED
    BY <2>1, AlwaysFacts, Zenon DEF IntTypeOK
<1>4. /\ fd' \in Files /\ cfd' \in Drives /\ dt_pos' \in [Ops -> Sectors]
  <2>0. dt_pos \in [Ops -> Sectors]
    BY AlwaysFacts DEF DiskTypeOK
  <2>1. CASE (\E d \in Drives : OUT_0A_DSK_SelectDisk(d)) \/ UNCHANGED <<fd, cfd, dt_pos>>
    BY <2>0, <2>1, AlwaysFacts, SelectFile
  <2>2. CASE (\E o \in Ops, s \in Sectors : OUT_DSK_Pos(o, s)) /\ UNCHANGED <<fd, cfd>>
    BY <2>0, <2>2, AlwaysFacts DEF OUT_DSK_Pos
  <2>3. CASE OUT_start(op)
    <3> DEFINE q == Requested(fd[cfd][op], fd[cfd][Other[op]], dt_pos[op])
    <3>1. fd[cfd][op] \in Request /\ dt_pos[op] \in Sectors
      BY <2>0, AlwaysFacts, FileType
    <3>2. q \in Request
      BY <3>1 DEF Requested, Request
    <3>3. fd' = WithRequest(fd, cfd, op, q) /\ UNCHANGED <<cfd, dt_pos>>
      BY <2>3 DEF OUT_start, WithRequest
    <3> HIDE DEF q
    <3> QED  BY <2>0, <3>2, <3>3, AlwaysFacts, SetRequest
  <2> QED
    BY <2>1, <2>2, <2>3, ZeroAssumption
       DEF LOAD_CCP_BDOS, SELDSK, SELDSK_check, LOAD_position, CallRead, CallWrite, DISK_SUB,
           Ops
<1>5. DiskTypeOK' /\ LevelsSet'
  <2>1. LevelsSet'
    BY <1>1 DEF Always, LevelsSet
  <2>2. buffer' \in Data
    BY <1>1, AlwaysFacts DEF DiskTypeOK
  <2> QED
    BY <1>1, <1>4, <2>1, <2>2, AlwaysFacts, Zenon DEF DiskTypeOK, Files
<1>6. ret' \in {"none", "ok", "error", "load"} /\ crossed' \in BOOLEAN /\ pc' # "reset"
  BY <1>1 DEF Always, TypeOK
<1> QED
  BY <1>1, <1>2, <1>3, <1>5, <1>6, MainLineAlways

LEMMA InterruptAlways ==
  ASSUME Always, Interrupts \/ OtherDevice
  PROVE  Always'
<1>1. AwayFromInterrupts
  BY DEF Interrupts, OtherDevice, AwayFromInterrupts
<1>2. IntTypeOK'
  <2>1. CASE Z80_acknowledge
    <3>1. /\ Queue!Take /\ serving' = TRUE /\ iff' = FALSE /\ UNCHANGED <<refused, flag>>
      BY <2>1 DEF Z80_acknowledge
    <3>2. /\ pending' \in Seq(FlaggedVectors) /\ Len(pending') < INT_QUEUE_SIZE
          /\ bus' \in FlaggedVectors
      BY <3>1, AlwaysFacts, TakePending
    <3> QED  BY <3>1, <3>2, AlwaysFacts, Zenon DEF IntTypeOK
  <2>2. CASE Z80_isr
    <3>1. /\ serving' = FALSE /\ iff' = TRUE /\ flag' = [flag EXCEPT ![bus] = TRUE]
          /\ UNCHANGED <<pending, bus, refused>>
      BY <2>2 DEF Z80_isr
    <3>2. flag' \in [FlaggedVectors -> BOOLEAN]
      BY <3>1, AlwaysFacts, Zenon DEF IntTypeOK
    <3> QED  BY <3>1, <3>2, AlwaysFacts, Zenon DEF IntTypeOK
  <2>3. CASE OtherDevice
    <3>1. Notify(CONIN_INT) /\ UNCHANGED <<iff, serving, flag>>
      BY <2>3 DEF OtherDevice
    <3>2. /\ pending' \in Seq(FlaggedVectors) /\ Len(pending') < INT_QUEUE_SIZE
          /\ bus' = bus /\ refused' \in BOOLEAN
      BY <3>1, AlwaysFacts, NotifyPending
    <3> QED  BY <3>1, <3>2, AlwaysFacts, Zenon DEF IntTypeOK
  <2> QED  BY <2>1, <2>2, <2>3 DEF Interrupts
<1> USE DEF AwayFromInterrupts, diskVars, devVars, dataVars, t2Vars, z80Vars
<1>3. DiskTypeOK'
  BY <1>1, AlwaysFacts DEF DiskTypeOK
<1>4. TypeOK'
  BY <1>1, <1>2, <1>3, Zenon DEF Always, TypeOK
<1>5. LevelsSet' /\ HandlerRests' /\ NothingReturned'
  BY <1>1 DEF Always, LevelsSet, HandlerRests, NothingReturned
<1> QED
  BY <1>4, <1>5 DEF Always

\* What a step of the handler may change.
LEMMA HandlerAlways ==
  ASSUME Always, UNCHANGED z80Vars, UNCHANGED <<cfd, int_level, dt_pos, iff, serving, flag>>,
         pending' \in Seq(FlaggedVectors), Len(pending') < INT_QUEUE_SIZE, bus' = bus,
         refused' \in BOOLEAN, fd' \in Files,
         image' \in [Drives -> [Sectors -> Data]], buffer' \in Data,
         t2op' \in Ops \cup {"none"}, t2op' = "none" => t2pc' = "check",
         t2pc' \in {"check", "start", "transfer", "notify", "done"}
  PROVE  Always'
<1>1. IntTypeOK'
  BY AlwaysFacts, Zenon DEF IntTypeOK
<1>2. DiskTypeOK'
  BY AlwaysFacts, Zenon DEF DiskTypeOK, Files
<1>3. TypeOK'
  BY <1>1, <1>2, Zenon DEF Always, TypeOK, z80Vars
<1>4. LevelsSet' /\ HandlerRests' /\ NothingReturned'
  BY DEF Always, LevelsSet, HandlerRests, NothingReturned, z80Vars
<1> QED
  BY <1>3, <1>4 DEF Always

LEMMA Timer2Always == ASSUME Always, Avr PROVE Always'
<1>1. UNCHANGED z80Vars /\ UNCHANGED <<cfd, int_level, dt_pos, iff, serving, flag>>
  BY DEF Avr, Timer2, TIMER2_COMP, em_disk_check, em_disk_start, em_disk_transfer,
         em_disk_notify, em_disk_done, devVars, intVars
<1>2. /\ pending \in Seq(FlaggedVectors) /\ Len(pending) < INT_QUEUE_SIZE
      /\ refused \in BOOLEAN /\ image \in [Drives -> [Sectors -> Data]] /\ buffer \in Data
  BY AlwaysFacts, Zenon DEF IntTypeOK, DiskTypeOK
<1>3. t2pc # "check" => t2op \in Ops
  BY AlwaysFacts DEF Always, HandlerRests
<1>4. CASE TIMER2_COMP
  BY <1>1, <1>2, <1>4, AlwaysFacts, HandlerAlways
     DEF TIMER2_COMP, devVars, dataVars, intVars, Ops
<1> DEFINE q == fd[cfd][t2op]
           level == int_level[t2op]
<1>5. t2op \in Ops => q \in Request /\ level \in {DSKRD, DSKWR, CONIN_INT, Disabled}
  BY AlwaysFacts, FileType DEF DiskTypeOK
<1>6. t2op \in Ops /\ Notify(level) =>
        /\ pending' \in Seq(FlaggedVectors) /\ Len(pending') < INT_QUEUE_SIZE
        /\ bus' = bus /\ refused' \in BOOLEAN
  <2> HIDE DEF level
  <2> QED  BY <1>5, AlwaysFacts, NotifyPending
<1>7. CASE em_disk_check
  <2>1. t2op \in Ops /\ t2pc = "check"
    BY <1>7, AlwaysFacts DEF em_disk_check
  <2>2. /\ UNCHANGED dataVars
        /\ (NextOp \/ (t2op' = t2op /\ t2pc' = "start"))
        /\ \/ UNCHANGED <<fd, pending, bus, refused>>
           \/ fd' = [fd EXCEPT ![cfd][t2op].state = "REJECTED"] /\ Notify(level)
    BY <1>7, Zenon DEF em_disk_check
  <2>3. fd' \in Files
    <3>1. CASE fd' = [fd EXCEPT ![cfd][t2op].state = "REJECTED"]
      <4> DEFINE p == [q EXCEPT !.state = "REJECTED"]
      <4>1. p \in Request /\ fd' = WithRequest(fd, cfd, t2op, p)
        BY <1>5, <2>1, <3>1 DEF Request, WithRequest
      <4> HIDE DEF p
      <4> QED  BY <2>1, <4>1, AlwaysFacts, SetRequest
    <3> QED  BY <2>2, <3>1, AlwaysFacts
  <2>4. /\ pending' \in Seq(FlaggedVectors) /\ Len(pending') < INT_QUEUE_SIZE
        /\ bus' = bus /\ refused' \in BOOLEAN
    <3> HIDE DEF level
    <3> QED  BY <1>2, <1>6, <2>1, <2>2
  <2>5. /\ t2op' \in Ops \cup {"none"} /\ (t2op' = "none" => t2pc' = "check")
        /\ t2pc' \in {"check", "start"}
    BY <2>1, <2>2, AlwaysFacts DEF NextOp, Ops
  <2> QED
    BY <1>1, <1>2, <2>2, <2>3, <2>4, <2>5, HandlerAlways DEF dataVars
<1>8. CASE em_disk_start
  <2>1. t2op \in Ops /\ t2op # "none"
    BY <1>3, <1>8, AlwaysFacts DEF em_disk_start
  <2> DEFINE p == [q EXCEPT !.state = "DOING"]
  <2>2. p \in Request /\ fd' = WithRequest(fd, cfd, t2op, p)
    BY <1>5, <1>8, <2>1 DEF em_disk_start, Request, WithRequest
  <2> HIDE DEF p
  <2>3. fd' \in Files
    BY <2>1, <2>2, AlwaysFacts, SetRequest
  <2> QED
    BY <1>1, <1>2, <1>8, <2>1, <2>3, HandlerAlways DEF em_disk_start, dataVars, intVars
<1>9. CASE em_disk_transfer
  <2>1. t2op \in Ops /\ t2op # "none"
    BY <1>3, <1>9, AlwaysFacts DEF em_disk_transfer
  <2>2. PICK ok \in BOOLEAN :
          /\ fd' = [fd EXCEPT ![cfd][t2op].ok = ok]
          /\ buffer' = IF t2op = "read" /\ ok THEN image[cfd][q.position] ELSE buffer
          /\ \/ image' = image
             \/ image' = [image EXCEPT ![cfd][q.position] = buffer]
    BY <1>9 DEF em_disk_transfer
  <2> DEFINE p == [q EXCEPT !.ok = ok]
  <2>3. p \in Request /\ fd' = WithRequest(fd, cfd, t2op, p) /\ q.position \in Sectors
    BY <1>5, <2>1, <2>2 DEF Request, WithRequest
  <2>4. image' \in [Drives -> [Sectors -> Data]] /\ buffer' \in Data
    <3> HIDE DEF q
    <3> QED  BY <1>2, <2>2, <2>3, AlwaysFacts
  <2> HIDE DEF p
  <2>5. fd' \in Files
    BY <2>1, <2>3, AlwaysFacts, SetRequest
  <2> QED
    BY <1>1, <1>2, <1>9, <2>1, <2>4, <2>5, HandlerAlways DEF em_disk_transfer, intVars
<1>10. CASE em_disk_notify
  <2>1. t2op \in Ops /\ t2op # "none" /\ Notify(level) /\ t2pc' = "done" /\ t2op' = t2op
        /\ UNCHANGED <<devVars, dataVars>>
    BY <1>3, <1>10, AlwaysFacts DEF em_disk_notify
  <2>2. /\ pending' \in Seq(FlaggedVectors) /\ Len(pending') < INT_QUEUE_SIZE
        /\ bus' = bus /\ refused' \in BOOLEAN
    <3> HIDE DEF level
    <3> QED  BY <1>6, <2>1
  <2> HIDE DEF level
  <2> QED
    BY <1>1, <1>2, <2>1, <2>2, AlwaysFacts, HandlerAlways DEF devVars, dataVars
<1>11. CASE em_disk_done
  <2>1. t2op \in Ops
    BY <1>3, <1>11 DEF em_disk_done
  <2> DEFINE p == [q EXCEPT !.state = "IDLE"]
  <2>2. p \in Request /\ fd' = WithRequest(fd, cfd, t2op, p)
    BY <1>5, <1>11, <2>1 DEF em_disk_done, Request, WithRequest
  <2> HIDE DEF p
  <2>3. fd' \in Files
    BY <2>1, <2>2, AlwaysFacts, SetRequest
  <2>4. t2op' \in Ops \cup {"none"} /\ t2pc' = "check"
    BY <1>11 DEF em_disk_done, NextOp, Ops
  <2> QED
    BY <1>1, <1>2, <1>11, <2>3, <2>4, HandlerAlways DEF em_disk_done, dataVars, intVars
<1> QED
  BY <1>4, <1>7, <1>8, <1>9, <1>10, <1>11 DEF Avr, Timer2
-----------------------------------------------------------------------------
LEMMA StepAlways == Always /\ [Next]_vars => Always'
<1> SUFFICES ASSUME Always, [Next]_vars
             PROVE  Always'
  OBVIOUS
<1>1. CASE Z80_RESET \/ EndReset \/ Program \/ Bios
  BY <1>1, RestartAlways, CallAlways DEF Program, Bios
<1>2. CASE Interrupts \/ OtherDevice
  BY <1>2, InterruptAlways
<1>3. CASE Avr
  BY <1>3, Timer2Always
<1>4. CASE UNCHANGED vars
  BY <1>4 DEF vars, intVars, diskVars, devVars, dataVars, t2Vars, Always, TypeOK, IntTypeOK,
              DiskTypeOK, LevelsSet, HandlerRests, NothingReturned
<1> QED
  BY <1>1, <1>2, <1>3, <1>4 DEF Next

\* Only the end of a reset decides anew whether a request was crossed.
LEMMA StepCrossed == [Next]_vars => EndReset \/ crossed' = crossed
BY Zenon
   DEF Next, Program, Bios, Interrupts, Avr, OtherDevice, vars, z80Vars, Z80_RESET, BOOT, WBOOT,
       LOAD_CCP_BDOS, LOAD_position, SELDSK, SELDSK_check, CallRead, CallWrite, DISK_SUB,
       WAIT_COMPLETE, CheckStatus, ProgramDIEI

LEMMA StepFollowed ==
  ASSUME Followed, [Next]_vars, ~EndReset
  PROVE  Followed'
<1>1. CASE Program
  BY <1>1, BootFollowed, SelectFollowed, SetUpFollowed DEF Program
<1>2. CASE Bios
  BY <1>2, BootFollowed, SelectFollowed, SetUpFollowed, AskFollowed, WaitFollowed,
     StatusFollowed DEF Bios
<1>3. CASE Z80_RESET
  BY <1>3, ResetFollowed
<1>4. CASE Interrupts
  BY <1>4, AcknowledgeFollowed, IsrFollowed DEF Interrupts, AwayFromInterrupts
<1>5. CASE OtherDevice
  BY <1>5, OtherDeviceFollowed
<1>6. CASE Avr
  BY <1>6, CheckFollowed, TransferFollowed, NotifyFollowed, DoneFollowed DEF Avr, Timer2
<1>7. CASE UNCHANGED vars
  BY <1>7 DEF vars, intVars, diskVars, devVars, dataVars, t2Vars, Followed, TypeOK, IntTypeOK,
              DiskTypeOK, LevelsSet, OneRequest, Timer2Serves, OneWakeUp, FlagIsAnswer,
              PositionKept, Transferred, Returned, SuccessIsTransfer, ErrorIsReported,
              Req, Asked, InCall, Restarting, Finished, Kept, Once, Delivering
<1> QED
  BY <1>1, <1>2, <1>3, <1>4, <1>5, <1>6, <1>7 DEF Next

LEMMA InitIInv == Init => IInv
<1> SUFFICES ASSUME Init
             PROVE  IInv
  OBVIOUS
<1>1. Followed
  BY InitFollowed
<1>2. HandlerRests /\ NothingReturned
  BY DEF Init, DiskInit, HandlerRests, NothingReturned
<1> QED
  BY <1>1, <1>2 DEF IInv, Always, Followed

LEMMA StepIInv == IInv /\ [Next]_vars => IInv'
<1> SUFFICES ASSUME IInv, [Next]_vars
             PROVE  IInv'
  OBVIOUS
<1>1. Always /\ Always'
  BY StepAlways DEF IInv
<1>2. CASE EndReset
  BY <1>1, <1>2, EndResetFollowed DEF IInv
<1>3. CASE ~EndReset
  BY <1>1, <1>3, StepCrossed, StepFollowed DEF IInv
<1> QED
  BY <1>2, <1>3

(* A request, its transfer, its wake-up and its status belong together in  *)
(* every behaviour, whatever else waits in the interrupt queue and wherever *)
(* a reset comes, unless the last reset has crossed a request.             *)
THEOREM Invariance == Safety => []IInv
BY InitIInv, StepIInv, PTL DEF Safety

(* A read that returns 0 has brought the sector asked for, a write that    *)
(* returns 0 has put the buffer on the card (DISK_READ_SUB,                *)
(* DISK_WRITE_SUB), unless the last reset has crossed a request.           *)
THEOREM SuccessMeansTransfer == Safety => []SuccessIsTransfer
<1>1. IInv => SuccessIsTransfer
  BY DEF IInv, Followed, SuccessIsTransfer
<1> QED
  BY <1>1, Invariance, PTL

(* A call returns an error exactly when its transfer failed, with the same *)
(* exception.                                                              *)
THEOREM ErrorsAreReported == Safety => []ErrorIsReported
<1>1. IInv => ErrorIsReported
  BY DEF IInv, Followed, ErrorIsReported
<1> QED
  BY <1>1, Invariance, PTL

(* The BIOS never asks while a request of either direction is under way,   *)
(* but after a reset that has left one behind.                             *)
THEOREM NoneRejected == Safety => []NeverRejected
<1>1. IInv => NeverRejected
  BY DEF IInv, Followed, OneRequest, NeverRejected
<1> QED
  BY <1>1, Invariance, PTL

(* SELDSK, which resets requests without looking, meets one that waits or  *)
(* is being served only when a reset of the Z80 left it behind; else only  *)
(* the end of its transfer ends a request.                                 *)
THEOREM SelectFindsIdle == Safety => SeldskFindsIdle
<1>1. IInv /\ [Next]_vars =>
        [\A d \in Drives, o \in Ops :
           Busy(fd[d][o]) /\ fd'[d][o].state = "IDLE" => t2pc = "done" \/ crossed]_fd
  <2> SUFFICES ASSUME IInv, [Next]_vars, fd' # fd, NEW d \in Drives, NEW o \in Ops,
                      Busy(fd[d][o]), fd'[d][o].state = "IDLE", ~crossed
               PROVE  t2pc = "done"
    OBVIOUS
  <2>0. Followed
    BY DEF IInv
  <2>1. Asked /\ d = cfd /\ o = op /\ Req.state \in {"REQUESTING", "DOING"}
    BY <2>0 DEF Followed, OneRequest, Busy, Req
  <2>2. /\ fd \in Files /\ cfd \in Drives /\ op \in Ops /\ Req \in Request
        /\ t2pc # "check" => t2op = op
    BY <2>0, RequestOfCall DEF Followed, Timer2Serves
  <2>3. TIMER2_COMP \/ em_disk_check \/ em_disk_start \/ em_disk_transfer \/ em_disk_done
    BY <2>1 DEF Next, Program, Bios, Interrupts, Avr, Timer2, OtherDevice, Asked, InCall, vars,
         diskVars, devVars, Z80_RESET, EndReset, BOOT, WBOOT, LOAD_CCP_BDOS, LOAD_position,
         SELDSK, SELDSK_check, CallRead, CallWrite, DISK_SUB, WAIT_COMPLETE, CheckStatus,
         ProgramDIEI, em_disk_notify
  <2>4. CASE em_disk_check
    <3>1. fd' = fd \/ (/\ t2op \in Ops /\ fd[cfd][t2op].state = "REQUESTING"
                      /\ Busy(fd[cfd][Other[t2op]]))
      <4>1. t2op \in Ops
        BY <2>4, <2>0, RequestOfCall DEF em_disk_check, Followed
      <4> QED
        BY <2>4, <4>1 DEF em_disk_check
    <3>2. Other[t2op] \in Ops /\ Other[t2op] # t2op
      BY <3>1 DEF Ops, Other
    <3> QED
      BY <2>0, <2>2, <3>1, <3>2 DEF Followed, OneRequest, Busy
  <2>5. CASE em_disk_start
    <3> DEFINE q == [Req EXCEPT !.state = "DOING"]
    <3>1. fd' = WithRequest(fd, cfd, op, q) /\ q \in Request /\ q.state = "DOING"
      BY <2>2, <2>5 DEF em_disk_start, WithRequest, Req, Request
    <3> HIDE DEF q
    <3> QED
      BY <2>1, <2>2, <3>1, SetRequest
  <2>6. CASE em_disk_transfer
    <3>1. PICK ok \in BOOLEAN : fd' = [fd EXCEPT ![cfd][op].ok = ok]
      BY <2>2, <2>6 DEF em_disk_transfer
    <3> DEFINE q == [Req EXCEPT !.ok = ok]
    <3>2. fd' = WithRequest(fd, cfd, op, q) /\ q \in Request /\ q.state = Req.state
      BY <2>2, <3>1 DEF WithRequest, Req, Request
    <3> HIDE DEF q
    <3> QED
      BY <2>1, <2>2, <3>2, SetRequest
  <2> QED
    BY <2>3, <2>4, <2>5, <2>6 DEF TIMER2_COMP, devVars, em_disk_done
<1> QED
  BY <1>1, Invariance, PTL DEF Safety, SeldskFindsIdle
=============================================================================
