----------------------------- MODULE MCBiosDisk -----------------------------
(* Drives and sectors are numbers; 0 is drive A: and the first sector.      *)
EXTENDS BiosDisk, Ports
OneDrive == {0}
TwoDrives == {0, 1}
OneSector == {0}
TwoSectors == {0, 1}
\* Bound: after a reset that crossed a request, only transfers that succeed on
\* files that are there are followed.
CrossedSucceeds ==
  crossed => \A d \in Drives : fd[d].open /\ fd[d].read.ok /\ fd[d].write.ok

(* The ports.                                                               *)
\* The BIOS finds behind each number the device it means.
ASSUME PortsFit ==
  /\ \A n \in BiosIn : InHandler[BiosPort[n]] = n
  /\ \A n \in BiosOut : OutHandler[BiosPort[n]] = n

Sampled == {0, 1, 127, 128, 255}
\* Whatever a transfer that was given up half-way has left in a sequencer, the
\* set-up of the next arrives whole and leaves the other ports as they were.
ASSUME SetUpArrives ==
  \A dir \in {"read", "write"}, e \in Sampled, h \in {0, 1, 254}, l \in {0, 3, 252, 255},
     before \in {<<>>, <<7>>, <<7, 8, 9>>} :
    LET old == FoldLeft(LAMBDA t, b : INT1(INT1(t, 11, b), 18, b), PowerUp, before)
        s == SetUp(old, dir, e, h, l, <<249, 64>>, <<2, 0>>)
        mine == IF dir = "read" THEN <<"DSKRDPOS", "DSKRDBUF", "DSKRDLEN">>
                               ELSE <<"DSKWRPOS", "DSKWRBUF", "DSKWRLEN">>
        pos == s.seq[mine[1]].dt
    IN  /\ ((pos[1] * 256 + pos[2]) * 256 + pos[3]) * 256 + pos[4] = ByteOf(e, h, l)
        /\ s.seq[mine[2]].dt = <<249, 64>> /\ s.seq[mine[3]].dt = <<2, 0>>
        /\ [s EXCEPT !.seq = old.seq] = old
        /\ \A n \in DOMAIN Sequencers : n \notin ToSet(mine) => s.seq[n] = old.seq[n]

\* A level set is the level read, at every image of the port, and no other
\* port changes it; the LED port keeps the inputs beside the LEDs.
ASSUME PortsReadBack ==
  \A d \in Sampled, p \in 0 .. 255 :
    LET s == INT1(PowerUp, p, d)
        n == OutHandler[p % PORT_MAX]
    IN  /\ n \in Levels => INT0(s, p).data = d
        /\ \A q \in 0 .. PORT_MAX - 1 :
             INT0(s, q).data # INT0(PowerUp, q).data => q = p % PORT_MAX
        /\ \A e \in {0, 21, 255} : (OUT_1F_LED_Set(e, d) % 32) = e % 32
                                   /\ IN_1F_LED_Get(OUT_1F_LED_Set(e, d)) = d % 8
=============================================================================
