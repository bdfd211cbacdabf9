--------------------------- MODULE FallThroughRam ---------------------------
(***************************************************************************)
(* The read side of transactor_if.vhd.  The receive RAM answers an address *)
(* one clock late, but the transactor wants the next word of the request   *)
(* on rx_data in every clock, and may ask for the next one (dnext) in any  *)
(* pattern.  The code runs the address ahead of the words, holds a word in *)
(* rxf, and takes the RAM's output past rxf when two are asked for in a    *)
(* row.  One action is one rising edge of ipb_clk.                         *)
(*                                                                         *)
(* A word is named by where it is: <<buffer, address>>.                    *)
(***************************************************************************)
EXTENDS Naturals

CONSTANTS
    Depth,      \* 2**addr_width
    Banks       \* the packet buffers

ASSUME FallThroughAssumption == Depth \in Nat \ {0}

VARIABLES
    dinit,      \* '0' while a packet is being read
    bank,       \* rx_read_buffer: the buffer that is read
    rdata,      \* the word on the output of the RAM
    raddr, dinit_d, dnext_d, dsel, rxf,
    begun,      \* the machine has left ST_IDLE, so it may ask for words
    popped      \* history: words asked for since dinit

ftVars == <<dinit, bank, rdata, raddr, dinit_d, dnext_d, dsel, rxf, begun, popped>>

\* unsigned(addr_width - 1 downto 0): the address wraps.
NextAddr(a) == IF a = Depth - 1 THEN 0 ELSE a + 1

rxd == IF dsel THEN rdata ELSE rxf

Dsel(dnext) == dsel' = (dnext /\ dnext_d)

\* Mutated form: rxf is not loaded the clock after a word was asked for.
RxfOnce(dnext) == rxf' = IF dinit \/ dinit_d \/ dnext THEN rdata ELSE rxf

Rxf(dnext) == rxf' = IF dinit \/ dinit_d \/ dnext \/ dnext_d THEN rdata ELSE rxf

Raddr(dnext) ==
    raddr' = IF dinit THEN 0
             ELSE IF dnext \/ dinit_d THEN NextAddr(raddr)
             ELSE raddr

\* The RAM itself: a registered output.
Ram == rdata' = <<bank, IF dinit THEN 0 ELSE raddr>>

\* ST_IDLE is left after two clocks of start, which is not dinit.
LeaveIdle == begun' = (~dinit /\ (begun \/ ~dinit_d))

\* The buffer changes only while no packet is being read, and has settled a clock
\* before the next one is (pkt_rdy is held back in udp_clock_crossing_if.vhd).
Offer ==
    /\ dinit' \in BOOLEAN
    /\ bank' \in Banks
    /\ (dinit /\ dinit') \/ bank' = bank

FtInit ==
    /\ dinit = TRUE /\ dinit_d = TRUE /\ dnext_d = FALSE /\ dsel = FALSE
    /\ bank \in Banks /\ raddr = 0 /\ rdata = <<bank, 0>> /\ rxf = <<bank, 0>>
    /\ begun = FALSE /\ popped = 0

FtClock(dnext) ==
    /\ Raddr(dnext) /\ Dsel(dnext) /\ Rxf(dnext) /\ Ram
    /\ dinit_d' = dinit
    /\ dnext_d' = dnext
    /\ LeaveIdle
    /\ popped' = IF dinit THEN 0 ELSE IF dnext THEN NextAddr(popped) ELSE popped

\* What the read side is promised: Offer by the clock crossing, and that words
\* are asked for only by a machine that has left ST_IDLE.
FtEdge(dnext) ==
    /\ dnext => (begun /\ ~dinit)
    /\ Offer
    /\ FtClock(dnext)

FtNext == \E dnext \in BOOLEAN : FtEdge(dnext)

FtSpec == FtInit /\ [][FtNext]_ftVars

-----------------------------------------------------------------------------
Words == Banks \X (0 .. Depth - 1)

FtTypeOK ==
    /\ dinit \in BOOLEAN /\ dinit_d \in BOOLEAN /\ dnext_d \in BOOLEAN
    /\ dsel \in BOOLEAN /\ begun \in BOOLEAN
    /\ bank \in Banks
    /\ rdata \in Words /\ rxf \in Words
    /\ raddr \in 0 .. Depth - 1 /\ popped \in 0 .. Depth - 1

\* From the clock start_d rises, the word on rx_data is the one after those asked
\* for, of the packet now read, whatever the pattern of the asking: none is
\* skipped, repeated, or left over from the buffer read before.
ShowsNextWord == (~dinit /\ ~dinit_d) => rxd = <<bank, popped>>

\* What makes it so: where the address and the RAM stand, ahead of the words.
AheadOfWords ==
    /\ dsel => dnext_d
    /\ dnext_d => (begun \/ dinit_d)
    /\ (~dinit /\ dinit_d) =>
         raddr = 0 /\ rdata = <<bank, 0>> /\ popped = 0 /\ ~dnext_d /\ ~begun
    /\ (~dinit /\ ~dinit_d) =>
         /\ raddr = NextAddr(popped)
         /\ rdata = <<bank, IF dnext_d \/ ~begun THEN popped ELSE NextAddr(popped)>>

FtInv == FtTypeOK /\ ShowsNextWord /\ AheadOfWords

=============================================================================
