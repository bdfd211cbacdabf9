------------------------------- MODULE TxMux -------------------------------
(***************************************************************************)
(* The transmit multiplexer, udp_tx_mux.vhd, with the shim in front of it, *)
(* udp_rxram_shim.vhd.  It sends packets from two RAMs over one MAC: the   *)
(* internal RAM (replies to ARP, RARP, ping and status requests) and the   *)
(* transactor's RAM (IPbus replies).  Each RAM has a buffer selector of    *)
(* its own that knows of the multiplexer only the pulses it exchanges:     *)
(* send towards it, sent back when its busy flag falls.                    *)
(*                                                                         *)
(* One action is one rising edge of mac_clk.  An address within a packet   *)
(* is the number of steps the packet takes to be sent; checksums and the   *)
(* rewriting of header bytes are left out.                                 *)
(***************************************************************************)
EXTENDS Naturals

CONSTANTS
    NInt,           \* 2**INTERNALWIDTH, buffers of the internal RAM
    IntLengths,     \* last addresses of the packets of the internal RAM
    UdpEnd          \* last address of an IPbus reply

ASSUME MuxAssumption == /\ NInt \in Nat \ {0}
                        /\ IntLengths \subseteq Nat
                        /\ UdpEnd \in Nat

VARIABLES
    state,              \* of state_machine, 0 .. 7
    addr,               \* addr_sig: how far the packet has been sent
    end_addr,           \* where it ends
    mac_tx_valid,       \* a byte is offered to the MAC
    rxram_active,       \* the packet comes from the internal RAM
    udpram_active,      \* the packet comes from the transactor's RAM
    last_rxram_active,
    last_udpram_active,
    rxram_busy,         \* the internal RAM's packet is waiting or being sent
    udpram_busy,        \* the transactor's packet is
    rxram_end_addr,     \* the length that came with rxram_send
    end_address_buf,    \* shim: the length of the packet in each buffer
    rxram_send_x,       \* shim: the delayed send pulse, and the length with it
    rxram_end_addr_x,
    rxram_sent,         \* shim: pulse, rxram_busy has fallen
    last_rxram_busy

smVars   == <<state, addr, end_addr, mac_tx_valid, rxram_active, udpram_active>>
flagVars == <<last_rxram_active, last_udpram_active, rxram_busy, udpram_busy,
              rxram_end_addr>>
shimVars == <<end_address_buf, rxram_send_x, rxram_end_addr_x, rxram_sent,
              last_rxram_busy>>
muxVars  == <<smVars, flagVars, shimVars>>

Ends == IntLengths \cup {0, UdpEnd}

MuxTypeOK ==
    /\ state \in 0 .. 7
    /\ end_addr \in Ends
    /\ \E m \in Ends : addr \in 0 .. m
    /\ {mac_tx_valid, rxram_active, udpram_active, last_rxram_active,
        last_udpram_active, rxram_busy, udpram_busy, rxram_send_x, rxram_sent,
        last_rxram_busy} \subseteq BOOLEAN
    /\ rxram_end_addr \in Ends
    /\ rxram_end_addr_x \in Ends
    /\ end_address_buf \in [0 .. NInt - 1 -> Ends]

MuxInit ==
    /\ state = 0 /\ addr = 0 /\ end_addr = 0
    /\ mac_tx_valid = FALSE
    /\ rxram_active = FALSE /\ udpram_active = FALSE
    /\ last_rxram_active = FALSE /\ last_udpram_active = FALSE
    /\ rxram_busy = FALSE /\ udpram_busy = FALSE
    /\ rxram_end_addr = 0
    /\ end_address_buf = [b \in 0 .. NInt - 1 |-> 0]
    /\ rxram_send_x = FALSE /\ rxram_end_addr_x = 0
    /\ rxram_sent = FALSE /\ last_rxram_busy = FALSE

-----------------------------------------------------------------------------
\* mac_tx_ready_sig: the MAC takes the byte offered.
taken(mac_tx_ready) == mac_tx_ready /\ mac_tx_valid

\* rx_event and udp_event: a flag is raised by its send pulse and falls when
\* the packet's last byte but one has gone.
Falls(last_active, active) == last_active /\ ~active

EventFlag(flag, send, last_active, active) ==
    send \/ (flag /\ ~Falls(last_active, active))

rx_event ==
    /\ rxram_busy' = EventFlag(rxram_busy, rxram_send_x, last_rxram_active, rxram_active)
    /\ rxram_end_addr' = IF rxram_send_x THEN rxram_end_addr_x
                         ELSE IF Falls(last_rxram_active, rxram_active) THEN 0
                         ELSE rxram_end_addr
    /\ last_rxram_active' = rxram_active

\* Mutated form: the flag falls only once the multiplexer is back in state 1.
udp_event_late(udpram_send) ==
    /\ udpram_busy' = IF udpram_send THEN TRUE
                      ELSE udpram_busy /\ ~(state = 1 /\ ~udpram_active
                                            /\ last_udpram_active)
    /\ last_udpram_active' = (udpram_active \/ (last_udpram_active /\ state # 1))

udp_event(udpram_send) ==
    /\ udpram_busy' = EventFlag(udpram_busy, udpram_send, last_udpram_active, udpram_active)
    /\ last_udpram_active' = udpram_active

\* state_machine, one disjunct for a state.
Reset0 ==
    /\ state = 0 /\ state' = 1
    /\ rxram_active' = FALSE /\ udpram_active' = FALSE
    /\ mac_tx_valid' = FALSE
    /\ addr' = 0
    /\ UNCHANGED end_addr

Choose ==
    /\ state = 1
    /\ rxram_active' = rxram_busy
    /\ udpram_active' = (udpram_busy /\ ~rxram_busy)
    /\ end_addr' = IF rxram_busy THEN rxram_end_addr ELSE end_addr
    /\ state' = IF rxram_busy THEN 3 ELSE IF udpram_busy THEN 2 ELSE 1
    /\ UNCHANGED <<addr, mac_tx_valid>>

\* States 2, 3 and 4: the length is read and the first bytes are prefetched.
Prefetch ==
    /\ state \in 2 .. 4 /\ state' = state + 1
    /\ UNCHANGED <<addr, end_addr, mac_tx_valid, rxram_active, udpram_active>>

Stream(mac_tx_ready) ==
    LET end == IF udpram_active THEN UdpEnd ELSE end_addr
    IN  /\ state = 5
        /\ end_addr' = end
        /\ mac_tx_valid' = TRUE
        /\ addr' = IF ~taken(mac_tx_ready) THEN addr
                   ELSE IF addr = end THEN 0 ELSE addr + 1
        /\ state' = IF taken(mac_tx_ready) /\ addr = end THEN 6 ELSE 5
        /\ UNCHANGED <<rxram_active, udpram_active>>

LastButOne(mac_tx_ready) ==
    /\ state = 6
    /\ IF taken(mac_tx_ready)
       THEN state' = 7 /\ rxram_active' = FALSE /\ udpram_active' = FALSE
       ELSE UNCHANGED <<state, rxram_active, udpram_active>>
    /\ UNCHANGED <<addr, end_addr, mac_tx_valid>>

LastByte(mac_tx_ready) ==
    /\ state = 7
    /\ IF taken(mac_tx_ready)
       THEN state' = 0 /\ mac_tx_valid' = FALSE
       ELSE UNCHANGED <<state, mac_tx_valid>>
    /\ UNCHANGED <<addr, end_addr, rxram_active, udpram_active>>

state_machine(mac_tx_ready) ==
    \/ Reset0
    \/ Choose
    \/ Prefetch
    \/ Stream(mac_tx_ready)
    \/ LastButOne(mac_tx_ready)
    \/ LastByte(mac_tx_ready)

\* The shim: it keeps the length of each packet completed in the internal RAM,
\* and passes the selector's pulses on a clock later.
input_block(write_buf, written, length) ==
    end_address_buf' = IF written THEN [end_address_buf EXCEPT ![write_buf] = length]
                       ELSE end_address_buf

output_block(req_send, send_buf) ==
    /\ rxram_send_x' = req_send
    /\ rxram_end_addr_x' = IF req_send THEN end_address_buf[send_buf] ELSE 0

busy_block ==
    /\ rxram_sent' = (last_rxram_busy /\ ~rxram_busy)
    /\ last_rxram_busy' = rxram_busy

=============================================================================
