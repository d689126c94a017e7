------------------------------ MODULE UsbState ------------------------------
(***************************************************************************)
(* The state of the direct-USB backend of the C232HD, UsbTransport and     *)
(* UsbRx of src/uart/c232/usb.rs, over one session.                        *)
(*                                                                         *)
(* The USB stack and the device are environment.  A byte is its number in  *)
(* the order the device sent it; a packet is its newly arrived bytes and   *)
(* the set of line-status bits raised in its header.                       *)
(***************************************************************************)
EXTENDS Integers, Sequences, FiniteSets, SequencesExt

CONSTANTS
    Transfers,       \* USB_TRANSFER_COUNT
    Capacity,        \* output.len() of one read
    Packets,         \* the packets the device may send, each [line, size]
    MaxPackets,      \* bound: packets in one transfer
    MaxSent,         \* bound: transfers the device fills in one session
    AttachTries,     \* attempts of Drop to attach the kernel driver
    Faults           \* which failures of the environment may happen

LineBits == {"oe", "pe", "fe", "bi"}

ASSUME CountAssumption  == /\ Transfers \in Nat \ {0} /\ Capacity \in Nat \ {0}
                           /\ MaxPackets \in Nat \ {0} /\ MaxSent \in Nat
                           /\ AttachTries \in Nat \ {0}
ASSUME PacketAssumption == Packets \subseteq [line : SUBSET LineBits, size : Nat]
ASSUME FaultAssumption  == Faults \subseteq {"detach", "attach", "setup", "status", "short"}

VARIABLES
    life,          \* where open and Drop are
    driver,        \* the kernel driver is "bound" to the interface or "unbound"
    claimed,       \* the interface is claimed by this process
    tries,         \* refused attempts of Drop to attach the driver
    reader,        \* program counter of the RX worker
    canceller,     \* program counter of the coordinator's shutdown
    stop,          \* the session's flag, set before the transport is cancelled
    cancelled,     \* UsbTransport.cancelled
    queued,        \* IN transfers submitted and not yet completed
    completions,   \* completed IN transfers, each [packets, status, short]
    payload,       \* pending_payload
    lastLine,      \* last_line_status
    rxErrors, rxOverflow,
    \* history
    sent,          \* transfers the device has filled
    produced,      \* bytes the device has sent
    delivered,     \* bytes handed to the session, in order
    seen,          \* the headers parsed, in order
    failures,      \* the kinds of failure reads have returned
    broken,        \* what the device really did wrong
    found, refused \* the driver before open; an attach has been refused

lifeVars == <<life, driver, claimed, tries, found, refused>>
rxVars   == <<payload, lastLine, rxErrors, rxOverflow, delivered, seen, failures>>
wireVars == <<sent, produced, broken>>
vars     == <<lifeVars, reader, canceller, stop, cancelled, queued, completions,
              rxVars, wireVars>>

\* No header seen yet: nothing counts as newly raised.
NoLine == LineBits

=============================================================================
