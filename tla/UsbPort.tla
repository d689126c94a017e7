------------------------------ MODULE UsbPort ------------------------------
(***************************************************************************)
(* One session on the direct-USB backend: the kernel driver is detached    *)
(* and the interface claimed, the RX worker reads through a queue of bulk  *)
(* transfers whose packets carry a status header, the coordinator cancels, *)
(* and Drop gives the interface back to the driver.                        *)
(***************************************************************************)
EXTENDS UsbState

Init ==
    /\ life = "detach" /\ driver \in {"bound", "unbound"} /\ found = driver
    /\ claimed = FALSE /\ tries = 0 /\ refused = FALSE
    /\ reader = "loop" /\ canceller = "idle" /\ stop = FALSE /\ cancelled = FALSE
    /\ queued = 0 /\ completions = <<>>
    /\ payload = <<>> /\ lastLine = NoLine /\ rxErrors = 0 /\ rxOverflow = 0
    /\ sent = 0 /\ produced = 0 /\ delivered = <<>> /\ seen = <<>>
    /\ failures = {} /\ broken = {}

-----------------------------------------------------------------------------
(* open *)

\* detach_kernel_driver: NotFound means that no driver is bound.
Detach ==
    /\ life = "detach"
    /\ \/ driver = "bound" /\ driver' = "unbound" /\ life' = "setup"
       \/ driver = "unbound" /\ life' = "reattach" /\ UNCHANGED driver
       \/ "detach" \in Faults /\ life' = "failed" /\ UNCHANGED driver
    /\ UNCHANGED <<claimed, tries, found, refused, reader, canceller, stop, cancelled,
                   queued, completions, rxVars, wireVars>>

\* An unbound driver is bound, then detached like one that was.
Reattach ==
    /\ \/ /\ life = "reattach"
          /\ \/ driver' = "bound" /\ life' = "redetach" /\ UNCHANGED refused
             \/ /\ "attach" \in Faults /\ refused' = TRUE
                /\ life' = "failed" /\ UNCHANGED driver
       \/ /\ life = "redetach" /\ UNCHANGED refused
          /\ \/ driver' = "unbound" /\ life' = "setup"
             \/ "detach" \in Faults /\ life' = "failed" /\ UNCHANGED driver
    /\ UNCHANGED <<claimed, tries, found, reader, canceller, stop, cancelled,
                   queued, completions, rxVars, wireVars>>

\* Claim, configure and fill the read queue; a failure leaves the closure,
\* which releases the interface.
Setup ==
    /\ life = "setup"
    /\ \/ life' = "open" /\ claimed' = TRUE /\ queued' = Transfers
       \/ "setup" \in Faults /\ life' = "abort" /\ UNCHANGED <<claimed, queued>>
    /\ UNCHANGED <<driver, tries, found, refused, reader, canceller, stop, cancelled,
                   completions, rxVars, wireVars>>

\* Mutant: the error is returned without giving the driver back.
AbortForgets ==
    /\ life = "abort" /\ life' = "failed"
    /\ UNCHANGED <<driver, claimed, tries, found, refused, reader, canceller, stop,
                   cancelled, queued, completions, rxVars, wireVars>>

\* One attempt to attach, its result ignored.
Abort ==
    /\ life = "abort" /\ life' = "failed"
    /\ \/ driver' = "bound" /\ UNCHANGED refused
       \/ "attach" \in Faults /\ refused' = TRUE /\ UNCHANGED driver
    /\ UNCHANGED <<claimed, tries, found, reader, canceller, stop, cancelled,
                   queued, completions, rxVars, wireVars>>

-----------------------------------------------------------------------------
(* The device fills the oldest queued transfer. *)

\* How many bytes the device has sent before packets ps and after each of them.
Offset(ps) ==
    LET offset[i \in 0 .. Len(ps)] ==
            IF i = 0 THEN produced ELSE offset[i - 1] + ps[i].size
    IN  offset

\* The bytes of packets ps, numbered from the next one on.
Numbered(ps) ==
    [i \in 1 .. Len(ps) |->
        [line  |-> ps[i].line,
         bytes |-> [j \in 1 .. ps[i].size |-> Offset(ps)[i - 1] + j]]]

Fill(ps) == /\ sent < MaxSent /\ sent' = sent + 1
            /\ produced' = Offset(ps)[Len(ps)]

\* A transfer ends well, or with an error status, or inside a status header.
DeviceFills ==
    /\ life = "open" /\ queued > 0
    /\ \E n \in 1 .. MaxPackets : \E ps \in [1 .. n -> Packets] :
       \E fault \in {"none"} \cup (Faults \cap {"status", "short"}) :
          /\ Fill(ps)
          /\ completions' = Append(completions,
                [packets |-> Numbered(ps), short |-> fault = "short",
                 status |-> IF fault = "status" THEN "failed" ELSE "ok"])
          /\ broken' = broken \cup ({fault} \ {"none"})
    /\ queued' = queued - 1
    /\ UNCHANGED <<lifeVars, reader, canceller, stop, cancelled, rxVars>>

-----------------------------------------------------------------------------
(* The RX worker: rx_worker's loop, UsbTransport::read and UsbRx::read. *)

\* The worker tests the session's flag, then read tests the transport's.
ReadCheck ==
    /\ life = "open"
    /\ \/ reader = "loop" /\ stop /\ reader' = "done" /\ UNCHANGED failures
       \/ reader = "loop" /\ ~stop /\ reader' = "call" /\ UNCHANGED failures
       \/ reader = "call" /\ ~cancelled /\ reader' = "checked" /\ UNCHANGED failures
       \/ /\ reader = "call" /\ cancelled /\ reader' = "loop"
          /\ failures' = failures \cup {"timed_out"}
    /\ UNCHANGED <<lifeVars, canceller, stop, cancelled, queued, completions, payload,
                   lastLine, rxErrors, rxOverflow, delivered, seen, wireVars>>

\* The read lock is held from here to the end of read.
ReadLock ==
    /\ reader = "checked" /\ reader' = "locked"
    /\ UNCHANGED <<lifeVars, canceller, stop, cancelled, queued, completions, rxVars, wireVars>>

\* Mutant: what does not fit the caller's buffer is lost.
HandOverTruncates(bytes) ==
    /\ delivered' = delivered \o SubSeq(bytes, 1, IF Len(bytes) < Capacity
                                                  THEN Len(bytes) ELSE Capacity)
    /\ payload' = <<>>

\* Hand over what fits of bytes, and keep the rest.
HandOver(bytes) ==
    LET count == IF Len(bytes) < Capacity THEN Len(bytes) ELSE Capacity
    IN  /\ delivered' = delivered \o SubSeq(bytes, 1, count)
        /\ payload' = SubSeq(bytes, count + 1, Len(bytes))

\* Bytes kept by an earlier read come first.
ReadPending ==
    /\ reader = "locked" /\ payload # <<>>
    /\ HandOver(payload) /\ reader' = "loop"
    /\ UNCHANGED <<lifeVars, canceller, stop, cancelled, queued, completions,
                   lastLine, rxErrors, rxOverflow, seen, failures, wireVars>>

\* Mutant: no bound on the wait, which holds the read lock.
ReadTimeoutForever ==
    reader = "locked" /\ payload = <<>> /\ completions = <<>> /\ UNCHANGED vars

\* Nothing completes within IO_TIMEOUT.
ReadTimeout ==
    /\ reader = "locked" /\ payload = <<>> /\ completions = <<>>
    /\ failures' = failures \cup {"timed_out"} /\ reader' = "loop"
    /\ UNCHANGED <<lifeVars, canceller, stop, cancelled, queued, completions, payload,
                   lastLine, rxErrors, rxOverflow, delivered, seen, wireVars>>

\* Mutant: every transfer is compared with a clear line, as the test's wrapper does.
RaisedInTransfer(packets, i) ==
    packets[i].line \ (IF i = 1 THEN {} ELSE packets[i - 1].line)

\* strip_ftdi_status_from: the packets' bits that were not set in the header
\* before, the payload, and the header to compare the next transfer with.
Raised(packets, i) ==
    packets[i].line \ (IF i = 1 THEN lastLine ELSE packets[i - 1].line)
Count(packets, bits) ==
    Cardinality({i \in 1 .. Len(packets) : Raised(packets, i) \cap bits # {}})
Stripped(packets) == FlattenSeq([i \in 1 .. Len(packets) |-> packets[i].bytes])
LineAfter(packets) == IF packets = <<>> THEN lastLine ELSE Last(packets).line

\* Mutant: a malformed transfer returns before it is resubmitted.
ResubmitGood(transfer) == queued' = IF transfer.short THEN queued ELSE queued + 1

\* The buffer goes back to the queue, whatever was in it.
Resubmit(transfer) == queued' = queued + 1

\* The oldest completed transfer is resubmitted before it is looked at; its
\* payload is kept even when its status is an error, its counters are not.
ReadCompletion ==
    LET transfer == Head(completions)
    IN  /\ reader = "locked" /\ payload = <<>> /\ completions # <<>>
        /\ completions' = Tail(completions) /\ Resubmit(transfer)
        /\ IF transfer.short
           THEN /\ failures' = failures \cup {"protocol"} /\ reader' = "done"
                /\ UNCHANGED <<delivered, payload, lastLine, rxErrors, rxOverflow, seen>>
           ELSE /\ HandOver(Stripped(transfer.packets))
                /\ lastLine' = LineAfter(transfer.packets)
                /\ seen' = seen \o [i \in 1 .. Len(transfer.packets) |->
                                       transfer.packets[i].line]
                /\ IF transfer.status # "ok"
                   THEN /\ failures' = failures \cup {"access"} /\ reader' = "done"
                        /\ UNCHANGED <<rxErrors, rxOverflow>>
                   ELSE /\ reader' = "loop" /\ UNCHANGED failures
                        /\ rxOverflow' = rxOverflow + Count(transfer.packets, {"oe"})
                        /\ rxErrors' = rxErrors
                               + Count(transfer.packets, {"pe", "fe", "bi"})
        /\ UNCHANGED <<lifeVars, canceller, stop, cancelled, wireVars>>

Reader == ReadCheck \/ ReadLock \/ ReadPending \/ ReadTimeout \/ ReadCompletion

-----------------------------------------------------------------------------
(* The coordinator's shutdown and UsbTransport::cancel. *)

\* The session's flag, then the transport's.
CancelFlag ==
    /\ life = "open"
    /\ \/ canceller = "idle" /\ stop' = TRUE /\ canceller' = "store" /\ UNCHANGED cancelled
       \/ canceller = "store" /\ cancelled' = TRUE /\ canceller' = "lock" /\ UNCHANGED stop
    /\ UNCHANGED <<lifeVars, reader, queued, completions, rxVars, wireVars>>

\* cancel_all under the read lock: every queued transfer completes as
\* cancelled, the oldest perhaps with data.
CancelAll ==
    LET Empty == [packets |-> <<>>, short |-> FALSE, status |-> "cancelled"]
    IN  /\ canceller = "lock" /\ reader # "locked"
        /\ canceller' = "done" /\ queued' = 0
        /\ \/ /\ completions' = completions \o [i \in 1 .. queued |-> Empty]
              /\ UNCHANGED <<sent, produced>>
           \/ /\ queued > 0
              /\ \E p \in Packets :
                    /\ Fill(<<p>>)
                    /\ completions' = completions \o [i \in 1 .. queued |->
                          IF i = 1 THEN [Empty EXCEPT !.packets = Numbered(<<p>>)] ELSE Empty]
        /\ UNCHANGED <<lifeVars, reader, stop, cancelled, rxVars, broken>>

-----------------------------------------------------------------------------
(* Drop, once the session has returned. *)

\* Both queues are cancelled and emptied, then the interface is released.
Release ==
    /\ life = "open" /\ reader = "done" /\ canceller \in {"idle", "done"}
    /\ life' = "restore" /\ claimed' = FALSE
    /\ queued' = 0 /\ completions' = <<>>
    /\ UNCHANGED <<driver, tries, found, refused, reader, canceller, stop, cancelled,
                   rxVars, wireVars>>

Restore ==
    /\ life = "restore"
    /\ \/ driver' = "bound" /\ life' = "dropped" /\ UNCHANGED <<tries, refused>>
       \/ /\ "attach" \in Faults
          /\ refused' = TRUE /\ tries' = tries + 1 /\ UNCHANGED driver
          /\ life' = IF tries' = AttachTries THEN "dropped" ELSE "restore"
    /\ UNCHANGED <<claimed, found, reader, canceller, stop, cancelled, queued,
                   completions, rxVars, wireVars>>

Closed == life \in {"failed", "dropped"} /\ UNCHANGED vars

Next == \/ Detach \/ Reattach \/ Setup \/ Abort
        \/ DeviceFills \/ Reader \/ CancelFlag \/ CancelAll
        \/ Release \/ Restore \/ Closed

Spec == Init /\ [][Next]_vars

\* Threads run and the USB stack answers; the device may stay silent.
Fairness == /\ WF_vars(Detach \/ Reattach \/ Setup \/ Abort \/ Release \/ Restore)
            /\ WF_vars(Reader) /\ WF_vars(CancelAll)
            /\ WF_vars(canceller = "store" /\ CancelFlag)

FairSpec == Spec /\ Fairness

-----------------------------------------------------------------------------
(* Properties. *)

Lines    == SUBSET LineBits
Packet   == [line : Lines, bytes : Seq(Nat)]
Transfer == [packets : Seq(Packet), status : {"ok", "failed", "cancelled"}, short : BOOLEAN]

TypeOK ==
    /\ life \in {"detach", "reattach", "redetach", "setup", "abort", "open", "restore",
                 "failed", "dropped"}
    /\ driver \in {"bound", "unbound"} /\ found \in {"bound", "unbound"}
    /\ claimed \in BOOLEAN /\ refused \in BOOLEAN /\ tries \in 0 .. AttachTries
    /\ reader \in {"loop", "call", "checked", "locked", "done"}
    /\ canceller \in {"idle", "store", "lock", "done"}
    /\ stop \in BOOLEAN /\ cancelled \in BOOLEAN
    /\ queued \in 0 .. Transfers
    /\ completions \in Seq(Transfer)
    /\ payload \in Seq(Nat) /\ lastLine \in Lines
    /\ rxErrors \in Nat /\ rxOverflow \in Nat
    /\ sent \in 0 .. MaxSent /\ produced \in Nat
    /\ delivered \in Seq(Nat) /\ seen \in Seq(Lines)
    /\ failures \subseteq {"timed_out", "protocol", "access"}
    /\ broken \subseteq {"status", "short"}

\* The bytes of completed transfers, transfer by transfer.
Payloads(transfers) == [i \in 1 .. Len(transfers) |-> Stripped(transfers[i].packets)]

(* Through short buffers, kept payload, status-only packets, errors and the
   cancellation of a queue that holds data, the session is given the bytes of
   the device in order and without a gap; only a read that returned a protocol
   failure has dropped some. *)
BytesInOrder ==
    life = "open" /\ "protocol" \notin failures =>
        delivered \o payload \o FlattenSeq(Payloads(completions)) = [i \in 1 .. produced |-> i]

(* Every transfer taken from the queue has gone back to it: the number in
   flight never falls, whatever a read returned. *)
QueueStaysFull == life = "open" => queued + Len(completions) = Transfers

\* The headers that raise one of bits, after the first.
Raising(headers, bits) ==
    {i \in 2 .. Len(headers) : (headers[i] \ headers[i - 1]) \cap bits # {}}

(* Until a read fails, the counters are the number of headers that raised a bit
   the header before them did not have, across packets, transfers and reads. *)
CountersAreEdges ==
    failures \subseteq {"timed_out"} =>
        /\ rxOverflow = Cardinality(Raising(seen, {"oe"}))
        /\ rxErrors = Cardinality(Raising(seen, {"pe", "fe", "bi"}))

(* A read fails for good only for a cause: the device's own failure, or a
   cancellation that got in between the test of the flag and the lock. *)
FailureHasCause ==
    /\ "protocol" \in failures => "short" \in broken
    /\ "access" \in failures => "status" \in broken \/ canceller = "done"

(* The driver and this process never own the interface together, and unless
   the system refused an attach, open and Drop leave the driver bound or as it
   was found. *)
DriverRestored ==
    /\ driver = "bound" => ~claimed
    /\ life \in {"failed", "dropped"} /\ ~refused => driver \in {"bound", found}

(* Drop gives up on the driver only after AttachTries refusals. *)
DropPersists == life = "dropped" /\ driver = "unbound" => tries = AttachTries

(* The state of the port, in every order of reads, cancel and Drop. *)
PortInv == TypeOK /\ QueueStaysFull /\ FailureHasCause /\ DropPersists

(* A cancelled session's RX worker ends and cancel returns although the device
   stays silent: neither waits for the other's lock for ever. *)
CancelEndsRead == canceller # "idle" ~> reader = "done" /\ canceller = "done"

-----------------------------------------------------------------------------
(* Claims of the documentation. *)

(* TransferFailureKind::Access, "Device or driver access failed"
   (transport.rs:44): an RX worker stopped by the coordinator at the end of a
   good session may take the cancelled completion of its own transfer and
   report it as Access. *)
AccessMeansDevice == "access" \in failures => "status" \in broken

=============================================================================
