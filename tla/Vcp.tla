-------------------------------- MODULE Vcp ---------------------------------
(***************************************************************************)
(* The C232HD behind the operating system's serial driver, src/uart/c232/  *)
(* vcp.rs: one process enumerates the ports, selects a cable, opens it,    *)
(* and clones of the Port of src/uart/transport.rs then read, write, drain *)
(* and cancel it as std::io streams.                                       *)
(*                                                                         *)
(* The system is environment: cables are plugged and unplugged at any time *)
(* and take the first free name, udev names a cable by its serial number,  *)
(* and the kernel has a queue in each direction.  Bytes are counted.       *)
(***************************************************************************)
EXTENDS Baud, FiniteSets

CONSTANTS
    Cables,      \* the serial numbers of C232HD cables
    Foreign,     \* serial devices of another kind
    Nodes,       \* the names of ports, as /dev/ttyUSB0
    Linked,      \* the devices that udev names in /dev/serial/by-id
    Rates,       \* what --baud may be
    Clones,      \* the clones of the Port, each used by one thread
    QueueSize,   \* the kernel's output queue, in bytes
    MaxBytes,    \* bound: bytes in each direction
    MaxPlugs,    \* bound: changes of what is plugged in
    Faults       \* which failures of the environment may happen

None == "none"

ASSUME NameAssumption  == /\ Foreign \cap Cables = {} /\ Linked \subseteq Cables \cup Foreign
                          /\ None \notin Cables \cup Foreign \cup Nodes \cup Clones
ASSUME CloneAssumption == Clones # {}
ASSUME RateAssumption  == Rates \subseteq Nat \ {0}
ASSUME BoundAssumption == MaxBytes \in Nat /\ MaxPlugs \in Nat /\ QueueSize \in Nat
ASSUME FaultAssumption == Faults \subseteq {"open", "io"}

Devices == Cables \cup Foreign

\* A path names a port, or is udev's name of a device.
Paths  == [kind : {"node"}, of : Nodes] \cup [kind : {"link"}, of : Devices]
NoPath == [kind |-> None, of |-> None]

VARIABLES
    attached,    \* the device on each port, of which the opened one is kept
    plugs,       \* changes of it before the port is open
    \* the caller's OpenOptions
    serial,      \* Some(serial), or None
    path,        \* Some(port), or NoPath
    \* list_devices, select_device and VcpTransport::open; what is dropped when
    \* they return is cleared
    life,        \* the step of the process
    todo,        \* the enumeration: device by port, without those looked at
    meta,        \* the port that is looked at and the serial read for it
    listed,      \* the records so far, each [serial, port, stable]
    chosen,      \* the record that was selected
    opened,      \* the device that was opened
    metadata,    \* Metadata's requested_baud and actual_baud
    \* VcpTransport
    cancelled,
    readLock, writeLock,   \* their holders
    \* each clone's thread
    step,
    late,        \* the deadline of its drain has passed
    \* the kernel and the cable
    outq,        \* bytes in the output queue
    sent,        \* bytes the cable has taken
    \* history
    raced,       \* a device was moved after the enumeration, before its end
    answer,      \* of the call that has just returned, [cause, kind]
    accepted,    \* bytes that write has taken
    mark,        \* of these, when a clone's drain began
    covered      \* of these, when a drain began that has returned Ok

worldVars  == <<attached, plugs, raced>>
askVars    == <<serial, path>>
openVars   == <<askVars, life, todo, meta, listed, chosen, opened, metadata>>
lockVars   == <<readLock, writeLock>>
cloneVars  == <<step, late, mark>>
queueVars  == <<outq, sent, accepted, covered>>
portVars   == <<cancelled, lockVars, cloneVars, queueVars, answer>>
vars       == <<worldVars, openVars, portVars>>

NoDevice == [serial |-> None, port |-> None, stable |-> None]
NoMeta   == [port |-> None, serial |-> None]
NoRate   == [requested |-> 0, actual |-> 0]
NoAnswer == [cause |-> None, kind |-> None]

Present == {n \in Nodes : attached[n] # None}

Init ==
    /\ attached \in [Nodes -> Devices \cup {None}]
    /\ \A m, n \in Nodes : m # n /\ attached[m] # None => attached[m] # attached[n]
    /\ plugs = 0 /\ raced = FALSE
    /\ serial \in Cables \cup {None} /\ path \in Paths \cup {NoPath}
    /\ life = "list" /\ todo = [n \in Present |-> attached[n]]
    /\ meta = NoMeta /\ listed = {} /\ chosen = NoDevice
    /\ opened = None /\ metadata = NoRate
    /\ cancelled = FALSE /\ readLock = None /\ writeLock = None
    /\ step = [c \in Clones |-> "idle"] /\ late = [c \in Clones |-> FALSE]
    /\ mark = [c \in Clones |-> 0] /\ answer = NoAnswer
    /\ outq = 0 /\ sent = 0 /\ accepted = 0 /\ covered = 0

-----------------------------------------------------------------------------
(* The file system: a path leads to a port, if it leads anywhere. *)

Port(p) == IF p.kind = "node" THEN p.of
           ELSE IF p.of \in Linked /\ \E n \in Nodes : attached[n] = p.of
                THEN CHOOSE n \in Nodes : attached[n] = p.of ELSE None

Exists(p) == Port(p) # None /\ attached[Port(p)] # None

SamePath(p, q) == p = q \/ (Exists(p) /\ Exists(q) /\ Port(p) = Port(q))

Node(n) == [kind |-> "node", of |-> n]
Link(d) == [kind |-> "link", of |-> d]

\* Someone moves, plugs or unplugs a device before it is open.
Replug ==
    /\ life \in {"list", "link", "select", "open"} /\ plugs < MaxPlugs
    /\ \E d \in Devices, n \in Nodes \cup {None} :
          /\ n # None => attached[n] = None
          /\ attached' = [m \in Nodes |-> IF m = n THEN d
                                          ELSE IF attached[m] = d THEN None ELSE attached[m]]
          /\ attached' # attached
    /\ plugs' = plugs + 1 /\ raced' = (raced \/ life \in {"list", "link"})
    /\ UNCHANGED <<openVars, portVars>>

-----------------------------------------------------------------------------
(* list_devices: the ports and what the library knows of each are one       *)
(* enumeration; then each port's entry in sysfs, for what it did not know,  *)
(* and its link in by-id are read.                                          *)

\* linux_usb_metadata, and the test of the identity.
ReadMetadata ==
    /\ life = "list"
    /\ \E n \in DOMAIN todo, d \in Devices \cup {None} :
          /\ d \in {todo[n], attached[n]}
          /\ todo' = [m \in DOMAIN todo \ {n} |-> todo[m]]
          /\ IF d \in Cables THEN life' = "link" /\ meta' = [port |-> n, serial |-> d]
                            ELSE UNCHANGED <<life, meta>>
    /\ UNCHANGED <<worldVars, askVars, listed, chosen, opened, metadata, portVars>>

\* stable_path
ReadLink ==
    /\ life = "link" /\ life' = "list"
    /\ listed' = listed \cup
          {[serial |-> meta.serial, port |-> meta.port,
            stable |-> IF attached[meta.port] \in Linked THEN attached[meta.port] ELSE None]}
    /\ meta' = NoMeta
    /\ UNCHANGED <<worldVars, askVars, todo, chosen, opened, metadata, portVars>>

Listed == /\ life = "list" /\ DOMAIN todo = {} /\ life' = "select"
          /\ UNCHANGED <<worldVars, askVars, todo, meta, listed, chosen, opened, metadata,
                         portVars>>

\* select_device: the records that match, and there must be one.
Matches ==
    {r \in listed :
        /\ serial \in {None, r.serial}
        /\ \/ path = NoPath
           \/ SamePath(Node(r.port), path)
           \/ r.stable # None /\ SamePath(Link(r.stable), path)}

Select ==
    /\ life = "select"
    /\ \/ \E r \in Matches : Matches = {r} /\ life' = "open" /\ chosen' = r
       \/ Cardinality(Matches) # 1 /\ life' = "failed" /\ UNCHANGED chosen
    /\ UNCHANGED <<worldVars, askVars, todo, meta, listed, opened, metadata, portVars>>

-----------------------------------------------------------------------------
(* VcpTransport::open *)

\* Mutant: the port's name of the moment comes before the name of the cable.
TargetPort == IF path # NoPath THEN path ELSE Node(chosen.port)

\* The path of the caller, else the stable one, else the one of the listing.
Target == IF path # NoPath THEN path
          ELSE IF chosen.stable # None THEN Link(chosen.stable) ELSE Node(chosen.port)

Taken(rate) == rate \in Offered /\ Fits(FtdiActual(FtdiDivisor(rate)), rate)

\* The rate is tested first; then the port is opened, for this process alone,
\* its lines deasserted, its input cleared and its handle cloned, and whatever
\* fails closes it again.
Open ==
    /\ life = "open"
    /\ \E rate \in Rates :
          \/ /\ Taken(rate) /\ Exists(Target)
             /\ life' = "ready" /\ opened' = attached[Port(Target)]
             /\ metadata' = [requested |-> rate, actual |-> FtdiActual(FtdiDivisor(rate))]
             /\ attached' = [n \in Nodes |-> IF n = Port(Target) THEN attached[n] ELSE None]
          \/ /\ ~Taken(rate) \/ ~Exists(Target) \/ "open" \in Faults
             /\ life' = "failed" /\ UNCHANGED <<opened, metadata, attached>>
    /\ serial' = None /\ path' = NoPath /\ listed' = {} /\ chosen' = NoDevice
    /\ plugs' = 0 /\ raced' = FALSE
    /\ UNCHANGED <<todo, meta, portVars>>

-----------------------------------------------------------------------------
(* The Port of uart/transport.rs on this transport: what read and write     *)
(* answer to the caller of std::io.                                         *)

Transient == {"Interrupted", "WouldBlock", "TimedOut"}

\* Mutant: a hung-up terminal is something to wait for.
IoOutcomeLenient(kind) ==
    CASE kind \in Transient          -> kind
      [] kind = "PermissionDenied"   -> "Access"
      [] kind \in {"BrokenPipe", "NotConnected", "UnexpectedEof"} -> "WouldBlock"
      [] OTHER                       -> "Protocol"

IoOutcome(kind) ==
    CASE kind \in Transient          -> kind
      [] kind = "PermissionDenied"   -> "Access"
      [] kind \in {"BrokenPipe", "NotConnected", "UnexpectedEof"} -> "Disconnected"
      [] OTHER                       -> "Protocol"

IoFailure(failure) ==
    CASE failure = "Access"       -> "PermissionDenied"
      [] failure = "Protocol"     -> "InvalidData"
      [] failure = "Disconnected" -> "NotConnected"
      [] OTHER                    -> failure

\* A call ends: the bytes are reported before the failure, and an end of
\* neither is the end of the stream to a reader, an error to a writer.
Answer(completed, kind, zero) ==
    answer' = [cause |-> kind,
               kind  |-> IF completed # 0 THEN "Ok"
                         ELSE IF kind = "Ok" THEN zero ELSE IoFailure(IoOutcome(kind))]

\* Nothing returns in this step.
NoReturn == answer' = NoAnswer

Goto(c, s) == step' = [step EXCEPT ![c] = s]

Gone == opened \notin {attached[n] : n \in Nodes}

\* How the library ends a call that has moved no byte: nothing within
\* IO_TIMEOUT, a signal, a device that is gone, an error of the driver.
Failures == {"TimedOut", "Interrupted"}
            \cup (IF Gone THEN {"BrokenPipe", "Other"} ELSE {})
            \cup (IF "io" \in Faults THEN {"PermissionDenied", "Other"} ELSE {})

\* Mutant: a call of a cancelled port goes on to the device.
CallOn(c, s) ==
    /\ life = "ready" /\ step[c] = "idle" /\ Goto(c, s)
    /\ UNCHANGED <<worldVars, openVars, cancelled, lockVars, late, mark, queueVars>> /\ NoReturn

\* VcpTransport::read or write, up to its lock.
Call(c, s) ==
    /\ life = "ready" /\ step[c] = "idle"
    /\ IF cancelled THEN answer' = [cause |-> "cancelled", kind |-> IoFailure("TimedOut")]
                         /\ UNCHANGED step
       ELSE Goto(c, s) /\ NoReturn
    /\ UNCHANGED <<worldVars, openVars, cancelled, lockVars, late, mark, queueVars>>

ReadCall(c)  == Call(c, "read")
WriteCall(c) == Call(c, "write")

ReadLock(c) ==
    /\ step[c] = "read" /\ readLock = None /\ readLock' = c /\ Goto(c, "reading")
    /\ UNCHANGED <<worldVars, openVars, cancelled, writeLock, late, mark, queueVars>> /\ NoReturn

ReadReturn(c) ==
    /\ step[c] = "reading" /\ Goto(c, "idle") /\ readLock' = None
    /\ \/ ~Gone /\ Answer(1, "Ok", "Eof")
       \/ Gone /\ Answer(0, "Ok", "Eof")
       \/ \E kind \in Failures : Answer(0, kind, "Eof")
    /\ UNCHANGED <<worldVars, openVars, cancelled, writeLock, late, mark, queueVars>>

WriteLock(c) ==
    /\ step[c] = "write" /\ writeLock = None /\ writeLock' = c /\ Goto(c, "writing")
    /\ UNCHANGED <<worldVars, openVars, cancelled, readLock, late, mark, queueVars>> /\ NoReturn

\* The kernel takes what its queue has room for.
WriteReturn(c) ==
    /\ step[c] = "writing" /\ Goto(c, "idle") /\ writeLock' = None
    /\ \/ \E n \in 1 .. MaxBytes - accepted :
             /\ ~Gone /\ outq + n <= QueueSize
             /\ outq' = outq + n /\ accepted' = accepted + n /\ Answer(n, "Ok", "WriteZero")
       \/ /\ \E kind \in Failures : Answer(0, kind, "WriteZero")
          /\ UNCHANGED <<outq, accepted>>
    /\ UNCHANGED <<worldVars, openVars, cancelled, readLock, late, mark, sent, covered>>

-----------------------------------------------------------------------------
(* VcpTransport::drain and cancel. *)

DrainCall(c) ==
    /\ life = "ready" /\ step[c] = "idle" /\ Goto(c, "drain")
    /\ late' = [late EXCEPT ![c] = FALSE] /\ mark' = [mark EXCEPT ![c] = accepted]
    /\ UNCHANGED <<worldVars, openVars, cancelled, lockVars, queueVars>> /\ NoReturn

DrainEnds(c, cause, kind) ==
    /\ Goto(c, "idle") /\ answer' = [cause |-> cause, kind |-> kind]
    /\ mark' = [mark EXCEPT ![c] = 0] /\ late' = [late EXCEPT ![c] = FALSE]

Cover(c) == covered' = IF mark[c] > covered THEN mark[c] ELSE covered

\* One turn of the loop, under the lock for as long as the queue is inspected.
\* Mutant: what is left when time is up counts as drained.
DrainPollLenient(c) ==
    /\ step[c] = "drain" /\ writeLock = None
    /\ \/ /\ Gone \/ "io" \in Faults
          /\ DrainEnds(c, "Other", "Access") /\ UNCHANGED covered
       \/ /\ ~Gone /\ (outq = 0 \/ late[c])
          /\ DrainEnds(c, "Ok", "Ok") /\ Cover(c)
       \/ /\ ~Gone /\ outq # 0 /\ ~late[c]
          /\ Goto(c, "nap") /\ NoReturn /\ UNCHANGED <<mark, late, covered>>
    /\ UNCHANGED <<worldVars, openVars, cancelled, lockVars, outq, sent, accepted>>

DrainPoll(c) ==
    /\ step[c] = "drain" /\ writeLock = None
    /\ \/ /\ Gone \/ "io" \in Faults
          /\ DrainEnds(c, "Other", "Access") /\ UNCHANGED covered
       \/ /\ ~Gone /\ outq = 0
          /\ DrainEnds(c, "Ok", "Ok") /\ Cover(c)
       \/ /\ ~Gone /\ outq # 0 /\ late[c]
          /\ DrainEnds(c, "deadline", "Timeout") /\ UNCHANGED covered
       \/ /\ ~Gone /\ outq # 0 /\ ~late[c]
          /\ Goto(c, "nap") /\ NoReturn /\ UNCHANGED <<mark, late, covered>>
    /\ UNCHANGED <<worldVars, openVars, cancelled, lockVars, outq, sent, accepted>>

\* Mutant: each turn has a deadline of its own.
DrainNapAnew(c) ==
    /\ step[c] = "nap" /\ Goto(c, "drain") /\ late' = [late EXCEPT ![c] = FALSE]
    /\ UNCHANGED <<worldVars, openVars, cancelled, lockVars, mark, queueVars>> /\ NoReturn

DrainNap(c) ==
    /\ step[c] = "nap" /\ Goto(c, "drain")
    /\ UNCHANGED <<worldVars, openVars, cancelled, lockVars, late, mark, queueVars>> /\ NoReturn

Expire(c) ==
    /\ step[c] \in {"drain", "nap"} /\ ~late[c] /\ late' = [late EXCEPT ![c] = TRUE]
    /\ UNCHANGED <<worldVars, openVars, cancelled, lockVars, step, mark, queueVars>> /\ NoReturn

\* The flag alone: a call that is under way ends by its own timeout.
Cancel ==
    /\ life = "ready" /\ ~cancelled /\ cancelled' = TRUE
    /\ UNCHANGED <<worldVars, openVars, lockVars, cloneVars, queueVars>> /\ NoReturn

-----------------------------------------------------------------------------
(* The kernel and the cable. *)

LineSends ==
    /\ life = "ready" /\ ~Gone /\ outq > 0 /\ outq' = outq - 1 /\ sent' = sent + 1
    /\ NoReturn
    /\ UNCHANGED <<worldVars, openVars, cancelled, lockVars, cloneVars, accepted, covered>>

\* What is queued is lost.
Unplug ==
    /\ life = "ready" /\ ~Gone /\ outq' = 0
    /\ attached' = [n \in Nodes |-> IF attached[n] = opened THEN None ELSE attached[n]]
    /\ UNCHANGED <<plugs, raced, openVars, cancelled, lockVars, cloneVars, sent, accepted,
                   covered>> /\ NoReturn

Failed == life = "failed" /\ UNCHANGED vars

\* A thread inside a call.
Work(c) == \/ ReadLock(c) \/ ReadReturn(c) \/ WriteLock(c) \/ WriteReturn(c)
           \/ DrainPoll(c) \/ DrainNap(c)

Next ==
    \/ Replug \/ ReadMetadata \/ ReadLink \/ Listed \/ Select \/ Open
    \/ \E c \in Clones : ReadCall(c) \/ WriteCall(c) \/ DrainCall(c)
                         \/ Work(c) \/ Expire(c)
    \/ Cancel \/ LineSends \/ Unplug \/ Failed

Spec == Init /\ [][Next]_vars

\* Time passes, a thread runs, and a lock that is given up over and over
\* again is given to whoever waits for it, as parking_lot does.
FairSpec == Spec /\ \A c \in Clones : SF_vars(Work(c)) /\ WF_vars(Expire(c))

-----------------------------------------------------------------------------
Steps == {"idle", "read", "reading", "write", "writing", "drain", "nap"}

Records == [serial : Cables, port : Nodes, stable : Devices \cup {None}]

OpenTypeOK ==
    /\ attached \in [Nodes -> Devices \cup {None}]
    /\ plugs \in 0 .. MaxPlugs /\ raced \in BOOLEAN
    /\ serial \in Cables \cup {None} /\ path \in Paths \cup {NoPath}
    /\ life \in {"list", "link", "select", "open", "ready", "failed"}
    /\ DOMAIN todo \subseteq Nodes /\ \A n \in DOMAIN todo : todo[n] \in Devices
    /\ IF life = "link" THEN meta \in [port : Nodes, serial : Cables] ELSE meta = NoMeta
    /\ listed \subseteq Records /\ chosen \in Records \cup {NoDevice}
    /\ opened \in Devices \cup {None}

PortTypeOK ==
    /\ cancelled \in BOOLEAN
    /\ readLock \in Clones \cup {None} /\ writeLock \in Clones \cup {None}
    /\ step \in [Clones -> Steps] /\ late \in [Clones -> BOOLEAN]
    /\ mark \in [Clones -> 0 .. MaxBytes]
    /\ outq \in 0 .. QueueSize /\ sent \in 0 .. MaxBytes
    /\ accepted \in 0 .. MaxBytes /\ covered \in 0 .. MaxBytes

TypeOK == OpenTypeOK /\ PortTypeOK

\* Each port handle is used by the holder of its lock alone.
LockedUse ==
    \A c \in Clones : /\ (step[c] = "reading") = (readLock = c)
                     /\ (step[c] = "writing") = (writeLock = c)

\* The device that is opened is one that was there, and nothing was sent or
\* asked before.
OpenFirst ==
    life # "ready" => /\ \A c \in Clones : step[c] = "idle"
                      /\ accepted = 0 /\ ~cancelled

(* A caller is told to try again only when a timeout, a signal or the
   cancellation ended the call, never when the cable is gone or the driver
   failed: a session retries such an answer for ever. *)
RetryIsHonest ==
    answer.kind \in Transient => answer.cause \in {"TimedOut", "Interrupted", "cancelled"}

VcpInv == TypeOK /\ LockedUse /\ OpenFirst /\ RetryIsHonest

(* Whoever names no port opens the cable that was selected, and the only one
   that fits, though the ports' names have changed hands between the listing
   and the opening; without udev's name for it, or when a device was moved
   while the ports were listed, another device may be opened instead. *)
OpensSelected ==
    [][life' = "ready" /\ life # "ready" /\ path = NoPath /\ chosen.stable # None /\ ~raced
          => /\ opened' = chosen.serial
             /\ \A r \in listed : serial \in {None, r.serial} => r = chosen]_vars

(* The cable runs at the rate that the caller's metadata says, as the chip
   makes it of the divisor it is sent, and the rule which took that rate does
   right by every other (EveryRateIsHonest, in Baud). *)
RatesAreHonest ==
    metadata # NoRate =>
        /\ metadata.actual =
              FtdiActual(FtdiDecode(FtdiEncode(FtdiDivisor(metadata.requested))))
        /\ EveryRateIsHonest

(* A drain that reports success covers every byte that write had taken when it
   began: the cable has all of them, whatever other clones have written since
   and however late it is. *)
DrainCovers == covered <= sent /\ sent + outq <= accepted

(* Once the port is cancelled, reads and writes come to an end and none is
   begun: the flag interrupts no call, but no retry starts another. *)
CancelQuiesces ==
    cancelled ~> [](\A c \in Clones : step[c] \notin {"read", "reading", "write", "writing"})

(* Every call returns, drain by its deadline, though other clones keep taking
   the lock, the line does not move and nobody cancels. *)
CallsReturn == \A c \in Clones : (step[c] # "idle") ~> (step[c] = "idle")

=============================================================================
