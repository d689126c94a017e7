------------------------------ MODULE Glasgow ------------------------------
(***************************************************************************)
(* A session on a Glasgow: GlasgowTransport::open with the firmware and    *)
(* bitstream uploads and the cleanup guard, the refresh of the counters by *)
(* the RX worker and the coordinator, the TX worker's drain, and Drop.     *)
(***************************************************************************)
EXTENDS GlasgowState

Init ==
    /\ PipeInit
    /\ life = "firmware" /\ polls = 0 /\ vio = FALSE
    /\ base = [errors |-> 0, overflow |-> 0]
    /\ step = [c \in Clients |-> "idle"] /\ poll = "none" /\ mgmt = "none"
    /\ word = 0 /\ published = [errors |-> 0, overflow |-> 0]
    /\ firmware \in {"ours", "other"} /\ fpga \in {Blank, Ours, Other}
    /\ divisor = FALSE /\ supply \in BOOLEAN /\ pulls = FALSE /\ pipes = FALSE
    /\ counts = [errors |-> 0, overflow |-> 0] /\ fifo = 0 /\ shifting = FALSE
    /\ offFailed = FALSE /\ lit = "no"

-----------------------------------------------------------------------------
(* open, up to the pipes. *)

\* The firmware is uploaded unless its API level is right; a new firmware's
\* bitstream is gone.
Firmware ==
    /\ life = "firmware"
    /\ \/ firmware = "ours" /\ life' = "status" /\ UNCHANGED <<firmware, fpga>>
       \/ /\ firmware = "other" /\ life' = "listing"
          /\ firmware' \in {"ours", "other"} /\ fpga' = Blank
       \/ /\ firmware = "other" /\ "usb" \in Faults
          /\ life' = "closed" /\ UNCHANGED <<firmware, fpga>>
    /\ polls' = 0
    /\ UNCHANGED <<pipeVars, profileVars, clientVars, divisor, supply, pulls, pipes,
                   counts, fifo, shifting, history>>

\* Mutant: the deadline is computed anew in each iteration.
ListingForever ==
    /\ life = "listing"
    /\ \/ \E seen \in {"other", firmware} :
             life' = (IF Compatible(seen) THEN "status" ELSE "closed") /\ UNCHANGED polls
       \/ polls' = 1 - polls /\ UNCHANGED life
    /\ UNCHANGED <<pipeVars, profileVars, clientVars, deviceVars, history>>

\* list_devices until the device is there: its old descriptor may still be.
Listing ==
    /\ life = "listing"
    /\ \/ \E seen \in {"other", firmware} :
             life' = (IF Compatible(seen) THEN "status" ELSE "closed") /\ UNCHANGED polls
       \/ PollAgain /\ UNCHANGED life
       \/ life' = "closed" /\ UNCHANGED polls
    /\ UNCHANGED <<pipeVars, profileVars, clientVars, deviceVars, history>>

\* The configuration interface takes the bitstream.
Upload ==
    /\ life = "upload"
    /\ \/ life' = "finish" /\ fpga' = Blank
       \/ "usb" \in Faults /\ life' = "closed" /\ fpga' \in {fpga, Blank}
    /\ polls' = 0
    /\ UNCHANGED <<pipeVars, profileVars, clientVars, firmware, divisor, supply, pulls,
                   pipes, counts, fifo, shifting, history>>

\* Both UART interfaces are claimed and enabled, and their endpoints fit.
Pipes ==
    /\ life = "pipes"
    /\ \/ life' = "baud" /\ pipes' = TRUE
       \/ "usb" \in Faults /\ life' = "close" /\ pipes' \in BOOLEAN
    /\ UNCHANGED <<pipeVars, polls, profileVars, clientVars, firmware, fpga, divisor,
                   supply, pulls, counts, fifo, shifting, history>>

-----------------------------------------------------------------------------
(* Commands of open, of the guard and of Drop. *)

\* A command that switches the supply off is lost on the way to the device.
OffLost(op) == offFailed' = (offFailed \/ op = "volts_off")

OpenCommand ==
    /\ life \in Commanding
    /\ \/ Write(OpOf(life)) /\ UNCHANGED <<life, history>>
       \/ /\ "write" \in Faults /\ WriteFails(OpOf(life))
          /\ life' = Broken(life) /\ OffLost(OpOf(life)) /\ UNCHANGED lit
    /\ UNCHANGED <<polls, profileVars, clientVars, deviceVars>>

OpenTimeout ==
    /\ life \in Commanding /\ "late" \in Faults
    /\ Timeout /\ life' = Broken(life)
    /\ UNCHANGED <<polls, profileVars, clientVars, deviceVars, history>>

OpenRejected ==
    /\ life \in Commanding
    /\ Receive /\ ~Good /\ ~(life = "finish" /\ Matches /\ Head(answers).result = Wait)
    /\ life' = Broken(life)
    /\ UNCHANGED <<polls, profileVars, clientVars, deviceVars, history>>

\* fpga_status, before the upload and in the loop after it.
OpenStatus ==
    /\ life \in {"status", "check"} /\ Receive /\ Good
    /\ \/ Value = Ours /\ life' = "pipes" /\ UNCHANGED polls
       \/ Value # Ours /\ life = "status" /\ life' = "upload" /\ UNCHANGED polls
       \/ Value # Ours /\ life = "check" /\ PollAgain /\ UNCHANGED life
       \/ Value # Ours /\ life = "check" /\ life' = "closed" /\ UNCHANGED polls
    /\ UNCHANGED <<profileVars, clientVars, deviceVars, history>>

\* finish_fpga_load: WAIT asks for another command until the deadline; the
\* configuration interface is closed after an acknowledgement.
OpenFinish ==
    /\ life = "finish" /\ Receive
    /\ \/ Good /\ life' = "check" /\ polls' = 0
       \/ Good /\ "usb" \in Faults /\ life' = "closed" /\ UNCHANGED polls
       \/ /\ Matches /\ Head(answers).result = Wait
          /\ \/ PollAgain /\ UNCHANGED life
             \/ life' = "closed" /\ UNCHANGED polls
    /\ UNCHANGED <<profileVars, clientVars, deviceVars, history>>

\* The divisor, the profile and the baselines; then the profile's undoing.
OpenProfile ==
    /\ life \in Guarded \cup TurnOff /\ Receive /\ Good
    /\ life' = After[life]
    /\ vio' = (vio \/ SupplyKnown(life))
    /\ base' = IF life \in {"errors", "overflow"} THEN [base EXCEPT ![life] = Value] ELSE base
    /\ lit' = IF life = "pulls_on" THEN "confirmed" ELSE lit
    /\ UNCHANGED <<polls, clientVars, deviceVars, offFailed>>

\* The alternate settings are reset, failures ignored.
Close ==
    /\ life = "close" /\ life' = "closed"
    /\ pipes' \in (IF "usb" \in Faults THEN {FALSE, pipes} ELSE {FALSE})
    /\ UNCHANGED <<pipeVars, polls, profileVars, clientVars, firmware, fpga, divisor,
                   supply, pulls, counts, fifo, shifting, history>>

\* The session has returned and drops the transport.
Drop ==
    /\ life = "open" /\ life' = "volts_off"
    /\ step.rx \in {"idle", "failed"} /\ step.co = "idle"
    /\ step.tx \in {"idle", "drained", "failed"}
    /\ UNCHANGED <<pipeVars, polls, profileVars, clientVars, deviceVars, history>>

Open == \/ Firmware \/ Listing \/ Upload \/ Pipes \/ OpenCommand \/ OpenTimeout
        \/ OpenRejected \/ OpenStatus \/ OpenFinish \/ OpenProfile \/ Close \/ Drop

-----------------------------------------------------------------------------
(* refresh_counters, by the RX worker in read and the coordinator in         *)
(* counters.  A refresh within COUNTER_POLL of the last one does nothing.    *)

Goto(c, s) == step' = [step EXCEPT ![c] = s]

\* Both locks are given back; read reports an error, counters ignores it.
RefreshEnds(c, ok) ==
    /\ poll' = "none" /\ mgmt' = "none"
    /\ Goto(c, IF ok \/ c = "co" THEN "idle" ELSE "failed")

RefreshPoll(c) ==
    /\ life = "open" /\ step[c] = "idle" /\ poll = "none" /\ number < MaxCommands
    /\ poll' = c /\ Goto(c, "poll")
    /\ UNCHANGED <<pipeVars, life, polls, profileVars, mgmt, word, published, deviceVars,
                   history>>

RefreshLock(c) ==
    /\ step[c] = "poll" /\ mgmt = "none"
    /\ mgmt' = c /\ Goto(c, "errors")
    /\ UNCHANGED <<pipeVars, life, polls, profileVars, poll, word, published, deviceVars,
                   history>>

RefreshCommand(c) ==
    /\ step[c] \in {"errors", "overflow"}
    /\ \/ Write(step[c]) /\ UNCHANGED <<step, poll, mgmt>>
       \/ /\ "write" \in Faults /\ failures < MaxFailures
          /\ WriteFails(step[c]) /\ RefreshEnds(c, FALSE)
    /\ UNCHANGED <<life, polls, profileVars, word, published, deviceVars, history>>

RefreshTimeout(c) ==
    /\ step[c] \in {"errors", "overflow"} /\ "late" \in Faults /\ failures < MaxFailures
    /\ Timeout /\ RefreshEnds(c, FALSE)
    /\ UNCHANGED <<life, polls, profileVars, word, published, deviceVars, history>>

RefreshRejected(c) ==
    /\ step[c] \in {"errors", "overflow"} /\ Receive /\ ~Good
    /\ RefreshEnds(c, FALSE)
    /\ UNCHANGED <<life, polls, profileVars, word, published, deviceVars, history>>

RefreshErrors(c) ==
    /\ step[c] = "errors" /\ Receive /\ Good
    /\ word' = Value /\ Goto(c, "overflow")
    /\ UNCHANGED <<life, polls, profileVars, poll, mgmt, published, deviceVars, history>>

RefreshStore(c) ==
    /\ step[c] = "overflow" /\ Receive /\ Good
    /\ published' = [errors |-> Since(word, base.errors),
                     overflow |-> Since(Value, base.overflow)]
    /\ RefreshEnds(c, TRUE)
    /\ UNCHANGED <<life, polls, profileVars, word, deviceVars, history>>

Refresh == \E c \in {"rx", "co"} :
              \/ RefreshPoll(c) \/ RefreshLock(c) \/ RefreshCommand(c)
              \/ RefreshTimeout(c) \/ RefreshRejected(c)
              \/ RefreshErrors(c) \/ RefreshStore(c)

-----------------------------------------------------------------------------
(* The TX worker: bytes, then drain. *)

\* A transfer of the host reaches the FIFO.
TxByte ==
    /\ life = "open" /\ step.tx = "idle" /\ fifo < MaxTx
    /\ fifo' = fifo + 1
    /\ UNCHANGED <<pipeVars, hostVars, firmware, fpga, divisor, supply, pulls, pipes,
                   counts, shifting, history>>

\* flush, which ends with every transfer completed, or fails.
DrainFlush ==
    /\ life = "open" /\ step.tx = "idle" /\ number < MaxCommands
    /\ \/ Goto("tx", "poll")
       \/ "usb" \in Faults /\ Goto("tx", "failed")
    /\ UNCHANGED <<pipeVars, life, polls, profileVars, poll, mgmt, word, published,
                   deviceVars, history>>

DrainLock ==
    /\ step.tx = "poll" /\ mgmt = "none"
    /\ mgmt' = "tx" /\ Goto("tx", "tx_state")
    /\ UNCHANGED <<pipeVars, life, polls, profileVars, poll, word, published, deviceVars,
                   history>>

DrainCommand ==
    /\ step.tx = "tx_state"
    /\ \/ Write("tx_state") /\ UNCHANGED <<step, mgmt>>
       \/ /\ "write" \in Faults /\ failures < MaxFailures /\ WriteFails("tx_state")
          /\ mgmt' = "none" /\ Goto("tx", "failed")
    /\ UNCHANGED <<life, polls, profileVars, poll, word, published, deviceVars, history>>

DrainFails ==
    /\ step.tx = "tx_state"
    /\ \/ "late" \in Faults /\ failures < MaxFailures /\ Timeout
       \/ Receive /\ ~Good
    /\ mgmt' = "none" /\ Goto("tx", "failed")
    /\ UNCHANGED <<life, polls, profileVars, poll, word, published, deviceVars, history>>

\* The register says idle, or is read again until the deadline.
DrainState ==
    /\ step.tx = "tx_state" /\ Receive /\ Good /\ mgmt' = "none"
    /\ \/ TxIdle(Value) /\ Goto("tx", "drained")
       \/ ~TxIdle(Value) /\ Goto("tx", "failed")
       \/ ~TxIdle(Value) /\ number < MaxCommands /\ Goto("tx", "poll")
    /\ UNCHANGED <<life, polls, profileVars, poll, word, published, deviceVars, history>>

TxWorker == TxByte \/ DrainFlush \/ DrainLock \/ DrainCommand \/ DrainFails \/ DrainState

-----------------------------------------------------------------------------
(* The device. *)

\* A command takes effect when it is answered with Ack.
Effect(op) ==
    /\ divisor' = (divisor \/ op = "baud")
    /\ supply' = (op = "volts_on" \/ (supply /\ op # "volts_off"))
    /\ pulls' = (op = "pulls_on" \/ (pulls /\ op # "pulls_off"))
    /\ fpga' = IF op = "finish" THEN Ours ELSE fpga
    /\ lit' = IF op = "volts_on" THEN "switched" ELSE lit

\* tx_state: the idle bit is clear while a byte is on the line, and may be set
\* for a byte that is on its way to the FIFO's output register.
TxState == IF fifo = 0 /\ ~shifting THEN {IdleBit}
           ELSE IF shifting THEN {fifo} ELSE {fifo, IdleBit + fifo}

Replies(op) == IF op = "status" THEN {Id(fpga)}
               ELSE IF op \in {"errors", "overflow"} THEN {Reg(counts[op])}
               ELSE IF op = "tx_state" THEN {Reg(v) : v \in TxState} ELSE {Ack}

DeviceAnswers ==
    /\ wire # <<>>
    /\ LET op == Head(wire).op
       IN  \/ \E reply \in Replies(op) : Answer(reply) /\ Effect(op) /\ UNCHANGED offFailed
           \/ /\ "refuse" \in Faults /\ Answer(Refuse) /\ OffLost(op)
              /\ UNCHANGED <<divisor, supply, pulls, fpga, lit>>
           \/ /\ op = "finish" /\ Answer(Wait)
              /\ UNCHANGED <<divisor, supply, pulls, fpga, history>>
    /\ UNCHANGED <<hostVars, firmware, pipes, counts, fifo, shifting>>

\* FixedUARTComponent: its counters, far from saturation, and the transmitter.
Gateware ==
    /\ \/ \E k \in {"errors", "overflow"} :
             /\ life \in {"pulls_on", "errors", "overflow", "open"}
             /\ counts.errors + counts.overflow < MaxCount
             /\ counts' = [counts EXCEPT ![k] = @ + 1]
             /\ UNCHANGED <<fifo, shifting>>
       \/ /\ fifo > 0 /\ ~shifting /\ fifo' = fifo - 1 /\ shifting' = TRUE
          /\ UNCHANGED counts
       \/ shifting /\ shifting' = FALSE /\ UNCHANGED <<counts, fifo>>
    /\ UNCHANGED <<pipeVars, hostVars, firmware, fpga, divisor, supply, pulls, pipes,
                   history>>

Closed == life = "closed" /\ wire = <<>> /\ UNCHANGED vars

Next == Open \/ Refresh \/ TxWorker \/ DeviceAnswers \/ Gateware \/ Closed

Spec == Init /\ [][Next]_vars

\* The host's threads run and the device answers in the end.
Fairness == WF_vars(Open) /\ WF_vars(Refresh) /\ WF_vars(TxWorker) /\ WF_vars(DeviceAnswers)

FairSpec == Spec /\ Fairness

-----------------------------------------------------------------------------
(* Properties. *)

TypeOK ==
    /\ PipeTypeOK
    /\ life \in {"firmware", "listing", "upload", "pipes", "open", "close", "closed"}
                \cup Commanding
    /\ polls \in 0 .. MaxPolls /\ vio \in BOOLEAN
    /\ base \in Counts /\ counts \in Counts
    /\ published \in [errors : Words, overflow : Words] /\ word \in Words
    /\ step \in [Clients -> {"idle", "poll", "errors", "overflow", "tx_state", "drained",
                             "failed"}]
    /\ poll \in {"none", "rx", "co"} /\ mgmt \in {"none"} \cup Clients
    /\ firmware \in {"ours", "other"} /\ fpga \in {Blank, Ours, Other}
    /\ divisor \in BOOLEAN /\ supply \in BOOLEAN /\ pulls \in BOOLEAN /\ pipes \in BOOLEAN
    /\ fifo \in 0 .. MaxTx /\ shifting \in BOOLEAN
    /\ offFailed \in BOOLEAN /\ lit \in {"no", "switched", "confirmed"}

(* open succeeds only on a device that runs our firmware and our bitstream and
   has the whole profile, whatever was refused, late or lost on the way. *)
ReadyMeansConfigured ==
    life = "open" => /\ firmware = "ours" /\ fpga = Ours
                     /\ divisor /\ supply /\ pulls /\ pipes
                     /\ base.errors <= counts.errors /\ base.overflow <= counts.overflow

(* No management command is written to a firmware with another API. *)
FirmwareFirst == number > 0 => firmware = "ours"

(* The state of the session and its device, from the list to the end. *)
SetupInv == TypeOK /\ FirmwareFirst

(* Once the profile has been set, every way out switches the supply off: it
   stays on only if the command was lost or refused. *)
SupplyOffAtEnd == life = "closed" /\ wire = <<>> /\ lit = "confirmed" /\ supply => offFailed

(* drain succeeds only when no byte is left in the FIFO or on the line. *)
DrainMeansIdle == step.tx = "drained" => fifo = 0 /\ ~shifting

(* With two threads refreshing and answers that come late, the counters a
   session reports are errors since open, and no register is taken for another. *)
CountersAreSinceOpen ==
    failures < Period => /\ published.errors <= counts.errors - base.errors
                         /\ published.overflow <= counts.overflow - base.overflow

(* open returns, although the device may ask to wait and may never list. *)
SetupEnds == <>(life \in {"open", "closed"})

-----------------------------------------------------------------------------
(* Claims of the documentation. *)

(* "Preserve cleanup and VIO-disable behavior on setup failure and drop"
   (.omp/plans/LIBRARY_API_REFACTOR_REFACTOR_PLAN.md:49): a setup that fails
   between the two commands of the profile leaves the supply it switched on. *)
SetupFailureDisablesSupply ==
    life = "closed" /\ wire = <<>> /\ lit # "no" /\ supply => offFailed

=============================================================================
