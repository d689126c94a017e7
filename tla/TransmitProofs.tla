---------------------------- MODULE TransmitProofs ----------------------------
(***************************************************************************)
(* Proofs about Transmit: the lock and its timeout, where a byte is, what  *)
(* a failure leaves to report, what a drain has waited for and the order   *)
(* of the bytes, for any number of clones, transfers and calls and any     *)
(* sizes.                                                                  *)
(***************************************************************************)
EXTENDS Transmit, SequenceLemmas, TLAPS

Holding  == {"writing", "submitting", "flush", "flushing"}
Draining == {"drain", "flush", "flushing", "status"}

\* The bytes the device has, and those of the transfers with a status.
OnDevice == ToSet(wire) \cup ToSet(shift) \cup ToSet(fifo)
BytesOf(status, transfers) ==
    UNION {ToSet(transfers[i].bytes) : i \in {j \in 1 .. Len(transfers) :
                                                transfers[j].status = status}}

\* Every accepted byte is somewhere, or is known to be lost.
Located ==
    1 .. accepted \subseteq OnDevice \cup lost \cup BytesOf("busy", pending) \cup ToSet(buffer)

\* While somebody has the port, a lost byte's transfer waits for its error to be
\* returned.
LossInv ==
    (\E c \in Clones : step[c] # "gone") => lost \subseteq reported \cup BytesOf("failed", pending)

\* A drain has nothing left in the buffer once it waits, and nothing left in the
\* host once it asks for the status.
DrainInv ==
    \A c \in Clones :
        /\ step[c] = "flushing" => buffer = <<>>
        /\ step[c] \in Draining => target[c] <= accepted
        /\ step[c] = "status" => 1 .. target[c] \subseteq OnDevice \cup reported

\* The buffer waits for a transfer only while one may be added.
RoomInv == buffer # <<>> => Len(pending) < Transfers

TransmitIInv == WriterInv /\ RoomInv /\ Located /\ LossInv /\ DrainInv /\ DrainCovers

-----------------------------------------------------------------------------
(* Transfers. *)

LEMMA BytesOfDef ==
  ASSUME NEW ts \in Seq(Transfer), NEW st
  PROVE  /\ BytesOf(st, ts) \subseteq Bytes
         /\ \A b : b \in BytesOf(st, ts) <=>
               \E i \in 1 .. Len(ts) : ts[i].status = st /\ b \in ToSet(ts[i].bytes)
  <1>1. \A b : b \in BytesOf(st, ts) <=>
               \E i \in 1 .. Len(ts) : ts[i].status = st /\ b \in ToSet(ts[i].bytes)
    BY DEF BytesOf
  <1>2. \A i \in 1 .. Len(ts) : ts[i].bytes \in Seq(Bytes)
    <2>1. \A i \in 1 .. Len(ts) : ts[i] \in Transfer OBVIOUS
    <2> QED BY <2>1 DEF Transfer
  <1>3. \A i \in 1 .. Len(ts) : ToSet(ts[i].bytes) \subseteq Bytes BY <1>2 DEF ToSet
  <1> QED BY <1>1, <1>3

LEMMA BytesOfTail ==
  ASSUME NEW ts \in Seq(Transfer), ts # <<>>, NEW st
  PROVE  BytesOf(st, ts) = BytesOf(st, Tail(ts))
                  \cup (IF Head(ts).status = st THEN ToSet(Head(ts).bytes) ELSE {})
  <1>1. /\ Tail(ts) \in Seq(Transfer) /\ Head(ts) = ts[1] /\ Len(ts) \in Nat \ {0}
        /\ Len(Tail(ts)) = Len(ts) - 1
        /\ \A i \in 1 .. Len(ts) - 1 : Tail(ts)[i] = ts[i + 1]
    OBVIOUS
  <1>2. ASSUME NEW b \in BytesOf(st, ts)
        PROVE  b \in BytesOf(st, Tail(ts))
                  \cup (IF Head(ts).status = st THEN ToSet(Head(ts).bytes) ELSE {})
    <2>1. PICK i \in 1 .. Len(ts) : ts[i].status = st /\ b \in ToSet(ts[i].bytes)
      BY <1>2, BytesOfDef
    <2>2. CASE i = 1 BY <1>1, <2>1, <2>2
    <2>3. CASE i # 1
      <3>1. i - 1 \in 1 .. Len(ts) - 1 /\ (i - 1) + 1 = i BY <1>1, <2>3
      <3>2. Tail(ts)[i - 1] = ts[i] BY <1>1, <3>1
      <3> QED BY <1>1, <2>1, <3>1, <3>2, BytesOfDef
    <2> QED BY <2>2, <2>3
  <1>3. BytesOf(st, Tail(ts)) \subseteq BytesOf(st, ts)
    <2> SUFFICES ASSUME NEW b \in BytesOf(st, Tail(ts)) PROVE b \in BytesOf(st, ts)
      OBVIOUS
    <2>0. b \in BytesOf(st, Tail(ts)) <=>
             \E i \in 1 .. Len(Tail(ts)) : /\ Tail(ts)[i].status = st
                                           /\ b \in ToSet(Tail(ts)[i].bytes)
      BY Zenon DEF BytesOf
    <2>1. PICK i \in 1 .. Len(ts) - 1 :
             Tail(ts)[i].status = st /\ b \in ToSet(Tail(ts)[i].bytes)
      BY <1>1, <2>0
    <2>2. i + 1 \in 1 .. Len(ts) BY <1>1
    <2> QED BY <1>1, <2>1, <2>2, BytesOfDef
  <1>4. Head(ts).status = st => ToSet(Head(ts).bytes) \subseteq BytesOf(st, ts)
    <2>1. 1 \in 1 .. Len(ts) BY <1>1
    <2> QED BY <1>1, <2>1, BytesOfDef
  <1> QED BY <1>2, <1>3, <1>4

LEMMA BytesOfAppend ==
  ASSUME NEW ts \in Seq(Transfer), NEW t \in Transfer, NEW st
  PROVE  /\ Append(ts, t) \in Seq(Transfer) /\ Len(Append(ts, t)) = Len(ts) + 1
         /\ BytesOf(st, Append(ts, t)) = BytesOf(st, ts)
                  \cup (IF t.status = st THEN ToSet(t.bytes) ELSE {})
  <1>1. /\ Append(ts, t) \in Seq(Transfer) /\ Len(ts) \in Nat
        /\ Len(Append(ts, t)) = Len(ts) + 1 /\ Append(ts, t)[Len(ts) + 1] = t
        /\ \A i \in 1 .. Len(ts) : Append(ts, t)[i] = ts[i]
    OBVIOUS
  <1>2. \A i \in 1 .. Len(ts) + 1 : i \in 1 .. Len(ts) \/ i = Len(ts) + 1 BY <1>1
  <1>3. \A i \in 1 .. Len(ts) : i \in 1 .. Len(ts) + 1 BY <1>1
  <1>4. Len(ts) + 1 \in 1 .. Len(ts) + 1 BY <1>1
  <1>5. ASSUME NEW b
        PROVE  b \in BytesOf(st, Append(ts, t)) <=>
                  \/ b \in BytesOf(st, ts) \/ (t.status = st /\ b \in ToSet(t.bytes))
    <2>1. b \in BytesOf(st, Append(ts, t)) <=>
             \E i \in 1 .. Len(ts) + 1 : /\ Append(ts, t)[i].status = st
                                         /\ b \in ToSet(Append(ts, t)[i].bytes)
      <3>1. b \in BytesOf(st, Append(ts, t)) <=>
               \E i \in 1 .. Len(Append(ts, t)) : /\ Append(ts, t)[i].status = st
                                                  /\ b \in ToSet(Append(ts, t)[i].bytes)
        BY Zenon DEF BytesOf
      <3> QED BY <1>1, <3>1
    <2>2. b \in BytesOf(st, ts) <=>
             \E i \in 1 .. Len(ts) : ts[i].status = st /\ b \in ToSet(ts[i].bytes)
      BY BytesOfDef
    <2> QED BY <1>1, <1>2, <1>3, <1>4, <2>1, <2>2
  <1> QED BY <1>1, <1>5

\* Transfer k, which was in progress, has ended.
LEMMA BytesOfEnded ==
  ASSUME NEW ts \in Seq(Transfer), NEW k \in 1 .. Len(ts), ts[k].status = "busy",
         NEW st \in {"done", "failed"}, NEW us, us = [ts EXCEPT ![k].status = st]
  PROVE  /\ us \in Seq(Transfer) /\ Len(us) = Len(ts)
         /\ BytesOf("busy", ts) \subseteq BytesOf("busy", us) \cup ToSet(ts[k].bytes)
         /\ BytesOf("failed", us) = BytesOf("failed", ts)
                  \cup (IF st = "failed" THEN ToSet(ts[k].bytes) ELSE {})
  <1>1. ts[k] \in Transfer OBVIOUS
  <1>2. [ts[k] EXCEPT !.status = st] \in Transfer /\ [ts[k] EXCEPT !.status = st].status = st
        /\ [ts[k] EXCEPT !.status = st].bytes = ts[k].bytes
    BY <1>1 DEF Transfer
  <1>3. us = [ts EXCEPT ![k] = [ts[k] EXCEPT !.status = st]] OBVIOUS
  <1>4. us \in Seq(Transfer) /\ Len(us) = Len(ts) BY <1>2, <1>3
  <1>5. /\ us[k].status = st /\ us[k].bytes = ts[k].bytes
        /\ \A i \in 1 .. Len(ts) : i # k => us[i] = ts[i]
    BY <1>2, <1>3
  <1>6. ASSUME NEW b \in BytesOf("busy", ts)
        PROVE  b \in BytesOf("busy", us) \cup ToSet(ts[k].bytes)
    <2>1. PICK i \in 1 .. Len(ts) : ts[i].status = "busy" /\ b \in ToSet(ts[i].bytes)
      BY <1>6, BytesOfDef
    <2>2. ASSUME i # k PROVE b \in BytesOf("busy", us)
      <3>1. us[i].status = "busy" /\ b \in ToSet(us[i].bytes) BY <1>5, <2>1, <2>2
      <3>2. i \in 1 .. Len(us) BY <1>4
      <3>3. b \in BytesOf("busy", us) <=>
               \E j \in 1 .. Len(us) : us[j].status = "busy" /\ b \in ToSet(us[j].bytes)
        BY Zenon DEF BytesOf
      <3> QED BY <3>1, <3>2, <3>3
    <2> QED BY <2>1, <2>2
  <1>7. ASSUME NEW b
        PROVE  b \in BytesOf("failed", us) <=>
                 b \in BytesOf("failed", ts) \/ (st = "failed" /\ b \in ToSet(ts[k].bytes))
    <2>1. b \in BytesOf("failed", us) <=>
             \E i \in 1 .. Len(ts) : us[i].status = "failed" /\ b \in ToSet(us[i].bytes)
      <3>1. b \in BytesOf("failed", us) <=>
               \E i \in 1 .. Len(us) : us[i].status = "failed" /\ b \in ToSet(us[i].bytes)
        BY Zenon DEF BytesOf
      <3> QED BY <1>4, <3>1
    <2>2. b \in BytesOf("failed", ts) <=>
             \E i \in 1 .. Len(ts) : ts[i].status = "failed" /\ b \in ToSet(ts[i].bytes)
      BY BytesOfDef
    <2> QED BY <1>5, <2>1, <2>2
  <1> QED BY <1>4, <1>6, <1>7

-----------------------------------------------------------------------------
(* Types. *)

LEMMA SizeFacts ==
  /\ BufferSize \in Nat /\ BufferSize > 0 /\ Transfers \in Nat /\ Transfers > 0
  /\ FifoDepth \in Nat /\ MaxCalls \in Nat /\ "free" \notin Clones
  /\ \A n \in Sizes : n \in Nat
  BY SizeAssumption, BoundAssumption, LockAssumption

LEMMA InitTransmit == Init => TransmitIInv
  <1> SUFFICES ASSUME Init PROVE TransmitIInv
    OBVIOUS
  <1>0. /\ <<>> \in Seq(Bytes) /\ <<>> \in Seq(Transfer) /\ Len(<<>>) = 0
        /\ 0 \in 0 .. 0 /\ 0 \in 0 .. MaxCalls /\ {} \subseteq Bytes
    BY SizeFacts
  <1>1. TypeOK
    <2>1. step \in [Clones -> Steps] /\ target \in [Clones -> Nat] BY DEF Init, Steps
    <2>2. /\ lock \in {"free"} \cup Clones /\ patience \in {"io", "drain"} /\ cancelled \in BOOLEAN
      BY DEF Init
    <2>3. buffer \in Seq(Bytes) /\ Len(buffer) < BufferSize BY <1>0, SizeFacts DEF Init
    <2>4. pending \in Seq(Transfer) /\ Len(pending) <= Transfers BY <1>0, SizeFacts DEF Init
    <2>5. /\ fifo \in Seq(Bytes) /\ Len(fifo) <= FifoDepth
          /\ shift \in Seq(Bytes) /\ wire \in Seq(Bytes)
      BY <1>0, SizeFacts DEF Init
    <2>6. /\ accepted \in Nat /\ submitted \in 0 .. accepted /\ covered \in 0 .. accepted
          /\ lost \subseteq Bytes /\ reported \subseteq lost /\ calls \in 0 .. MaxCalls
      BY <1>0, SizeFacts DEF Init
    <2> QED BY <2>1, <2>2, <2>3, <2>4, <2>5, <2>6 DEF TypeOK
  <1>2. OwnPatience BY SizeFacts DEF Init, OwnPatience
  <1>3. RoomInv /\ Located /\ LossInv /\ DrainInv /\ DrainCovers
    BY DEF Init, RoomInv, Located, LossInv, DrainInv, DrainCovers, Draining
  <1> QED BY <1>1, <1>2, <1>3 DEF TransmitIInv, WriterInv

LEMMA ReturnsFacts ==
  ASSUME TypeOK, NEW c \in Clones, Returns(c)
  PROVE  step' \in [Clones -> Steps] /\ target' \in [Clones -> Nat]
  BY DEF TypeOK, Returns, Goto, Steps

LEMMA ReapFacts ==
  ASSUME TypeOK, pending # <<>>
  PROVE  /\ Tail(pending) \in Seq(Transfer) /\ Len(Tail(pending)) <= Transfers
         /\ Head(pending) \in Transfer /\ ToSet(Head(pending).bytes) \subseteq Bytes
  <1>1. /\ Tail(pending) \in Seq(Transfer) /\ Len(Tail(pending)) = Len(pending) - 1
        /\ Head(pending) \in Transfer /\ Len(pending) \in Nat
    BY DEF TypeOK
  <1>2. Head(pending).bytes \in Seq(Bytes) BY <1>1 DEF Transfer
  <1>3. ToSet(Head(pending).bytes) \subseteq Bytes BY <1>2 DEF ToSet
  <1> QED BY <1>1, <1>3, SizeFacts DEF TypeOK

\* EndpointWrite submits its buffer when there is room for a transfer.
LEMMA QueuedFacts ==
  ASSUME TypeOK
  PROVE  /\ Queued \in Seq(Transfer)
         /\ Len(Queued) <= Len(pending) + 1
         /\ BytesOf("busy", Queued) = BytesOf("busy", pending) \cup ToSet(buffer)
         /\ BytesOf("failed", Queued) = BytesOf("failed", pending)
  <1>1. CASE buffer = <<>>
    BY <1>1, SetOfEmpty DEF TypeOK, Queued
  <1>2. CASE buffer # <<>>
    <2> DEFINE t == [bytes |-> buffer, status |-> "busy"]
    <2>1. t \in Transfer /\ t.status = "busy" /\ t.bytes = buffer BY DEF TypeOK, Transfer
    <2>2. Queued = Append(pending, t) BY <1>2 DEF Queued
    <2>3. pending \in Seq(Transfer) BY DEF TypeOK
    <2>4. /\ Queued \in Seq(Transfer) /\ Len(Queued) = Len(pending) + 1
          /\ BytesOf("busy", Queued) = BytesOf("busy", pending)
                  \cup (IF t.status = "busy" THEN ToSet(t.bytes) ELSE {})
          /\ BytesOf("failed", Queued) = BytesOf("failed", pending)
                  \cup (IF t.status = "failed" THEN ToSet(t.bytes) ELSE {})
      BY <2>1, <2>2, <2>3, BytesOfAppend
    <2> HIDE DEF t
    <2> QED BY <2>1, <2>4
  <1> QED BY <1>1, <1>2

LEMMA AcceptFacts ==
  ASSUME TypeOK, NEW n \in Nat
  PROVE  LET new == [i \in 1 .. n |-> accepted + i]
         IN  new \in Seq(Bytes) /\ Len(new) = n /\ ToSet(new) = accepted + 1 .. accepted + n
  <1> DEFINE new == [i \in 1 .. n |-> accepted + i]
  <1>1. accepted \in Nat BY DEF TypeOK
  <1>2. \A i \in 1 .. n : accepted + i \in Bytes BY <1>1 DEF Bytes
  <1>3. new \in Seq(Bytes) /\ Len(new) = n /\ DOMAIN new = 1 .. n BY <1>2
  <1>4. ToSet(new) \subseteq accepted + 1 .. accepted + n BY <1>1, <1>3 DEF ToSet
  <1>5. ASSUME NEW b \in accepted + 1 .. accepted + n PROVE b \in ToSet(new)
    <2>1. b - accepted \in 1 .. n /\ accepted + (b - accepted) = b BY <1>1
    <2>2. new[b - accepted] = b BY <2>1
    <2> QED BY <1>3, <2>1, <2>2 DEF ToSet
  <1> QED BY <1>3, <1>4, <1>5

LEMMA ArriveFacts ==
  ASSUME TypeOK, NEW bytes \in Seq(Bytes), NEW n \in 0 .. Len(bytes), NEW set \in SUBSET Bytes,
         Arrive(bytes, n, set)
  PROVE  /\ fifo' \in Seq(Bytes) /\ Len(fifo') <= FifoDepth
         /\ lost \subseteq lost' /\ lost' \subseteq lost \cup set
         /\ ToSet(fifo) \subseteq ToSet(fifo')
         /\ set \subseteq ToSet(fifo') \cup lost'
         /\ n = Len(bytes) /\ set = ToSet(bytes) => lost' = lost
  <1>1. fifo \in Seq(Bytes) BY DEF TypeOK
  <1>2. /\ SubSeq(bytes, 1, n) \in Seq(Bytes) /\ Len(SubSeq(bytes, 1, n)) = n
        /\ n = Len(bytes) => ToSet(SubSeq(bytes, 1, n)) = ToSet(bytes)
    BY SetOfPrefix
  <1> DEFINE sent == SubSeq(bytes, 1, n)
  <1>5. sent \in Seq(Bytes) /\ Len(sent) = n /\ (n = Len(bytes) => ToSet(sent) = ToSet(bytes))
    BY <1>2
  <1>4. fifo' = fifo \o sent /\ Len(fifo) + n <= FifoDepth /\ lost' = lost \cup (set \ ToSet(sent))
    BY DEF Arrive
  <1> HIDE DEF sent
  <1>3. /\ fifo \o sent \in Seq(Bytes) /\ Len(fifo \o sent) = Len(fifo) + Len(sent)
        /\ ToSet(fifo \o sent) = ToSet(fifo) \cup ToSet(sent)
    BY <1>1, <1>5, SetOfConcat
  <1> QED BY <1>3, <1>4, <1>5

LEMMA UnsentFacts ==
  ASSUME TypeOK
  PROVE  UnsentBytes = BytesOf("busy", pending) \cup ToSet(buffer) /\ UnsentBytes \subseteq Bytes
  <1>1. UnsentBytes = BytesOf("busy", pending) \cup ToSet(buffer)
    <2>1. Busy = {j \in 1 .. Len(pending) : pending[j].status = "busy"} BY Zenon DEF Busy
    <2>2. BytesOf("busy", pending) = UNION {ToSet(pending[i].bytes) : i \in Busy}
      BY <2>1, Zenon DEF BytesOf
    <2> QED BY <2>2 DEF UnsentBytes
  <1>2. BytesOf("busy", pending) \subseteq Bytes BY BytesOfDef DEF TypeOK
  <1>3. ToSet(buffer) \subseteq Bytes BY DEF TypeOK, ToSet
  <1> QED BY <1>1, <1>2, <1>3

\* Of the parts of a transfer in progress.
LEMMA BusyFacts ==
  ASSUME TypeOK, NEW i \in 1 .. Len(pending), Oldest(i)
  PROVE  /\ pending[i] \in Transfer /\ pending[i].status = "busy"
         /\ pending[i].bytes \in Seq(Bytes) /\ ToSet(pending[i].bytes) \subseteq Bytes
         /\ ToSet(pending[i].bytes) \subseteq BytesOf("busy", pending)
  <1>1. pending[i] \in Transfer BY DEF TypeOK
  <1>2. pending[i].status = "busy" BY DEF Oldest, Busy
  <1>3. pending[i].bytes \in Seq(Bytes) BY <1>1 DEF Transfer
  <1>4. ToSet(pending[i].bytes) \subseteq Bytes BY <1>3 DEF ToSet
  <1>5. ToSet(pending[i].bytes) \subseteq BytesOf("busy", pending) BY <1>2 DEF BytesOf
  <1> QED BY <1>1, <1>2, <1>3, <1>4, <1>5

-----------------------------------------------------------------------------
(* What each step does to the bytes. *)

\* Nothing that matters to them.
Quiet(c) == \/ WriteCall(c) \/ SubmitCall(c) \/ DrainCall(c) \/ Cancel(c) \/ Leave(c)
            \/ Lock(c) \/ WriteTimeout(c) \/ FlushTimeout(c) \/ FlushEnds(c) \/ Status(c)
Reaps(c)   == WriteReaps(c) \/ FlushReaps(c)
Submits(c) == Submit(c) \/ FlushSubmits(c)

LEMMA CloneCases ==
  ASSUME NEW c, Clone(c)
  PROVE  Quiet(c) \/ Reaps(c) \/ Submits(c) \/ WriteAccepts(c)
  BY DEF Clone, Quiet, Reaps, Submits

LEMMA QuietBytes ==
  ASSUME NEW c, Quiet(c)
  PROVE  UNCHANGED <<hostVars, deviceVars, accepted, submitted, lost, reported>>
  BY DEF Quiet, WriteCall, SubmitCall, DrainCall, Cancel, Leave, Lock, WriteTimeout,
         FlushTimeout, FlushEnds, Status, history

LEMMA ReapBytes ==
  ASSUME TypeOK, NEW c, Reaps(c)
  PROVE  /\ UNCHANGED <<buffer, deviceVars, accepted, submitted, covered, lost, calls>>
         /\ pending' \in Seq(Transfer) /\ Len(pending') <= Transfers
         /\ reported \subseteq reported' /\ (reported \subseteq lost => reported' \subseteq lost)
         /\ BytesOf("busy", pending') = BytesOf("busy", pending)
         /\ lost \cap BytesOf("failed", pending)
                \subseteq BytesOf("failed", pending') \cup reported'
  <1>1. /\ pending # <<>> /\ pending' = Tail(pending)
        /\ \/ Head(pending).status = "done" /\ reported' = reported
           \/ Head(pending).status = "failed" /\ Reports
    BY DEF Reaps, WriteReaps, FlushReaps, Completed
  <1>2. pending \in Seq(Transfer) BY DEF TypeOK
  <1>3. /\ BytesOf("busy", pending) = BytesOf("busy", pending')
                  \cup (IF Head(pending).status = "busy" THEN ToSet(Head(pending).bytes) ELSE {})
        /\ BytesOf("failed", pending) = BytesOf("failed", pending')
                  \cup (IF Head(pending).status = "failed" THEN ToSet(Head(pending).bytes) ELSE {})
    BY <1>1, <1>2, BytesOfTail
  <1>4. UNCHANGED <<buffer, deviceVars, accepted, submitted, covered, lost, calls>>
    BY DEF Reaps, WriteReaps, FlushReaps
  <1>5. CASE Head(pending).status = "done" /\ reported' = reported
    BY <1>1, <1>3, <1>4, <1>5, ReapFacts
  <1>6. CASE Head(pending).status = "failed" /\ Reports
    BY <1>1, <1>3, <1>4, <1>6, ReapFacts DEF Reports
  <1> QED BY <1>1, <1>5, <1>6

LEMMA SubmitBytes ==
  ASSUME TypeOK, RoomInv, NEW c, Submits(c)
  PROVE  /\ UNCHANGED <<deviceVars, accepted, covered, lost, reported, calls>>
         /\ submitted' \in {submitted, accepted} /\ buffer' = <<>>
         /\ pending' \in Seq(Transfer) /\ Len(pending') <= Transfers
         /\ BytesOf("busy", pending') = BytesOf("busy", pending) \cup ToSet(buffer)
         /\ BytesOf("failed", pending') = BytesOf("failed", pending)
  <1>1. /\ UNCHANGED <<deviceVars, accepted, covered, lost, reported, calls>>
        /\ submitted' \in {submitted, accepted} /\ buffer' = <<>> /\ pending' = Queued
    BY DEF Submits, Submit, FlushSubmits, history
  <1>2. Len(Queued) <= Transfers
    <2>1. pending \in Seq(Transfer) /\ Len(pending) <= Transfers BY DEF TypeOK
    <2>2. CASE buffer = <<>> BY <2>1, <2>2 DEF Queued
    <2>3. CASE buffer # <<>>
      <3>1. Len(pending) < Transfers /\ Len(pending) \in Nat BY <2>1, <2>3 DEF RoomInv
      <3> QED BY <3>1, QueuedFacts, SizeFacts
    <2> QED BY <2>2, <2>3
  <1> QED BY <1>1, <1>2, QueuedFacts

LEMMA AcceptBytes ==
  ASSUME TypeOK, NEW c \in Clones, WriteAccepts(c)
  PROVE  /\ UNCHANGED <<deviceVars, submitted, covered, lost, reported, calls>>
         /\ accepted' \in Nat /\ accepted <= accepted'
         /\ buffer' \in Seq(Bytes) /\ Len(buffer') < BufferSize
         /\ pending' \in Seq(Transfer) /\ Len(pending') <= Transfers
         /\ buffer' # <<>> => Len(pending') < Transfers
         /\ BytesOf("failed", pending') = BytesOf("failed", pending)
         /\ BytesOf("busy", pending) \cup ToSet(buffer) \cup (accepted + 1 .. accepted')
                \subseteq BytesOf("busy", pending') \cup ToSet(buffer')
  <1> DEFINE room == BufferSize - Len(buffer)
             n    == IF target[c] < room THEN target[c] ELSE room
             new  == [i \in 1 .. n |-> accepted + i]
             next == buffer \o new
             t    == [bytes |-> next, status |-> "busy"]
  <1>1. /\ buffer \in Seq(Bytes) /\ Len(buffer) < BufferSize /\ accepted \in Nat
        /\ target[c] \in Nat /\ pending \in Seq(Transfer) /\ Len(buffer) \in Nat
    BY DEF TypeOK
  <1>2. room \in Nat /\ n \in Nat /\ n <= room BY <1>1, SizeFacts
  <1>3. /\ UNCHANGED <<deviceVars, submitted, covered, lost, reported, calls>>
        /\ Len(pending) < Transfers /\ accepted' = accepted + n
        /\ \/ n < room /\ buffer' = next /\ pending' = pending
           \/ n = room /\ buffer' = <<>> /\ pending' = Append(pending, t)
    BY <1>2 DEF WriteAccepts
  <1> HIDE DEF room, n
  <1>4. new \in Seq(Bytes) /\ Len(new) = n /\ ToSet(new) = accepted + 1 .. accepted + n
    BY <1>2, AcceptFacts
  <1> HIDE DEF new
  <1>5. /\ next \in Seq(Bytes) /\ Len(next) = Len(buffer) + n
        /\ ToSet(next) = ToSet(buffer) \cup ToSet(new)
    <2>1. buffer \in Seq(Bytes) /\ new \in Seq(Bytes) /\ Len(new) = n BY <1>1, <1>4
    <2> HIDE DEF next
    <2>2. next = buffer \o new BY DEF next
    <2>3. /\ buffer \o new \in Seq(Bytes) /\ Len(buffer \o new) = Len(buffer) + Len(new)
          /\ ToSet(buffer \o new) = ToSet(buffer) \cup ToSet(new)
      BY <2>1, SetOfConcat
    <2> QED BY <2>1, <2>2, <2>3
  <1> HIDE DEF next
  <1>6. accepted' \in Nat /\ accepted <= accepted' BY <1>1, <1>2, <1>3
  <1>7. CASE n < room /\ buffer' = next /\ pending' = pending
    <2>1. Len(buffer') < BufferSize BY <1>1, <1>2, <1>5, <1>7, SizeFacts DEF room
    <2> QED BY <1>1, <1>3, <1>4, <1>5, <1>6, <1>7, <2>1 DEF TypeOK
  <1>8. CASE n = room /\ buffer' = <<>> /\ pending' = Append(pending, t)
    <2>1. t \in Transfer /\ t.status = "busy" /\ t.bytes = next BY <1>5 DEF Transfer
    <2> HIDE DEF t
    <2>2. /\ Append(pending, t) \in Seq(Transfer) /\ Len(Append(pending, t)) = Len(pending) + 1
          /\ BytesOf("busy", Append(pending, t)) = BytesOf("busy", pending)
                  \cup (IF t.status = "busy" THEN ToSet(t.bytes) ELSE {})
          /\ BytesOf("failed", Append(pending, t)) = BytesOf("failed", pending)
                  \cup (IF t.status = "failed" THEN ToSet(t.bytes) ELSE {})
      BY <1>1, <2>1, BytesOfAppend
    <2>3. Len(pending') <= Transfers BY <1>1, <1>3, <1>8, <2>2, SizeFacts
    <2>4. buffer' \in Seq(Bytes) /\ Len(buffer') < BufferSize /\ ~(buffer' # <<>>)
      BY <1>8, SizeFacts
    <2>5. /\ BytesOf("failed", pending') = BytesOf("failed", pending)
          /\ BytesOf("busy", pending') = BytesOf("busy", pending) \cup ToSet(next)
      BY <1>8, <2>1, <2>2
    <2> QED BY <1>3, <1>4, <1>5, <1>6, <1>8, <2>2, <2>3, <2>4, <2>5
  <1> QED BY <1>3, <1>7, <1>8

LEMMA TransferBytes ==
  ASSUME TypeOK, TransferDone
  PROVE  /\ UNCHANGED <<buffer, shift, wire, accepted, submitted, covered, reported, calls>>
         /\ pending' \in Seq(Transfer) /\ Len(pending') = Len(pending)
         /\ fifo' \in Seq(Bytes) /\ Len(fifo') <= FifoDepth /\ ToSet(fifo) \subseteq ToSet(fifo')
         /\ lost \subseteq lost' /\ lost' \subseteq Bytes
         /\ BytesOf("busy", pending)
                \subseteq BytesOf("busy", pending') \cup ToSet(fifo') \cup lost'
         /\ BytesOf("failed", pending) \cup (lost' \ lost) \subseteq BytesOf("failed", pending')
  <1>1. UNCHANGED <<buffer, shift, wire, accepted, submitted, covered, reported, calls>>
    BY DEF TransferDone
  <1>2. PICK i \in 1 .. Len(pending) :
          /\ Oldest(i)
          /\ \/ /\ Arrive(pending[i].bytes, Len(pending[i].bytes), ToSet(pending[i].bytes))
                /\ pending' = [pending EXCEPT ![i].status = "done"]
             \/ /\ \E n \in 0 .. Len(pending[i].bytes) - 1 :
                      Arrive(pending[i].bytes, n, ToSet(pending[i].bytes))
                /\ pending' = [pending EXCEPT ![i].status = "failed"]
    BY DEF TransferDone
  <1> DEFINE bytes == pending[i].bytes
  <1>3. /\ pending \in Seq(Transfer) /\ pending[i].status = "busy"
        /\ bytes \in Seq(Bytes) /\ ToSet(bytes) \in SUBSET Bytes /\ Len(bytes) \in Nat
    BY <1>2, BusyFacts DEF TypeOK
  <1>4. PICK n \in 0 .. Len(bytes) : Arrive(bytes, n, ToSet(bytes)) BY <1>2, <1>3
  <1>5. /\ fifo' \in Seq(Bytes) /\ Len(fifo') <= FifoDepth
        /\ lost \subseteq lost' /\ lost' \subseteq lost \cup ToSet(bytes)
        /\ ToSet(fifo) \subseteq ToSet(fifo') /\ ToSet(bytes) \subseteq ToSet(fifo') \cup lost'
    BY <1>3, <1>4, ArriveFacts
  <1>6. CASE /\ Arrive(bytes, Len(bytes), ToSet(bytes))
             /\ pending' = [pending EXCEPT ![i].status = "done"]
    <2>1. lost' = lost
      <3>1. Len(bytes) \in 0 .. Len(bytes) BY <1>3
      <3> QED BY <1>3, <1>6, <3>1, ArriveFacts
    <2>2. /\ pending' \in Seq(Transfer) /\ Len(pending') = Len(pending)
          /\ BytesOf("busy", pending) \subseteq BytesOf("busy", pending') \cup ToSet(bytes)
          /\ BytesOf("failed", pending') = BytesOf("failed", pending)
                  \cup (IF "done" = "failed" THEN ToSet(bytes) ELSE {})
      <3>1. PICK st \in {"done", "failed"} :
               st = "done" /\ pending' = [pending EXCEPT ![i].status = st]
        BY <1>6
      <3>2. /\ pending' \in Seq(Transfer) /\ Len(pending') = Len(pending)
            /\ BytesOf("busy", pending) \subseteq BytesOf("busy", pending') \cup ToSet(bytes)
            /\ BytesOf("failed", pending') = BytesOf("failed", pending)
                    \cup (IF st = "failed" THEN ToSet(bytes) ELSE {})
        BY <1>3, <3>1, BytesOfEnded
      <3> QED BY <3>1, <3>2
    <2> QED BY <1>1, <1>3, <1>5, <2>1, <2>2 DEF TypeOK
  <1>7. CASE pending' = [pending EXCEPT ![i].status = "failed"]
    <2>2. /\ pending' \in Seq(Transfer) /\ Len(pending') = Len(pending)
          /\ BytesOf("busy", pending) \subseteq BytesOf("busy", pending') \cup ToSet(bytes)
          /\ BytesOf("failed", pending') = BytesOf("failed", pending)
                  \cup (IF "failed" = "failed" THEN ToSet(bytes) ELSE {})
      BY <1>3, <1>7, BytesOfEnded
    <2> QED BY <1>1, <1>3, <1>5, <2>2 DEF TypeOK
  <1> QED BY <1>2, <1>6, <1>7

LEMMA DropBytes ==
  ASSUME TypeOK, Drop
  PROVE  /\ UNCHANGED <<shift, wire, accepted, submitted, covered, reported, calls>>
         /\ buffer' = <<>> /\ pending' = <<>>
         /\ fifo' \in Seq(Bytes) /\ Len(fifo') <= FifoDepth /\ ToSet(fifo) \subseteq ToSet(fifo')
         /\ lost \subseteq lost' /\ lost' \subseteq Bytes
         /\ BytesOf("busy", pending) \cup ToSet(buffer) \subseteq ToSet(fifo') \cup lost'
  <1>1. /\ UNCHANGED <<shift, wire, accepted, submitted, covered, reported, calls>>
        /\ buffer' = <<>> /\ pending' = <<>>
    BY DEF Drop
  <1>2. \/ lost' = lost \cup UnsentBytes /\ UNCHANGED fifo
        \/ \E i \in 1 .. Len(pending) :
              /\ Oldest(i)
              /\ \E n \in 1 .. Len(pending[i].bytes) : Arrive(pending[i].bytes, n, UnsentBytes)
    BY DEF Drop
  <1>3. UnsentBytes = BytesOf("busy", pending) \cup ToSet(buffer) /\ UnsentBytes \in SUBSET Bytes
    BY UnsentFacts
  <1>4. CASE lost' = lost \cup UnsentBytes /\ UNCHANGED fifo
    BY <1>1, <1>3, <1>4 DEF TypeOK
  <1>5. CASE \E i \in 1 .. Len(pending) :
              /\ Oldest(i)
              /\ \E n \in 1 .. Len(pending[i].bytes) : Arrive(pending[i].bytes, n, UnsentBytes)
    <2>1. PICK i \in 1 .. Len(pending) :
              /\ Oldest(i)
              /\ \E n \in 1 .. Len(pending[i].bytes) : Arrive(pending[i].bytes, n, UnsentBytes)
      BY <1>5
    <2>2. pending[i].bytes \in Seq(Bytes) BY <2>1, BusyFacts
    <2>3. PICK n \in 0 .. Len(pending[i].bytes) : Arrive(pending[i].bytes, n, UnsentBytes)
      BY <2>1, <2>2
    <2>4. /\ fifo' \in Seq(Bytes) /\ Len(fifo') <= FifoDepth
          /\ lost \subseteq lost' /\ lost' \subseteq lost \cup UnsentBytes
          /\ ToSet(fifo) \subseteq ToSet(fifo') /\ UnsentBytes \subseteq ToSet(fifo') \cup lost'
      BY <1>3, <2>2, <2>3, ArriveFacts
    <2> QED BY <1>1, <1>3, <2>4 DEF TypeOK
  <1> QED BY <1>2, <1>4, <1>5

LEMMA ShiftBytes ==
  ASSUME TypeOK, Shift
  PROVE  /\ UNCHANGED <<hostVars, history>>
         /\ fifo' \in Seq(Bytes) /\ Len(fifo') <= FifoDepth /\ shift' \in Seq(Bytes)
         /\ wire' \in Seq(Bytes) /\ ToSet(wire) \subseteq ToSet(wire') /\ OnDevice' = OnDevice
  <1>1. /\ UNCHANGED <<hostVars, history>> /\ <<>> \in Seq(Bytes)
        /\ fifo \in Seq(Bytes) /\ shift \in Seq(Bytes) /\ wire \in Seq(Bytes)
    BY DEF Shift, TypeOK
  <1>2. CASE /\ shift = <<>> /\ fifo # <<>>
             /\ shift' = <<Head(fifo)>> /\ fifo' = Tail(fifo) /\ UNCHANGED wire
    <2>1. /\ Tail(fifo) \in Seq(Bytes) /\ Head(fifo) \in Bytes /\ Len(Tail(fifo)) = Len(fifo) - 1
          /\ ToSet(fifo) = {Head(fifo)} \cup ToSet(Tail(fifo))
      BY <1>1, <1>2, SetOfTail
    <2>2. <<Head(fifo)>> \in Seq(Bytes) BY <2>1
    <2>3. ToSet(<<Head(fifo)>>) = {Head(fifo)} BY DEF ToSet
    <2>4. Len(fifo') <= FifoDepth BY <1>1, <1>2, <2>1, SizeFacts DEF TypeOK
    <2>5. OnDevice' = OnDevice BY <1>2, <2>1, <2>3, SetOfEmpty DEF OnDevice
    <2> QED BY <1>1, <1>2, <2>1, <2>2, <2>4, <2>5
  <1>3. CASE shift # <<>> /\ wire' = wire \o shift /\ shift' = <<>> /\ UNCHANGED fifo
    <2>1. wire \o shift \in Seq(Bytes) /\ ToSet(wire \o shift) = ToSet(wire) \cup ToSet(shift)
      BY <1>1, SetOfConcat
    <2>2. OnDevice' = OnDevice BY <1>3, <2>1, SetOfEmpty DEF OnDevice
    <2> QED BY <1>1, <1>3, <2>1, <2>2 DEF TypeOK
  <1> QED BY <1>2, <1>3 DEF Shift

-----------------------------------------------------------------------------
(* What a step leaves of the data, whoever takes it. *)

DataOK ==
    /\ buffer \in Seq(Bytes) /\ Len(buffer) < BufferSize
    /\ pending \in Seq(Transfer) /\ Len(pending) <= Transfers
    /\ fifo \in Seq(Bytes) /\ Len(fifo) <= FifoDepth
    /\ shift \in Seq(Bytes) /\ wire \in Seq(Bytes)
    /\ accepted \in Nat /\ submitted \in 0 .. accepted
    /\ lost \subseteq Bytes /\ reported \subseteq lost

\* A byte that the device has stays there, a loss that is reported stays so, and
\* what is lost in this step is of a transfer that has failed.
Kept ==
    /\ OnDevice \subseteq OnDevice' /\ ToSet(wire) \subseteq ToSet(wire)'
    /\ reported \subseteq reported' /\ accepted <= accepted'
Blamed ==
    lost \subseteq reported \cup BytesOf("failed", pending)
        => lost' \subseteq reported' \cup BytesOf("failed", pending')

LEMMA DataFacts ==
  ASSUME TypeOK
  PROVE  DataOK
  BY DEF TypeOK, DataOK

LEMMA DataStep ==
  ASSUME TypeOK, RoomInv, Located, [Next]_vars
  PROVE  DataOK' /\ RoomInv' /\ Located' /\ Kept /\ (Drop \/ Blamed)
  <1>0. /\ accepted \in Nat /\ submitted \in Nat /\ submitted <= accepted /\ DataOK
        /\ 1 .. accepted
               \subseteq OnDevice \cup lost \cup BytesOf("busy", pending) \cup ToSet(buffer)
    BY DataFacts DEF TypeOK, Located
  <1>1. ASSUME UNCHANGED <<hostVars, deviceVars, accepted, submitted, lost, reported>>
        PROVE  DataOK' /\ RoomInv' /\ Located' /\ Kept /\ Blamed
    <2>1. /\ UNCHANGED <<buffer, pending, fifo, shift, wire, accepted, submitted, lost, reported>>
      BY <1>1 DEF hostVars, deviceVars
    <2>2. DataOK' BY <1>0, <2>1 DEF DataOK
    <2>3. RoomInv' BY <2>1 DEF RoomInv
    <2>4. Located' BY <2>1, Zenon DEF Located, OnDevice
    <2>5. Kept BY <1>0, <2>1 DEF Kept, OnDevice
    <2>6. Blamed BY <2>1 DEF Blamed
    <2> QED BY <2>2, <2>3, <2>4, <2>5, <2>6
  <1>2. ASSUME NEW c \in Clones, Clone(c)
        PROVE  DataOK' /\ RoomInv' /\ Located' /\ Kept /\ Blamed
    <2>1. CASE Quiet(c) BY <1>1, <2>1, QuietBytes
    <2>2. CASE Reaps(c)
      <3>1. /\ buffer' = buffer /\ fifo' = fifo /\ shift' = shift /\ wire' = wire
            /\ accepted' = accepted /\ submitted' = submitted /\ lost' = lost
            /\ pending' \in Seq(Transfer) /\ Len(pending') <= Transfers
            /\ reported \subseteq reported' /\ reported' \subseteq lost
            /\ BytesOf("busy", pending') = BytesOf("busy", pending)
            /\ lost \cap BytesOf("failed", pending)
                    \subseteq BytesOf("failed", pending') \cup reported'
        BY <2>2, ReapBytes DEF deviceVars, TypeOK
      <3>2. DataOK' BY <1>0, <3>1 DEF DataOK
      <3>3. RoomInv'
        <4>1. Len(pending') < Len(pending) /\ Len(pending) <= Transfers /\ Len(pending) \in Nat
          <5>1. pending # <<>> /\ pending' = Tail(pending) /\ pending \in Seq(Transfer)
            BY <2>2 DEF Reaps, WriteReaps, FlushReaps, Completed, TypeOK
          <5> QED BY <5>1 DEF TypeOK
        <4> QED BY <3>1, <4>1, SizeFacts DEF RoomInv
      <3>4. OnDevice' = OnDevice BY <3>1 DEF OnDevice
      <3>5. Located' BY <1>0, <3>1, <3>4 DEF Located
      <3>6. Kept /\ Blamed BY <1>0, <3>1, <3>4 DEF Kept, Blamed
      <3> QED BY <3>2, <3>3, <3>5, <3>6
    <2>3. CASE Submits(c)
      <3>1. /\ fifo' = fifo /\ shift' = shift /\ wire' = wire
            /\ accepted' = accepted /\ submitted' \in {submitted, accepted} /\ lost' = lost
            /\ reported' = reported /\ buffer' = <<>>
            /\ pending' \in Seq(Transfer) /\ Len(pending') <= Transfers
            /\ BytesOf("busy", pending') = BytesOf("busy", pending) \cup ToSet(buffer)
            /\ BytesOf("failed", pending') = BytesOf("failed", pending)
        BY <2>3, SubmitBytes DEF deviceVars
      <3>2. DataOK' BY <1>0, <3>1, SizeFacts DEF DataOK
      <3>3. RoomInv' BY <3>1 DEF RoomInv
      <3>4. OnDevice' = OnDevice BY <3>1 DEF OnDevice
      <3>5. Located' BY <1>0, <3>1, <3>4 DEF Located
      <3>6. Kept /\ Blamed BY <1>0, <3>1, <3>4 DEF Kept, Blamed
      <3> QED BY <3>2, <3>3, <3>5, <3>6
    <2>4. CASE WriteAccepts(c)
      <3>1. /\ fifo' = fifo /\ shift' = shift /\ wire' = wire /\ submitted' = submitted
            /\ lost' = lost /\ reported' = reported
            /\ accepted' \in Nat /\ accepted <= accepted'
            /\ buffer' \in Seq(Bytes) /\ Len(buffer') < BufferSize
            /\ pending' \in Seq(Transfer) /\ Len(pending') <= Transfers
            /\ (buffer' # <<>> => Len(pending') < Transfers)
            /\ BytesOf("failed", pending') = BytesOf("failed", pending)
            /\ BytesOf("busy", pending) \cup ToSet(buffer) \cup (accepted + 1 .. accepted')
                   \subseteq BytesOf("busy", pending') \cup ToSet(buffer')
        BY <2>4, AcceptBytes DEF deviceVars
      <3>2. DataOK' BY <1>0, <3>1 DEF DataOK
      <3>3. RoomInv' BY <3>1 DEF RoomInv
      <3>4. OnDevice' = OnDevice BY <3>1 DEF OnDevice
      <3>5. 1 .. accepted' \subseteq (1 .. accepted) \cup (accepted + 1 .. accepted')
        BY <1>0, <3>1
      <3>6. Located' BY <1>0, <3>1, <3>4, <3>5 DEF Located
      <3>7. Kept /\ Blamed BY <1>0, <3>1, <3>4 DEF Kept, Blamed
      <3> QED BY <3>2, <3>3, <3>6, <3>7
    <2> QED BY <1>2, <2>1, <2>2, <2>3, <2>4, CloneCases
  <1>3. ASSUME TransferDone
        PROVE  DataOK' /\ RoomInv' /\ Located' /\ Kept /\ Blamed
    <2>1. /\ buffer' = buffer /\ shift' = shift /\ wire' = wire /\ accepted' = accepted
          /\ submitted' = submitted /\ reported' = reported
          /\ pending' \in Seq(Transfer) /\ Len(pending') = Len(pending)
          /\ fifo' \in Seq(Bytes) /\ Len(fifo') <= FifoDepth /\ ToSet(fifo) \subseteq ToSet(fifo')
          /\ lost \subseteq lost' /\ lost' \subseteq Bytes
          /\ BytesOf("busy", pending)
                 \subseteq BytesOf("busy", pending') \cup ToSet(fifo') \cup lost'
          /\ BytesOf("failed", pending) \cup (lost' \ lost) \subseteq BytesOf("failed", pending')
      BY <1>3, TransferBytes
    <2>2. DataOK' BY <1>0, <2>1 DEF DataOK
    <2>3. RoomInv' BY <2>1 DEF RoomInv
    <2>4. OnDevice \subseteq OnDevice' /\ ToSet(fifo') \subseteq OnDevice'
      BY <2>1 DEF OnDevice
    <2>5. Located' BY <1>0, <2>1, <2>4 DEF Located
    <2>6. Kept /\ Blamed BY <1>0, <2>1, <2>4 DEF Kept, Blamed
    <2> QED BY <2>2, <2>3, <2>5, <2>6
  <1>4. ASSUME Drop
        PROVE  DataOK' /\ RoomInv' /\ Located' /\ Kept
    <2>1. /\ shift' = shift /\ wire' = wire /\ accepted' = accepted
          /\ submitted' = submitted /\ reported' = reported
          /\ buffer' = <<>> /\ pending' = <<>>
          /\ fifo' \in Seq(Bytes) /\ Len(fifo') <= FifoDepth /\ ToSet(fifo) \subseteq ToSet(fifo')
          /\ lost \subseteq lost' /\ lost' \subseteq Bytes
          /\ BytesOf("busy", pending) \cup ToSet(buffer) \subseteq ToSet(fifo') \cup lost'
      BY <1>4, DropBytes
    <2>2. /\ <<>> \in Seq(Bytes) /\ <<>> \in Seq(Transfer) /\ Len(<<>>) = 0
      OBVIOUS
    <2>3. DataOK' BY <1>0, <2>1, <2>2, SizeFacts DEF DataOK
    <2>4. RoomInv' BY <2>1 DEF RoomInv
    <2>5. OnDevice \subseteq OnDevice' /\ ToSet(fifo') \subseteq OnDevice'
      BY <2>1 DEF OnDevice
    <2>6. Located' BY <1>0, <2>1, <2>5 DEF Located
    <2>7. Kept BY <1>0, <2>1, <2>5 DEF Kept
    <2> QED BY <2>3, <2>4, <2>6, <2>7
  <1>5. ASSUME Shift
        PROVE  DataOK' /\ RoomInv' /\ Located' /\ Kept /\ Blamed
    <2>1. /\ buffer' = buffer /\ pending' = pending /\ accepted' = accepted
          /\ submitted' = submitted /\ lost' = lost /\ reported' = reported
          /\ fifo' \in Seq(Bytes) /\ Len(fifo') <= FifoDepth /\ shift' \in Seq(Bytes)
          /\ wire' \in Seq(Bytes) /\ ToSet(wire) \subseteq ToSet(wire') /\ OnDevice' = OnDevice
      BY <1>5, ShiftBytes DEF hostVars, history
    <2>2. DataOK' BY <1>0, <2>1 DEF DataOK
    <2>3. RoomInv' BY <2>1 DEF RoomInv
    <2>4. Located' BY <1>0, <2>1 DEF Located
    <2>5. Kept /\ Blamed BY <1>0, <2>1 DEF Kept, Blamed
    <2> QED BY <2>2, <2>3, <2>4, <2>5
  <1>6. ASSUME UNCHANGED vars
        PROVE  DataOK' /\ RoomInv' /\ Located' /\ Kept /\ Blamed
    <2>1. UNCHANGED <<hostVars, deviceVars, accepted, submitted, lost, reported>>
      BY <1>6 DEF vars, hostVars, deviceVars, history
    <2> QED BY <1>1, <2>1
  <1> QED BY <1>2, <1>3, <1>4, <1>5, <1>6 DEF Next, Device, Closed

-----------------------------------------------------------------------------
(* What a step leaves of the clones. *)

CloneOK ==
    /\ step \in [Clones -> Steps] /\ target \in [Clones -> Nat]
    /\ lock \in {"free"} \cup Clones /\ patience \in {"io", "drain"} /\ cancelled \in BOOLEAN
    /\ calls \in 0 .. MaxCalls

\* A clone goes from s to t; another keeps its place and its target.
Moves(c, s, t) ==
    /\ step[c] = s /\ step'[c] = t
    /\ \A d \in Clones : d # c => step'[d] = step[d] /\ target'[d] = target[d]

LEMMA GotoMoves ==
  ASSUME TypeOK, NEW c \in Clones, NEW t \in Steps, Goto(c, t),
         target' = target \/ \E n \in Nat : target' = [target EXCEPT ![c] = n]
  PROVE  /\ step' \in [Clones -> Steps] /\ target' \in [Clones -> Nat]
         /\ Moves(c, step[c], t)
         /\ step[c] \in Steps /\ target[c] \in Nat
  BY DEF TypeOK, Goto, Moves

LEMMA ReturnMoves ==
  ASSUME TypeOK, NEW c \in Clones, Returns(c)
  PROVE  /\ step' \in [Clones -> Steps] /\ target' \in [Clones -> Nat]
         /\ Moves(c, step[c], "idle")
  <1>1. "idle" \in Steps /\ 0 \in Nat BY DEF Steps
  <1> QED BY <1>1, GotoMoves DEF Returns

LEMMA CloneStays ==
  ASSUME TypeOK, NEW c \in Clones, UNCHANGED cloneVars
  PROVE  /\ step' \in [Clones -> Steps] /\ target' \in [Clones -> Nat]
         /\ Moves(c, step[c], step[c])
  BY DEF TypeOK, cloneVars, Moves

LEMMA CallFacts ==
  ASSUME TypeOK, NEW c \in Clones, Calls(c)
  PROVE  calls' \in 0 .. MaxCalls /\ step[c] = "idle"
  BY SizeFacts DEF TypeOK, Calls

\* The ways a clone moves, with what becomes of the lock and its timeout.
Locks(c) ==
    /\ lock = "free" /\ lock' = c
    /\ \/ Moves(c, "write", "writing") /\ patience' = patience
       \/ Moves(c, "submit", "submitting") /\ patience' = patience
       \/ Moves(c, "drain", "flush") /\ patience' = "drain"
Frees(c) ==
    /\ lock' = "free"
    /\ \/ step[c] \in {"writing", "submitting"} /\ Moves(c, step[c], "idle") /\ patience' = patience
       \/ Moves(c, "flushing", "idle") /\ patience' = "io"
       \/ Moves(c, "flushing", "status") /\ patience' = "io"
Keeps(c) ==
    /\ lock' = lock /\ patience' = patience
    /\ \/ Moves(c, step[c], step[c]) \/ Moves(c, "flush", "flushing")
       \/ Moves(c, "idle", "write") \/ Moves(c, "idle", "submit") \/ Moves(c, "idle", "drain")
       \/ Moves(c, "idle", "gone") \/ Moves(c, "status", "idle")

LEMMA CloneStep ==
  ASSUME TypeOK, NEW c \in Clones, Clone(c)
  PROVE  CloneOK' /\ (Locks(c) \/ Frees(c) \/ Keeps(c))
  <1>0. /\ lock \in {"free"} \cup Clones /\ patience \in {"io", "drain"} /\ cancelled \in BOOLEAN
        /\ calls \in 0 .. MaxCalls /\ accepted \in Nat
        /\ "write" \in Steps /\ "writing" \in Steps /\ "submit" \in Steps
        /\ "submitting" \in Steps /\ "drain" \in Steps /\ "flush" \in Steps
        /\ "flushing" \in Steps /\ "status" \in Steps /\ "gone" \in Steps
    BY DEF TypeOK, Steps
  <1>1. CASE WriteCall(c)
    <2>1. PICK n \in Sizes : IF cancelled THEN UNCHANGED cloneVars
                             ELSE Goto(c, "write") /\ target' = [target EXCEPT ![c] = n]
      BY <1>1 DEF WriteCall
    <2>2. /\ lock' = lock /\ patience' = patience /\ cancelled' = cancelled
          /\ calls' \in 0 .. MaxCalls /\ step[c] = "idle" /\ n \in Nat
      BY <1>1, SizeFacts, CallFacts DEF WriteCall
    <2>3. CASE cancelled
      <3>1. UNCHANGED cloneVars BY <2>1, <2>3
      <3> QED BY <1>0, <2>2, <3>1, CloneStays DEF CloneOK, Keeps
    <2>4. CASE ~cancelled
      <3>1. Goto(c, "write") /\ target' = [target EXCEPT ![c] = n] BY <2>1, <2>4
      <3> QED BY <1>0, <2>2, <3>1, GotoMoves DEF CloneOK, Keeps
    <2> QED BY <2>3, <2>4
  <1>2. CASE SubmitCall(c)
    <2>1. /\ lock' = lock /\ patience' = patience /\ cancelled' = cancelled /\ target' = target
          /\ calls' \in 0 .. MaxCalls /\ step[c] = "idle" /\ Goto(c, "submit")
      BY <1>2, CallFacts DEF SubmitCall
    <2> QED BY <1>0, <2>1, GotoMoves DEF CloneOK, Keeps
  <1>3. CASE DrainCall(c)
    <2>1. /\ lock' = lock /\ patience' = patience /\ cancelled' = cancelled
          /\ target' = [target EXCEPT ![c] = accepted]
          /\ calls' \in 0 .. MaxCalls /\ step[c] = "idle" /\ Goto(c, "drain")
      BY <1>3, CallFacts DEF DrainCall
    <2> QED BY <1>0, <2>1, GotoMoves DEF CloneOK, Keeps
  <1>4. CASE Cancel(c)
    <2>1. /\ lock' = lock /\ patience' = patience /\ cancelled' = TRUE
          /\ calls' \in 0 .. MaxCalls /\ UNCHANGED cloneVars
      BY <1>4, CallFacts DEF Cancel
    <2> QED BY <1>0, <2>1, CloneStays DEF CloneOK, Keeps
  <1>5. CASE Leave(c)
    <2>1. /\ lock' = lock /\ patience' = patience /\ cancelled' = cancelled /\ target' = target
          /\ calls' = calls /\ step[c] = "idle" /\ Goto(c, "gone")
      BY <1>5 DEF Leave, history
    <2> QED BY <1>0, <2>1, GotoMoves DEF CloneOK, Keeps
  <1>6. CASE Lock(c)
    <2>1. /\ lock = "free" /\ lock' = c /\ cancelled' = cancelled /\ target' = target
          /\ calls' = calls
          /\ \/ step[c] = "write" /\ Goto(c, "writing") /\ UNCHANGED patience
             \/ step[c] = "submit" /\ Goto(c, "submitting") /\ UNCHANGED patience
             \/ step[c] = "drain" /\ Goto(c, "flush") /\ patience' = "drain"
      BY <1>6 DEF Lock, history
    <2>2. CASE step[c] = "write" /\ Goto(c, "writing") /\ UNCHANGED patience
      BY <1>0, <2>1, <2>2, GotoMoves DEF CloneOK, Locks
    <2>3. CASE step[c] = "submit" /\ Goto(c, "submitting") /\ UNCHANGED patience
      BY <1>0, <2>1, <2>3, GotoMoves DEF CloneOK, Locks
    <2>4. CASE step[c] = "drain" /\ Goto(c, "flush") /\ patience' = "drain"
      BY <1>0, <2>1, <2>4, GotoMoves DEF CloneOK, Locks
    <2> QED BY <2>1, <2>2, <2>3, <2>4
  <1>7. CASE WriteReaps(c)
    <2>1. /\ patience' = patience /\ cancelled' = cancelled /\ calls' = calls
          /\ step[c] = "writing"
          /\ \/ UNCHANGED cloneVars /\ lock' = lock
             \/ Returns(c) /\ lock' = "free"
      BY <1>7 DEF WriteReaps
    <2> QED BY <1>0, <2>1, CloneStays, ReturnMoves DEF CloneOK, Keeps, Frees
  <1>8. CASE WriteTimeout(c) \/ WriteAccepts(c) \/ Submit(c)
    <2>1. /\ patience' = patience /\ cancelled' = cancelled /\ calls' = calls
          /\ step[c] \in {"writing", "submitting"} /\ Returns(c) /\ lock' = "free"
      BY <1>8 DEF WriteTimeout, WriteAccepts, Submit, history
    <2> QED BY <1>0, <2>1, ReturnMoves DEF CloneOK, Frees
  <1>9. CASE FlushSubmits(c)
    <2>1. /\ lock' = lock /\ patience' = patience /\ cancelled' = cancelled /\ target' = target
          /\ calls' = calls /\ step[c] = "flush" /\ Goto(c, "flushing")
      BY <1>9 DEF FlushSubmits, history
    <2> QED BY <1>0, <2>1, GotoMoves DEF CloneOK, Keeps
  <1>10. CASE FlushReaps(c)
    <2>1. /\ cancelled' = cancelled /\ calls' = calls /\ step[c] = "flushing"
          /\ \/ UNCHANGED cloneVars /\ lock' = lock /\ patience' = patience
             \/ Returns(c) /\ lock' = "free" /\ patience' = "io"
      BY <1>10 DEF FlushReaps, Unlocks
    <2> QED BY <1>0, <2>1, CloneStays, ReturnMoves DEF CloneOK, Keeps, Frees
  <1>11. CASE FlushTimeout(c)
    <2>1. /\ cancelled' = cancelled /\ calls' = calls /\ step[c] = "flushing"
          /\ Returns(c) /\ lock' = "free" /\ patience' = "io"
      BY <1>11 DEF FlushTimeout, Unlocks, history
    <2> QED BY <1>0, <2>1, ReturnMoves DEF CloneOK, Frees
  <1>12. CASE FlushEnds(c)
    <2>1. /\ cancelled' = cancelled /\ calls' = calls /\ step[c] = "flushing" /\ target' = target
          /\ Goto(c, "status") /\ lock' = "free" /\ patience' = "io"
      BY <1>12 DEF FlushEnds, Unlocks, history
    <2> QED BY <1>0, <2>1, GotoMoves DEF CloneOK, Frees
  <1>13. CASE Status(c)
    <2>1. /\ lock' = lock /\ patience' = patience /\ cancelled' = cancelled /\ calls' = calls
          /\ step[c] = "status" /\ Returns(c)
      BY <1>13 DEF Status
    <2> QED BY <1>0, <2>1, ReturnMoves DEF CloneOK, Keeps
  <1> QED BY <1>1, <1>2, <1>3, <1>4, <1>5, <1>6, <1>7, <1>8, <1>9, <1>10, <1>11, <1>12, <1>13
          DEF Clone

LEMMA PatienceStep ==
  ASSUME TypeOK, OwnPatience, NEW c \in Clones, Locks(c) \/ Frees(c) \/ Keeps(c)
  PROVE  OwnPatience'
  <1>0. /\ \A d \in Clones : lock = d <=> step[d] \in Holding
        /\ patience = "drain" <=> \E d \in Clones : step[d] \in {"flush", "flushing"}
        /\ patience \in {"io", "drain"}
    BY DEF OwnPatience, Holding, TypeOK
  <1>1. CASE Locks(c)
    <2>1. \A d \in Clones : step[d] \notin Holding BY <1>0, <1>1, SizeFacts DEF Locks
    <2>2. \A d \in Clones : d # c => step'[d] \notin Holding BY <1>1, <2>1 DEF Locks, Moves
    <2>3. step'[c] \in Holding /\ lock' = c BY <1>1 DEF Locks, Moves, Holding
    <2>4. ~(patience = "drain") BY <1>0, <2>1 DEF Holding
    <2>5. patience' = "drain" <=> step'[c] \in {"flush", "flushing"}
      BY <1>1, <2>4 DEF Locks, Moves
    <2> QED BY <2>2, <2>3, <2>5 DEF OwnPatience, Holding
  <1>2. CASE Frees(c)
    <2>1. step[c] \in Holding BY <1>2 DEF Frees, Moves, Holding
    <2>2. lock = c BY <1>0, <2>1
    <2>3. \A d \in Clones : d # c => step[d] \notin Holding BY <1>0, <2>2
    <2>4. \A d \in Clones : step'[d] \notin Holding BY <1>2, <2>3 DEF Frees, Moves, Holding
    <2>5. ~(patience' = "drain")
      <3>1. CASE step[c] \in {"writing", "submitting"} /\ patience' = patience
        BY <1>0, <2>3, <3>1 DEF Holding
      <3>2. CASE patience' = "io" BY <3>2
      <3> QED BY <1>2, <3>1, <3>2 DEF Frees
    <2>6. \A d \in Clones : lock' # d BY <1>2, SizeFacts DEF Frees
    <2> QED BY <2>4, <2>5, <2>6 DEF OwnPatience, Holding
  <1>3. CASE Keeps(c)
    <2>1. lock' = lock /\ patience' = patience BY <1>3 DEF Keeps
    <2>2. \A d \in Clones : step'[d] \in Holding <=> step[d] \in Holding
      BY <1>3 DEF Keeps, Moves, Holding
    <2>3. \A d \in Clones : step'[d] \in {"flush", "flushing"} <=> step[d] \in {"flush", "flushing"}
      BY <1>3 DEF Keeps, Moves
    <2> QED BY <1>0, <2>1, <2>2, <2>3 DEF OwnPatience, Holding
  <1> QED BY <1>1, <1>2, <1>3

-----------------------------------------------------------------------------
(* What a drain knows. *)

\* A step of the clone c, as far as its drain is concerned.
LEMMA OwnDrainStep ==
  ASSUME TransmitIInv, NEW c \in Clones, Clone(c), Kept, DataOK'
  PROVE  /\ step'[c] = "flushing" => buffer' = <<>>
         /\ step'[c] \in Draining => target'[c] <= accepted'
         /\ step'[c] = "status" => 1 .. target'[c] \subseteq OnDevice' \cup reported'
         /\ covered' \in 0 .. accepted'
         /\ 1 .. covered' \subseteq ToSet(wire)' \cup reported'
  <1>0. /\ TypeOK /\ accepted \in Nat /\ covered \in Nat /\ covered <= accepted
        /\ 1 .. covered \subseteq ToSet(wire) \cup reported /\ step \in [Clones -> Steps]
        /\ target \in [Clones -> Nat] /\ accepted' \in Nat
    <2>1. TypeOK /\ DrainCovers BY DEF TransmitIInv, WriterInv
    <2>2. /\ accepted \in Nat /\ covered \in Nat /\ covered <= accepted
          /\ step \in [Clones -> Steps] /\ target \in [Clones -> Nat]
      BY <2>1 DEF TypeOK
    <2> QED BY <2>1, <2>2 DEF DrainCovers, DataOK
  <1>1. /\ step[c] = "flushing" => buffer = <<>>
        /\ step[c] \in Draining => target[c] <= accepted
        /\ step[c] = "status" => 1 .. target[c] \subseteq OnDevice \cup reported
    BY DEF TransmitIInv, DrainInv
  <1>2. /\ OnDevice \subseteq OnDevice' /\ ToSet(wire) \subseteq ToSet(wire)'
        /\ reported \subseteq reported' /\ accepted <= accepted'
    BY DEF Kept
  <1>3. ASSUME covered' = covered
        PROVE  /\ covered' \in 0 .. accepted'
               /\ 1 .. covered' \subseteq ToSet(wire)' \cup reported'
    BY <1>0, <1>2, <1>3
  <1>4. CASE FlushEnds(c)
    <2>1. /\ step[c] = "flushing" /\ pending = <<>> /\ step'[c] = "status"
          /\ target' = target /\ covered' = covered
      BY <1>0, <1>4 DEF FlushEnds, Goto, history
    <2>2. BytesOf("busy", pending) = {} /\ BytesOf("failed", pending) = {}
      BY <2>1 DEF BytesOf
    <2>3. ToSet(buffer) = {} BY <1>1, <2>1, SetOfEmpty
    <2>4. lost \subseteq reported
      BY <2>1, <2>2 DEF TransmitIInv, LossInv
    <2>5. 1 .. accepted \subseteq OnDevice \cup reported
      BY <2>2, <2>3, <2>4 DEF TransmitIInv, Located
    <2>6. target[c] \in Nat /\ target[c] <= accepted BY <1>0, <1>1, <2>1 DEF Draining
    <2>7. 1 .. target[c] \subseteq 1 .. accepted BY <1>0, <2>6
    <2>8. 1 .. target'[c] \subseteq OnDevice' \cup reported' BY <1>2, <2>1, <2>5, <2>7
    <2>9. target'[c] <= accepted' BY <1>0, <1>2, <2>1, <2>6
    <2> QED BY <1>3, <2>1, <2>8, <2>9
  <1>5. CASE Status(c)
    <2>1. step[c] = "status" /\ step'[c] = "idle" BY <1>0, <1>5 DEF Status, Returns, Goto
    <2>2. CASE covered' = covered BY <1>3, <2>1, <2>2 DEF Draining
    <2>3. CASE TransmitterEmpty /\ covered' = IF target[c] > covered THEN target[c] ELSE covered
      <3>1. OnDevice = ToSet(wire) BY <2>3, SetOfEmpty DEF TransmitterEmpty, OnDevice
      <3>2. 1 .. target[c] \subseteq ToSet(wire) \cup reported BY <1>1, <2>1, <3>1
      <3>3. target[c] \in Nat /\ target[c] <= accepted BY <1>0, <1>1, <2>1 DEF Draining
      <3>4. covered' \in {target[c], covered} BY <2>3
      <3> QED BY <1>0, <1>2, <2>1, <3>2, <3>3, <3>4 DEF Draining
    <2> QED BY <1>5, <2>2, <2>3 DEF Status
  <1>6. CASE DrainCall(c)
    <2>1. /\ step'[c] = "drain" /\ target'[c] = accepted /\ accepted' = accepted
          /\ covered' = covered
      BY <1>0, <1>6 DEF DrainCall, Goto
    <2> QED BY <1>0, <1>3, <2>1
  <1>7. CASE FlushSubmits(c)
    <2>1. /\ step[c] = "flush" /\ step'[c] = "flushing" /\ target' = target /\ buffer' = <<>>
          /\ covered' = covered
      BY <1>0, <1>7 DEF FlushSubmits, Goto, history
    <2> QED BY <1>0, <1>1, <1>2, <1>3, <2>1 DEF Draining
  <1>8. CASE FlushReaps(c)
    <2>1. step[c] = "flushing" /\ buffer' = buffer /\ covered' = covered
      BY <1>8 DEF FlushReaps
    <2>2. step'[c] = "idle" \/ (step'[c] = "flushing" /\ target' = target)
      BY <1>0, <1>8, <2>1 DEF FlushReaps, Returns, Goto, cloneVars
    <2> QED BY <1>0, <1>1, <1>2, <1>3, <2>1, <2>2 DEF Draining
  <1>9. CASE Lock(c)
    <2>1. target' = target /\ covered' = covered BY <1>9 DEF Lock, history
    <2>2. step'[c] \in {"writing", "submitting"} \/ (step[c] = "drain" /\ step'[c] = "flush")
      BY <1>0, <1>9 DEF Lock, Goto
    <2> QED BY <1>0, <1>1, <1>2, <1>3, <2>1, <2>2 DEF Draining
  <1>10. CASE WriteCall(c) \/ Cancel(c) \/ Leave(c) \/ SubmitCall(c)
    <2>1. covered' = covered BY <1>10 DEF WriteCall, Cancel, Leave, SubmitCall, history
    <2>2. step[c] = "idle" \/ UNCHANGED cloneVars
      BY <1>10 DEF WriteCall, Cancel, Leave, SubmitCall, Calls
    <2>3. step'[c] \in {"idle", "write", "gone", "submit"}
      BY <1>0, <1>10 DEF WriteCall, Cancel, Leave, SubmitCall, Calls, Goto, cloneVars
    <2> QED BY <1>3, <2>1, <2>3 DEF Draining
  <1>11. CASE WriteReaps(c) \/ WriteTimeout(c) \/ WriteAccepts(c) \/ Submit(c) \/ FlushTimeout(c)
    <2>1. covered' = covered
      BY <1>11 DEF WriteReaps, WriteTimeout, WriteAccepts, Submit, FlushTimeout, history
    <2>2. step'[c] \in {"idle", "writing"}
      BY <1>0, <1>11 DEF WriteReaps, WriteTimeout, WriteAccepts, Submit, FlushTimeout, Returns,
                        Goto, cloneVars
    <2> QED BY <1>3, <2>1, <2>2 DEF Draining
  <1> QED BY <1>4, <1>5, <1>6, <1>7, <1>8, <1>9, <1>10, <1>11 DEF Clone

\* The other clones' drains: the lock keeps the buffer empty while one flushes.
LEMMA OtherDrains ==
  ASSUME TransmitIInv, NEW c \in Clones, Clone(c), Kept, DataOK',
         NEW d \in Clones, d # c
  PROVE  /\ step'[d] = "flushing" => buffer' = <<>>
         /\ step'[d] \in Draining => target'[d] <= accepted'
         /\ step'[d] = "status" => 1 .. target'[d] \subseteq OnDevice' \cup reported'
  <1>0. /\ TypeOK /\ accepted \in Nat /\ target[d] \in Nat /\ accepted' \in Nat
        /\ lock = c <=> step[c] \in Holding
        /\ lock = d <=> step[d] \in Holding
    BY DEF TransmitIInv, WriterInv, TypeOK, OwnPatience, Holding, DataOK
  <1>1. step'[d] = step[d] /\ target'[d] = target[d]
    BY <1>0, CloneStep DEF Locks, Frees, Keeps, Moves
  <1>2. /\ step[d] = "flushing" => buffer = <<>>
        /\ step[d] \in Draining => target[d] <= accepted
        /\ step[d] = "status" => 1 .. target[d] \subseteq OnDevice \cup reported
    BY DEF TransmitIInv, DrainInv
  <1>3. OnDevice \subseteq OnDevice' /\ reported \subseteq reported' /\ accepted <= accepted'
    BY DEF Kept
  <1>4. ASSUME step[d] = "flushing" PROVE buffer' = <<>>
    <2>1. step[c] \notin Holding /\ buffer = <<>> BY <1>0, <1>2, <1>4 DEF Holding
    <2>2. Quiet(c)
      BY <2>1, CloneCases DEF Reaps, Submits, WriteReaps, FlushReaps, Submit, FlushSubmits,
                              WriteAccepts, Holding
    <2> QED BY <2>1, <2>2, QuietBytes DEF hostVars
  <1>5. step[d] \in Draining => target'[d] <= accepted' BY <1>0, <1>1, <1>2, <1>3
  <1>6. step[d] = "status" => 1 .. target'[d] \subseteq OnDevice' \cup reported'
    BY <1>1, <1>2, <1>3
  <1> QED BY <1>1, <1>4, <1>5, <1>6

\* Where the steps of the clones, and the two kinds of loss, are not touched.
LEMMA StepsOnly ==
  ASSUME TransmitIInv, Kept, DataOK', UNCHANGED <<step, target, covered>>,
         buffer' = buffer \/ (\A c \in Clones : step[c] # "flushing")
  PROVE  DrainInv' /\ DrainCovers' /\ covered' \in 0 .. accepted'
  <1>0. /\ TypeOK /\ accepted \in Nat /\ accepted' \in Nat /\ covered \in 0 .. accepted
        /\ target \in [Clones -> Nat]
    BY DEF TransmitIInv, WriterInv, TypeOK, DataOK
  <1>1. /\ OnDevice \subseteq OnDevice' /\ ToSet(wire) \subseteq ToSet(wire)'
        /\ reported \subseteq reported' /\ accepted <= accepted'
    BY DEF Kept
  <1>2. DrainCovers'
    <2>1. ToSet(wire') = ToSet(wire)' OBVIOUS
    <2> QED BY <1>1, <2>1 DEF DrainCovers, TransmitIInv
  <1>3. ASSUME NEW c \in Clones
        PROVE  /\ step'[c] = "flushing" => buffer' = <<>>
               /\ step'[c] \in Draining => target'[c] <= accepted'
               /\ step'[c] = "status" => 1 .. target'[c] \subseteq OnDevice' \cup reported'
    BY <1>0, <1>1 DEF TransmitIInv, DrainInv
  <1> QED BY <1>0, <1>1, <1>2, <1>3 DEF DrainInv

LEMMA StepTransmit ==
  ASSUME TransmitIInv, [Next]_vars
  PROVE  TransmitIInv'
  <1>0. TypeOK /\ OwnPatience /\ RoomInv /\ Located /\ LossInv
    BY DEF TransmitIInv, WriterInv
  <1>1. DataOK' /\ RoomInv' /\ Located' /\ Kept /\ (Drop \/ Blamed) BY <1>0, DataStep
  <1>2. CloneOK /\ step \in [Clones -> Steps] BY <1>0 DEF TypeOK, CloneOK
  <1>3. ASSUME CloneOK', covered' \in 0 .. accepted' PROVE TypeOK'
    BY <1>1, <1>3 DEF TypeOK, DataOK, CloneOK
  <1>4. ASSUME Blamed, \A c \in Clones : step'[c] # "gone" => step[c] # "gone" PROVE LossInv'
    BY <1>0, <1>4 DEF LossInv, Blamed
  <1>5. ASSUME NEW c \in Clones, Clone(c) PROVE TransmitIInv'
    <2>1. CloneOK' /\ (Locks(c) \/ Frees(c) \/ Keeps(c)) BY <1>0, <1>5, CloneStep
    <2>2. OwnPatience' BY <1>0, <2>1, PatienceStep
    <2>3. \A d \in Clones : step'[d] # "gone" => step[d] # "gone"
      BY <2>1 DEF Locks, Frees, Keeps, Moves
    <2>4. Blamed
      <3>1. ~Drop \/ Blamed
        <4>1. ASSUME Drop PROVE Blamed
          <5>1. step[c] = "gone" BY <4>1 DEF Drop
          <5>2. Clone(c) => step[c] # "gone"
            BY Zenon DEF Clone, WriteCall, SubmitCall, DrainCall, Cancel, Leave, Lock,
                         WriteReaps, WriteTimeout, WriteAccepts, Submit, FlushSubmits,
                         FlushReaps, FlushTimeout, FlushEnds, Status, Calls
          <5> QED BY <1>5, <5>1, <5>2
        <4> QED BY <4>1
      <3> QED BY <1>1, <3>1
    <2>5. LossInv' BY <1>4, <2>3, <2>4
    <2>6. /\ covered' \in 0 .. accepted' /\ 1 .. covered' \subseteq ToSet(wire)' \cup reported'
      BY <1>1, <1>5, OwnDrainStep
    <2>7. \A d \in Clones :
            /\ step'[d] = "flushing" => buffer' = <<>>
            /\ step'[d] \in Draining => target'[d] <= accepted'
            /\ step'[d] = "status" => 1 .. target'[d] \subseteq OnDevice' \cup reported'
      BY <1>1, <1>5, OwnDrainStep, OtherDrains
    <2>8. DrainInv' BY <2>7 DEF DrainInv
    <2>9. DrainCovers' BY <2>6 DEF DrainCovers
    <2>10. TypeOK' BY <1>3, <2>1, <2>6
    <2> QED BY <1>1, <2>2, <2>5, <2>8, <2>9, <2>10 DEF TransmitIInv, WriterInv
  <1>6. ASSUME UNCHANGED <<cloneVars, lock, patience, cancelled, covered, calls>>,
               buffer' = buffer \/ (\A c \in Clones : step[c] # "flushing")
        PROVE  TypeOK' /\ OwnPatience' /\ DrainInv' /\ DrainCovers'
    <2>1. /\ step' = step /\ target' = target /\ lock' = lock /\ patience' = patience
          /\ cancelled' = cancelled /\ covered' = covered /\ calls' = calls
      BY <1>6 DEF cloneVars
    <2>2. CloneOK' BY <1>2, <2>1 DEF CloneOK
    <2>3. OwnPatience' BY <1>0, <2>1 DEF OwnPatience
    <2>4. DrainInv' /\ DrainCovers' /\ covered' \in 0 .. accepted' BY <1>1, <1>6, <2>1, StepsOnly
    <2> QED BY <1>3, <2>2, <2>3, <2>4
  <1>7. ASSUME Drop PROVE TransmitIInv'
    <2>1. /\ UNCHANGED <<cloneVars, lock, patience, cancelled, covered, calls>>
          /\ \A c \in Clones : step[c] = "gone"
      BY <1>7 DEF Drop
    <2>2. TypeOK' /\ OwnPatience' /\ DrainInv' /\ DrainCovers' BY <1>6, <2>1
    <2>3. LossInv' BY <2>1 DEF LossInv, cloneVars
    <2> QED BY <1>1, <2>2, <2>3 DEF TransmitIInv, WriterInv
  <1>8. ASSUME TransferDone \/ Shift \/ UNCHANGED vars PROVE TransmitIInv'
    <2>1. /\ UNCHANGED <<cloneVars, lock, patience, cancelled, covered, calls>>
          /\ buffer' = buffer
      BY <1>8 DEF TransferDone, Shift, hostVars, history, vars
    <2>2. TypeOK' /\ OwnPatience' /\ DrainInv' /\ DrainCovers' BY <1>6, <2>1
    <2>3. step' = step BY <2>1 DEF cloneVars
    <2>4. LossInv'
      <3>1. CASE Blamed BY <1>4, <2>3, <3>1
      <3>2. CASE Drop BY <2>3, <3>2 DEF LossInv, Drop
      <3> QED BY <1>1, <3>1, <3>2
    <2> QED BY <1>1, <2>2, <2>4 DEF TransmitIInv, WriterInv
  <1> QED BY <1>5, <1>7, <1>8 DEF Next, Device, Closed

-----------------------------------------------------------------------------
(* The order of the bytes. *)

\* What each transfer in progress holds.
Parts(ts) == [i \in 1 .. Len(ts) |-> IF ts[i].status = "busy" THEN ts[i].bytes ELSE <<>>]

Ordered(all, n, gone) ==
    all \in Seq(Int) /\ Increasing(all) /\ ToSet(all) = (1 .. n) \ gone /\ gone \subseteq 1 .. n

OrderInv == Ordered(All, accepted, lost)

LEMMA PartsFacts ==
  ASSUME NEW ts \in Seq(Transfer)
  PROVE  /\ Parts(ts) \in Seq(Seq(Bytes)) /\ Len(Parts(ts)) = Len(ts)
         /\ FlattenSeq(Parts(ts)) \in Seq(Bytes)
  <1>1. \A i \in 1 .. Len(ts) : ts[i].bytes \in Seq(Bytes)
    <2>1. \A i \in 1 .. Len(ts) : ts[i] \in Transfer OBVIOUS
    <2> QED BY <2>1 DEF Transfer
  <1>2. <<>> \in Seq(Bytes) /\ Len(ts) \in Nat OBVIOUS
  <1>3. Parts(ts) \in Seq(Seq(Bytes)) /\ Len(Parts(ts)) = Len(ts) BY <1>1, <1>2 DEF Parts
  <1> QED BY <1>3, FlattenType

\* The bytes not sent to the device, as they are now and after a step.
LEMMA UnsentParts ==
  /\ Unsent = FlattenSeq(Parts(pending)) \o buffer
  /\ Unsent' = FlattenSeq(Parts(pending')) \o buffer'
  <1>1. Parts(pending) = [i \in 1 .. Len(pending) |->
                             IF i \in Busy THEN pending[i].bytes ELSE <<>>]
    BY DEF Parts, Busy
  <1>2. Parts(pending') = [i \in 1 .. Len(pending') |->
                             IF i \in Busy' THEN pending'[i].bytes ELSE <<>>]
    BY DEF Parts, Busy
  <1> QED BY <1>1, <1>2, Zenon DEF Unsent

\* A transfer more, in progress, and one that has ended less.
LEMMA PartsAppend ==
  ASSUME NEW ts \in Seq(Transfer), NEW t \in Transfer, t.status = "busy"
  PROVE  FlattenSeq(Parts(Append(ts, t))) = FlattenSeq(Parts(ts)) \o t.bytes
  <1>1. t.bytes \in Seq(Bytes) BY DEF Transfer
  <1>2. Parts(Append(ts, t)) = Append(Parts(ts), t.bytes) BY DEF Parts
  <1> QED BY <1>1, <1>2, PartsFacts, FlattenAppend

LEMMA PartsTail ==
  ASSUME NEW ts \in Seq(Transfer), ts # <<>>, Head(ts).status # "busy"
  PROVE  FlattenSeq(Parts(Tail(ts))) = FlattenSeq(Parts(ts))
  <1>1. Tail(ts) \in Seq(Transfer) /\ <<>> \in Seq(Bytes) OBVIOUS
  <1>2. Parts(ts) = << <<>> >> \o Parts(Tail(ts)) BY DEF Parts
  <1>3. /\ Parts(Tail(ts)) \in Seq(Seq(Bytes)) /\ FlattenSeq(Parts(Tail(ts))) \in Seq(Bytes)
    BY <1>1, PartsFacts
  <1>4. FlattenSeq(Parts(ts)) = <<>> \o FlattenSeq(Parts(Tail(ts)))
    BY <1>1, <1>2, <1>3, FlattenFirst
  <1> QED BY <1>3, <1>4, ConcatEmptySeq

\* Of the oldest transfer in progress, which comes first.
LEMMA PartsAt ==
  ASSUME TypeOK, NEW i \in 1 .. Len(pending), Oldest(i), NEW st \in {"done", "failed"}
  PROVE  FlattenSeq(Parts(pending))
            = pending[i].bytes \o FlattenSeq(Parts([pending EXCEPT ![i].status = st]))
  <1> DEFINE ss == Parts(pending)
             tt == Parts([pending EXCEPT ![i].status = st])
  <1>1. pending \in Seq(Transfer) /\ pending[i].status = "busy" /\ pending[i].bytes \in Seq(Bytes)
    BY BusyFacts DEF TypeOK
  <1>2. ss \in Seq(Seq(Bytes)) /\ i \in 1 .. Len(ss) BY <1>1, PartsFacts
  <1>3. ss[i] = pending[i].bytes BY <1>1 DEF Parts
  <1>4. \A j \in 1 .. i - 1 : ss[j] = <<>>
    <2> SUFFICES ASSUME NEW j \in 1 .. i - 1 PROVE ss[j] = <<>>
      OBVIOUS
    <2>1. j \in 1 .. Len(pending) /\ ~(i <= j) /\ Len(pending) \in Nat BY <1>1
    <2>2. pending[j].status # "busy" BY <2>1 DEF Oldest, Busy
    <2> QED BY <2>1, <2>2 DEF Parts
  <1>5. tt = [ss EXCEPT ![i] = <<>>]
    <2>1. /\ [pending EXCEPT ![i].status = st]
                = [pending EXCEPT ![i] = [pending[i] EXCEPT !.status = st]]
          /\ [pending[i] EXCEPT !.status = st].status = st
      BY <1>1, BusyFacts DEF Transfer
    <2>2. Len([pending EXCEPT ![i].status = st]) = Len(pending) BY <1>1, <2>1
    <2>3. \A j \in 1 .. Len(pending) : tt[j] = [ss EXCEPT ![i] = <<>>][j]
      BY <1>1, <2>1, <2>2 DEF Parts
    <2> QED BY <2>2, <2>3 DEF Parts
  <1> HIDE DEF ss, tt
  <1>6. FlattenSeq(ss) = ss[i] \o FlattenSeq(tt) BY <1>2, <1>4, <1>5, FlattenAt
  <1> QED BY <1>3, <1>6 DEF ss, tt

LEMMA BytesAreInt == Seq(Bytes) \subseteq Seq(Int)
  BY DEF Bytes

LEMMA BytesConcat ==
  /\ \A s, t \in Seq(Bytes) : s \o t \in Seq(Bytes)
  /\ \A s, t, u \in Seq(Bytes) : (s \o t) \o u = s \o (t \o u)
  <1>1. \A s, t \in Seq(Bytes) : s \o t \in Seq(Bytes) OBVIOUS
  <1> QED BY <1>1, Associative

\* Concatenation as a name, for steps about several: its definition is added last.
Cat(s, t) == s \o t

LEMMA CatFacts ==
  /\ \A s, t \in Seq(Bytes) : Cat(s, t) \in Seq(Bytes)
  /\ \A s, t, u \in Seq(Bytes) : Cat(Cat(s, t), u) = Cat(s, Cat(t, u))
  BY BytesConcat, Zenon DEF Cat

LEMMA CatFour ==
  ASSUME NEW b \in Seq(Bytes), NEW c \in Seq(Bytes), NEW d \in Seq(Bytes), NEW e \in Seq(Bytes)
  PROVE  Cat(Cat(Cat(b, c), d), e) = Cat(b, Cat(c, Cat(d, e)))
  BY CatFacts

LEMMA TypesInOrder ==
  ASSUME TypeOK
  PROVE  /\ Unsent \in Seq(Bytes) /\ wire \o shift \in Seq(Bytes)
         /\ (wire \o shift) \o fifo \in Seq(Bytes) /\ All \in Seq(Bytes)
         /\ All = ((wire \o shift) \o fifo) \o Unsent
         /\ ToSet(Unsent) = UnsentBytes
  <1>1. /\ FlattenSeq(Parts(pending)) \in Seq(Bytes) /\ buffer \in Seq(Bytes)
        /\ Parts(pending) \in Seq(Seq(Bytes)) /\ Len(Parts(pending)) = Len(pending)
        /\ wire \in Seq(Bytes) /\ shift \in Seq(Bytes) /\ fifo \in Seq(Bytes)
    BY PartsFacts DEF TypeOK
  <1>2. PICK f \in Seq(Bytes) : f = FlattenSeq(Parts(pending)) BY <1>1
  <1>3. Unsent = f \o buffer BY <1>2, UnsentParts
  <1>4. Unsent \in Seq(Bytes) /\ ToSet(Unsent) = ToSet(f) \cup ToSet(buffer)
    BY <1>1, <1>3, SetOfConcat
  <1>5. wire \o shift \in Seq(Bytes) BY <1>1
  <1>6. (wire \o shift) \o fifo \in Seq(Bytes) BY <1>1, <1>5
  <1>7. All = ((wire \o shift) \o fifo) \o Unsent BY DEF All
  <1>8. All \in Seq(Bytes) BY <1>4, <1>6, <1>7
  <1>9. ToSet(f) = UNION {ToSet(Parts(pending)[i]) : i \in 1 .. Len(pending)}
    BY <1>1, <1>2, SetOfFlattened
  <1>10. \A i \in 1 .. Len(pending) : Parts(pending)[i] =
             IF pending[i].status = "busy" THEN pending[i].bytes ELSE <<>>
    BY DEF Parts
  <1>11. \A b : b \in BytesOf("busy", pending) <=>
               \E i \in 1 .. Len(pending) : /\ pending[i].status = "busy"
                                            /\ b \in ToSet(pending[i].bytes)
    BY BytesOfDef DEF TypeOK
  <1>12. ToSet(f) = BytesOf("busy", pending) BY <1>9, <1>10, <1>11, SetOfEmpty
  <1> QED BY <1>4, <1>5, <1>6, <1>7, <1>8, <1>12, UnsentFacts

\* n bytes more at the end.
LEMMA OrderAccept ==
  ASSUME NEW all, NEW k \in Nat, NEW gone, Ordered(all, k, gone), NEW n \in Nat
  PROVE  Ordered(all \o [i \in 1 .. n |-> k + i], k + n, gone)
  <1> DEFINE new == [i \in 1 .. n |-> k + i]
  <1>1. new \in Seq(Int) /\ Increasing(new) BY DEF Increasing
  <1>2. ToSet(new) = k + 1 .. k + n
    <2>1. DOMAIN new = 1 .. n OBVIOUS
    <2>2. ToSet(new) \subseteq k + 1 .. k + n BY DEF ToSet
    <2>3. ASSUME NEW b \in k + 1 .. k + n PROVE b \in ToSet(new)
      <3>1. b - k \in 1 .. n /\ new[b - k] = b OBVIOUS
      <3> QED BY <2>1, <3>1 DEF ToSet
    <2> QED BY <2>2, <2>3
  <1> HIDE DEF new
  <1>3. /\ all \in Seq(Int) /\ Increasing(all) /\ ToSet(all) = (1 .. k) \ gone
        /\ gone \subseteq 1 .. k
    BY DEF Ordered
  <1>4. all \o new \in Seq(Int) /\ ToSet(all \o new) = ToSet(all) \cup ToSet(new)
    BY <1>1, <1>3, SetOfConcat
  <1>5. \A x \in ToSet(all), y \in ToSet(new) : x < y BY <1>2, <1>3
  <1>6. Increasing(all \o new) BY <1>1, <1>3, <1>5, IncreasingConcat
  <1>7. ToSet(all \o new) = (1 .. k + n) \ gone BY <1>2, <1>3, <1>4
  <1>8. gone \subseteq 1 .. k + n BY <1>3
  <1> QED BY <1>4, <1>6, <1>7, <1>8 DEF Ordered, new

\* The part c lost.
LEMMA OrderCut ==
  ASSUME NEW a \in Seq(Int), NEW b \in Seq(Int), NEW c \in Seq(Int), NEW d \in Seq(Int),
         NEW k \in Nat, NEW gone, Ordered(a \o (b \o (c \o d)), k, gone)
  PROVE  Ordered((a \o b) \o d, k, gone \cup ((ToSet(b) \cup ToSet(c)) \ ToSet(b)))
  <1>1. /\ Increasing(a \o (b \o (c \o d)))
        /\ ToSet(a \o (b \o (c \o d))) = (1 .. k) \ gone
        /\ gone \subseteq 1 .. k
    BY DEF Ordered
  <1>2. /\ Increasing(a \o (b \o d)) /\ ToSet(b) \cap ToSet(c) = {}
        /\ ToSet(a \o (b \o d)) = ToSet(a \o (b \o (c \o d))) \ ToSet(c)
    BY <1>1, CutIncreasing
  <1>3. (a \o b) \o d = a \o (b \o d) /\ (a \o b) \o d \in Seq(Int)
    <2>1. (a \o b) \o d \in Seq(Int) OBVIOUS
    <2>2. (a \o b) \o d = a \o (b \o d) BY SMTT(30)
    <2> QED BY <2>1, <2>2, Zenon
  <1>4. ToSet(c) \subseteq ToSet(a \o (b \o (c \o d)))
    <2>1. PICK cd \in Seq(Int) : cd = c \o d /\ ToSet(cd) = ToSet(c) \cup ToSet(d)
      <3>1. c \o d \in Seq(Int) /\ ToSet(c \o d) = ToSet(c) \cup ToSet(d) BY SetOfConcat
      <3> QED BY <3>1
    <2>2. PICK bcd \in Seq(Int) : bcd = b \o cd /\ ToSet(bcd) = ToSet(b) \cup ToSet(cd)
      <3>1. b \o cd \in Seq(Int) /\ ToSet(b \o cd) = ToSet(b) \cup ToSet(cd) BY SetOfConcat
      <3> QED BY <3>1
    <2>3. ToSet(a \o bcd) = ToSet(a) \cup ToSet(bcd) BY SetOfConcat
    <2> QED BY <2>1, <2>2, <2>3
  <1>5. gone \cup ((ToSet(b) \cup ToSet(c)) \ ToSet(b)) = gone \cup ToSet(c) BY <1>2
  <1>6. ToSet(c) \subseteq 1 .. k BY <1>1, <1>4
  <1> QED BY <1>1, <1>2, <1>3, <1>5, <1>6 DEF Ordered

\* Nothing moved but from one place to the next.
LEMMA OrderKept ==
  ASSUME OrderInv, All' = All, UNCHANGED <<accepted, lost>>
  PROVE  OrderInv'
  BY DEF OrderInv

LEMMA OrderReap ==
  ASSUME TypeOK, OrderInv, NEW c, Reaps(c)
  PROVE  OrderInv'
  <1>1. /\ pending \in Seq(Transfer) /\ pending # <<>> /\ pending' = Tail(pending)
        /\ Head(pending).status # "busy"
        /\ UNCHANGED <<buffer, wire, shift, fifo, accepted, lost>>
    BY DEF Reaps, WriteReaps, FlushReaps, Completed, TypeOK, deviceVars
  <1>2. FlattenSeq(Parts(pending')) = FlattenSeq(Parts(pending)) BY <1>1, PartsTail
  <1>3. Unsent' = Unsent BY <1>1, <1>2, UnsentParts
  <1>4. All' = All BY <1>1, <1>3 DEF All
  <1> QED BY <1>1, <1>4, OrderKept

LEMMA OrderSubmit ==
  ASSUME TypeOK, OrderInv, NEW c, Submits(c)
  PROVE  OrderInv'
  <1>1. /\ pending \in Seq(Transfer) /\ buffer \in Seq(Bytes)
        /\ pending' = Queued /\ buffer' = <<>>
        /\ UNCHANGED <<wire, shift, fifo, accepted, lost>>
    BY DEF Submits, Submit, FlushSubmits, TypeOK, deviceVars, history
  <1>2. Unsent' = Unsent
    <2>1. CASE buffer = <<>>
      <3>1. pending' = pending /\ buffer' = buffer BY <1>1, <2>1 DEF Queued
      <3> QED BY <3>1, UnsentParts
    <2>2. CASE buffer # <<>>
      <3> DEFINE t == [bytes |-> buffer, status |-> "busy"]
      <3>1. t \in Transfer /\ t.status = "busy" /\ t.bytes = buffer BY <1>1 DEF Transfer
      <3>2. pending' = Append(pending, t) BY <1>1, <2>2 DEF Queued
      <3> HIDE DEF t
      <3>3. FlattenSeq(Parts(pending')) = FlattenSeq(Parts(pending)) \o buffer
        BY <1>1, <3>1, <3>2, PartsAppend
      <3>4. Unsent \in Seq(Bytes) BY TypesInOrder
      <3>5. Unsent' = Unsent \o <<>> BY <1>1, <3>3, UnsentParts
      <3> QED BY <3>4, <3>5, ConcatEmptySeq
    <2> QED BY <2>1, <2>2
  <1>3. All' = All BY <1>1, <1>2 DEF All
  <1> QED BY <1>1, <1>3, OrderKept

LEMMA OrderWrite ==
  ASSUME TypeOK, OrderInv, NEW c \in Clones, WriteAccepts(c)
  PROVE  OrderInv'
  <1> DEFINE room == BufferSize - Len(buffer)
             n    == IF target[c] < room THEN target[c] ELSE room
             new  == [i \in 1 .. n |-> accepted + i]
             next == buffer \o new
             t    == [bytes |-> next, status |-> "busy"]
  <1>1. /\ buffer \in Seq(Bytes) /\ Len(buffer) < BufferSize /\ accepted \in Nat
        /\ target[c] \in Nat /\ pending \in Seq(Transfer) /\ Len(buffer) \in Nat
    BY DEF TypeOK
  <1>2. n \in Nat BY <1>1, SizeFacts
  <1>3. /\ UNCHANGED <<wire, shift, fifo, lost>> /\ accepted' = accepted + n
        /\ \/ buffer' = next /\ pending' = pending
           \/ buffer' = <<>> /\ pending' = Append(pending, t)
    BY DEF WriteAccepts, deviceVars
  <1> HIDE DEF n
  <1>4. new \in Seq(Bytes) BY <1>2, AcceptFacts
  <1>5. OrderInv => Ordered(All \o new, accepted + n, lost)
    BY <1>1, <1>2, OrderAccept DEF OrderInv
  <1> HIDE DEF new
  <1>6. next \in Seq(Bytes) BY <1>1, <1>4
  <1>7. PICK f \in Seq(Bytes) : f = FlattenSeq(Parts(pending)) BY <1>1, PartsFacts
  <1>8. Unsent = f \o buffer BY <1>7, UnsentParts
  <1>9. Unsent' = f \o next
    <2>1. CASE buffer' = next /\ pending' = pending BY <1>7, <2>1, UnsentParts
    <2>2. CASE buffer' = <<>> /\ pending' = Append(pending, t)
      <3>1. t \in Transfer /\ t.status = "busy" /\ t.bytes = next BY <1>6 DEF Transfer
      <3> HIDE DEF t, next
      <3>2. FlattenSeq(Parts(pending')) = f \o next BY <1>1, <1>7, <2>2, <3>1, PartsAppend
      <3>3. Unsent' = (f \o next) \o <<>> BY <2>2, <3>2, UnsentParts
      <3>4. f \o next \in Seq(Bytes) BY <1>6, <1>7
      <3> QED BY <3>3, <3>4, ConcatEmptySeq
    <2> QED BY <1>3, <2>1, <2>2
  <1>10. All' = All \o new
    <2>1. PICK u \in Seq(Bytes) : u = Unsent BY TypesInOrder
    <2>2. PICK o \in Seq(Bytes) : o = (wire \o shift) \o fifo BY TypesInOrder
    <2>3. (f \o buffer) \o new = f \o next BY <1>1, <1>4, <1>7, BytesConcat, ZenonT(30)
    <2>6. Unsent' = u \o new BY <1>8, <1>9, <2>1, <2>3
    <2>4. All' = o \o (u \o new) BY <1>3, <2>2, <2>6 DEF All
    <2>5. All = o \o u BY <2>1, <2>2 DEF All
    <2>7. (o \o u) \o new = o \o (u \o new) BY <1>4, <2>1, <2>2, BytesConcat, ZenonT(30)
    <2> QED BY <2>4, <2>5, <2>7
  <1> QED BY <1>3, <1>5, <1>10 DEF OrderInv

\* b goes to the FIFO, c is lost.
LEMMA OrderLoss ==
  ASSUME TypeOK, OrderInv, UNCHANGED <<wire, shift, accepted>>,
         NEW b \in Seq(Bytes), NEW c \in Seq(Bytes), NEW d \in Seq(Bytes),
         Unsent = b \o (c \o d), fifo' = fifo \o b, Unsent' = d,
         lost' = lost \cup ((ToSet(b) \cup ToSet(c)) \ ToSet(b))
  PROVE  OrderInv'
  <1>0. \A s, t, u \in Seq(Bytes) : (s \o t) \o u = s \o (t \o u) BY BytesConcat
  <1>1. PICK o \in Seq(Bytes) : o = wire \o shift BY TypesInOrder
  <1>2. PICK a \in Seq(Bytes) : a = o \o fifo BY <1>1, TypesInOrder
  <1>3. All = a \o (b \o (c \o d)) BY <1>1, <1>2 DEF All
  <1>4. All' = (a \o b) \o d
    <2>1. All' = (o \o (fifo \o b)) \o d BY <1>1 DEF All
    <2>2. fifo \in Seq(Bytes) BY DEF TypeOK
    <2>3. (o \o fifo) \o b = o \o (fifo \o b) BY <1>0, <2>2, ZenonT(30)
    <2> QED BY <1>2, <2>1, <2>3
  <1>5. /\ a \in Seq(Int) /\ b \in Seq(Int) /\ c \in Seq(Int) /\ d \in Seq(Int)
        /\ accepted \in Nat
    BY BytesAreInt DEF TypeOK
  <1>6. Ordered((a \o b) \o d, accepted, lost \cup ((ToSet(b) \cup ToSet(c)) \ ToSet(b)))
    BY <1>3, <1>5, OrderCut DEF OrderInv
  <1> QED BY <1>4, <1>6 DEF OrderInv

\* A sequence begins with each of its prefixes.
LEMMA Split ==
  ASSUME NEW s \in Seq(Bytes), NEW n \in 0 .. Len(s)
  PROVE  \E t \in Seq(Bytes) : s = SubSeq(s, 1, n) \o t
  <1> DEFINE p == SubSeq(s, 1, n)
             t == SubSeq(s, n + 1, Len(s))
  <1>1. /\ p \in Seq(Bytes) /\ t \in Seq(Bytes) /\ Len(s) \in Nat /\ n \in 0 .. Len(s)
        /\ Len(p) = n /\ Len(t) = Len(s) - n
        /\ \A i \in 1 .. n : p[i] = s[i]
        /\ \A i \in 1 .. Len(s) - n : t[i] = s[n + i]
    OBVIOUS
  <1> HIDE DEF p, t
  <1>2. /\ p \o t \in Seq(Bytes) /\ Len(p \o t) = Len(s)
        /\ \A i \in 1 .. Len(s) : (p \o t)[i] = IF i <= n THEN p[i] ELSE t[i - n]
    BY <1>1
  <1>3. ASSUME NEW i \in 1 .. Len(s) PROVE (p \o t)[i] = s[i]
    <2>1. CASE i <= n BY <1>1, <1>2, <2>1
    <2>2. CASE i > n
      <3>1. i - n \in 1 .. Len(s) - n /\ n + (i - n) = i BY <1>1, <2>2
      <3> QED BY <1>1, <1>2, <2>2, <3>1
    <2> QED BY <1>1, <2>1, <2>2
  <1>4. p \o t = s BY <1>2, <1>3, SeqEqual
  <1> QED BY <1>1, <1>4 DEF p

LEMMA OrderTransfer ==
  ASSUME TypeOK, OrderInv, TransferDone
  PROVE  OrderInv'
  <1>1. PICK i \in 1 .. Len(pending) :
          /\ Oldest(i)
          /\ \/ /\ Arrive(pending[i].bytes, Len(pending[i].bytes), ToSet(pending[i].bytes))
                /\ pending' = [pending EXCEPT ![i].status = "done"]
             \/ /\ \E n \in 0 .. Len(pending[i].bytes) - 1 :
                      Arrive(pending[i].bytes, n, ToSet(pending[i].bytes))
                /\ pending' = [pending EXCEPT ![i].status = "failed"]
    BY DEF TransferDone
  <1>2. PICK s \in Seq(Bytes) : s = pending[i].bytes BY <1>1, BusyFacts
  <1>3. PICK n \in 0 .. Len(s) : Arrive(s, n, ToSet(s)) BY <1>1, <1>2
  <1>4. PICK b \in Seq(Bytes) : b = SubSeq(s, 1, n) BY SetOfPrefix
  <1>5. PICK c \in Seq(Bytes) : s = b \o c BY <1>4, Split
  <1>6. ToSet(s) = ToSet(b) \cup ToSet(c) BY <1>5, SetOfConcat
  <1>7. /\ fifo' = fifo \o b /\ lost' = lost \cup ((ToSet(b) \cup ToSet(c)) \ ToSet(b))
        /\ UNCHANGED <<buffer, wire, shift, accepted>>
    BY <1>3, <1>4, <1>6 DEF Arrive, TransferDone
  <1>8. FlattenSeq(Parts(pending)) = s \o FlattenSeq(Parts(pending'))
    BY <1>1, <1>2, PartsAt
  <1>9. PICK f \in Seq(Bytes) : f = FlattenSeq(Parts(pending'))
    <2>1. pending' \in Seq(Transfer) BY TransferBytes
    <2> QED BY <2>1, PartsFacts
  <1>10. PICK g \in Seq(Bytes) : g = buffer BY DEF TypeOK
  <1>11. PICK d \in Seq(Bytes) : d = f \o g BY BytesConcat
  <1>12. Unsent' = d BY <1>7, <1>9, <1>10, <1>11, UnsentParts
  <1>13. Unsent = b \o (c \o d)
    <2>1. Unsent = (s \o f) \o g BY <1>8, <1>9, <1>10, UnsentParts
    <2>2. Cat(Cat(Cat(b, c), f), g) = Cat(b, Cat(c, Cat(f, g))) BY CatFour
    <2>3. ((b \o c) \o f) \o g = b \o (c \o (f \o g)) BY <2>2, Zenon DEF Cat
    <2> QED BY <1>5, <1>11, <2>1, <2>3
  <1> QED BY <1>7, <1>12, <1>13, OrderLoss

LEMMA OrderDrop ==
  ASSUME TypeOK, OrderInv, Drop
  PROVE  OrderInv'
  <1>1. /\ UNCHANGED <<shift, wire, accepted>> /\ buffer' = <<>> /\ pending' = <<>>
    BY DEF Drop
  <1>2. Unsent' = <<>>
    <2>1. Parts(<<>>) = <<>> BY DEF Parts
    <2>2. FlattenSeq(Parts(pending')) = <<>> BY <1>1, <2>1, FlattenNone
    <2>3. <<>> \o <<>> = <<>> OBVIOUS
    <2> QED BY <1>1, <2>2, <2>3, UnsentParts
  <1>3. PICK u \in Seq(Bytes) : u = Unsent /\ ToSet(u) = UnsentBytes BY TypesInOrder
  <1>4. fifo \in Seq(Bytes) /\ <<>> \in Seq(Bytes) BY DEF TypeOK
  <1>5. CASE lost' = lost \cup UnsentBytes /\ UNCHANGED fifo
    <2>1. u = <<>> \o (u \o <<>>) OBVIOUS
    <2>2. fifo' = fifo \o <<>> BY <1>4, <1>5, ConcatEmptySeq
    <2>3. lost' = lost \cup ((ToSet(<<>>) \cup ToSet(u)) \ ToSet(<<>>))
      BY <1>3, <1>5, SetOfEmpty
    <2> QED BY <1>1, <1>2, <1>3, <1>4, <2>1, <2>2, <2>3, OrderLoss
  <1>6. ASSUME NEW i \in 1 .. Len(pending), Oldest(i), NEW n \in 1 .. Len(pending[i].bytes),
               Arrive(pending[i].bytes, n, UnsentBytes)
        PROVE  OrderInv'
    <2>1. PICK s \in Seq(Bytes) : s = pending[i].bytes BY <1>6, BusyFacts
    <2>2. n \in 0 .. Len(s) BY <2>1
    <2>3. PICK b \in Seq(Bytes) : b = SubSeq(s, 1, n) BY <2>2, SetOfPrefix
    <2>4. PICK x \in Seq(Bytes) : s = b \o x BY <2>2, <2>3, Split
    <2> DEFINE qs == [pending EXCEPT ![i].status = "done"]
    <2>5. FlattenSeq(Parts(pending)) = s \o FlattenSeq(Parts(qs)) BY <1>6, <2>1, PartsAt
    <2>6. qs \in Seq(Transfer)
      <3>1. pending \in Seq(Transfer) /\ pending[i].status = "busy" BY <1>6, BusyFacts DEF TypeOK
      <3> QED BY <3>1, BytesOfEnded
    <2> HIDE DEF qs
    <2>7. PICK f \in Seq(Bytes) : f = FlattenSeq(Parts(qs)) BY <2>6, PartsFacts
    <2>8. PICK g \in Seq(Bytes) : g = buffer BY DEF TypeOK
    <2>9. PICK d \in Seq(Bytes) : d = f \o g BY BytesConcat
    <2>10. PICK c \in Seq(Bytes) : c = x \o d BY BytesConcat
    <2>11. u = b \o c
      <3>1. u = (s \o f) \o g BY <1>3, <2>5, <2>7, <2>8, UnsentParts
      <3>2. Cat(Cat(Cat(b, x), f), g) = Cat(b, Cat(x, Cat(f, g))) BY CatFour
      <3>3. ((b \o x) \o f) \o g = b \o (x \o (f \o g)) BY <3>2, Zenon DEF Cat
      <3> QED BY <2>4, <2>9, <2>10, <3>1, <3>3
    <2>12. UnsentBytes = ToSet(b) \cup ToSet(c) BY <1>3, <2>11, SetOfConcat
    <2>13. fifo' = fifo \o b /\ lost' = lost \cup ((ToSet(b) \cup ToSet(c)) \ ToSet(b))
      BY <1>6, <2>1, <2>3, <2>12 DEF Arrive
    <2>14. Unsent = b \o (c \o <<>>) BY <1>3, <2>11, ConcatEmptySeq
    <2> QED BY <1>1, <1>2, <1>4, <2>13, <2>14, OrderLoss
  <1> QED BY <1>5, <1>6 DEF Drop

LEMMA OrderShift ==
  ASSUME TypeOK, OrderInv, Shift
  PROVE  OrderInv'
  <1>1. /\ UNCHANGED <<buffer, pending, accepted, lost>>
        /\ fifo \in Seq(Bytes) /\ shift \in Seq(Bytes) /\ wire \in Seq(Bytes)
    BY DEF Shift, hostVars, history, TypeOK
  <1>2. Unsent' = Unsent BY <1>1, UnsentParts
  <1>3. (wire' \o shift') \o fifo' = (wire \o shift) \o fifo
    <2>1. CASE /\ shift = <<>> /\ fifo # <<>>
               /\ shift' = <<Head(fifo)>> /\ fifo' = Tail(fifo) /\ UNCHANGED wire
      <3>1. fifo = <<Head(fifo)>> \o Tail(fifo) /\ Tail(fifo) \in Seq(Bytes)
            /\ <<Head(fifo)>> \in Seq(Bytes)
        BY <1>1, <2>1
      <3>2. wire \o <<>> = wire BY <1>1, ConcatEmptySeq
      <3>3. (wire \o <<Head(fifo)>>) \o Tail(fifo) = wire \o (<<Head(fifo)>> \o Tail(fifo))
        BY <1>1, <3>1, BytesConcat, ZenonT(30)
      <3> QED BY <2>1, <3>1, <3>2, <3>3
    <2>2. CASE shift # <<>> /\ wire' = wire \o shift /\ shift' = <<>> /\ UNCHANGED fifo
      <3>1. wire \o shift \in Seq(Bytes) BY <1>1
      <3>2. (wire \o shift) \o <<>> = wire \o shift BY <3>1, ConcatEmptySeq
      <3> QED BY <2>2, <3>2
    <2> QED BY <2>1, <2>2 DEF Shift
  <1>4. All' = All BY <1>2, <1>3 DEF All
  <1> QED BY <1>1, <1>4, OrderKept

LEMMA OrderStep ==
  ASSUME TypeOK, OrderInv, [Next]_vars
  PROVE  OrderInv'
  <1>1. ASSUME UNCHANGED <<hostVars, deviceVars, accepted, lost>> PROVE OrderInv'
    <2>1. UNCHANGED <<buffer, pending, fifo, shift, wire, accepted, lost>>
      BY <1>1 DEF hostVars, deviceVars
    <2>2. Unsent' = Unsent BY <2>1, UnsentParts
    <2>3. All' = All BY <2>1, <2>2 DEF All
    <2> QED BY <2>1, <2>3, OrderKept
  <1>2. ASSUME NEW c \in Clones, Clone(c) PROVE OrderInv'
    <2>1. CASE Quiet(c) BY <1>1, <2>1, QuietBytes
    <2>2. CASE Reaps(c) BY <2>2, OrderReap
    <2>3. CASE Submits(c) BY <2>3, OrderSubmit
    <2>4. CASE WriteAccepts(c) BY <2>4, OrderWrite
    <2> QED BY <1>2, <2>1, <2>2, <2>3, <2>4, CloneCases
  <1>3. UNCHANGED vars => OrderInv' BY <1>1 DEF vars, hostVars, deviceVars, history
  <1> QED BY <1>2, <1>3, OrderTransfer, OrderDrop, OrderShift DEF Next, Device, Closed

LEMMA InitOrder == Init => OrderInv
  <1> SUFFICES ASSUME Init PROVE OrderInv
    OBVIOUS
  <1>1. /\ buffer = <<>> /\ pending = <<>> /\ fifo = <<>> /\ shift = <<>> /\ wire = <<>>
        /\ accepted = 0 /\ lost = {}
    BY DEF Init
  <1>2. Parts(<<>>) = <<>> BY DEF Parts
  <1>3. <<>> \o <<>> = <<>> OBVIOUS
  <1>4. Unsent = <<>> BY <1>1, <1>2, <1>3, FlattenNone, UnsentParts
  <1>5. All = <<>> BY <1>1, <1>3, <1>4 DEF All
  <1>6. Increasing(<<>>) /\ <<>> \in Seq(Int) BY DEF Increasing
  <1> QED BY <1>1, <1>5, <1>6, SetOfEmpty DEF OrderInv, Ordered

-----------------------------------------------------------------------------
(* The invariant: with the state's types and the lock, where every byte is, what
   a failed transfer leaves to report and what each drain has seen. *)
THEOREM TransmitInvariance == Spec => []TransmitIInv
  <1>1. Init => TransmitIInv BY InitTransmit
  <1>2. TransmitIInv /\ [Next]_vars => TransmitIInv' BY StepTransmit
  <1> QED BY <1>1, <1>2, PTL DEF Spec

(* Whatever clones do at once, one at a time has the writer, and the timeout of
   a drain is in force only while its clone flushes under the lock. *)
THEOREM WriterCorrect == Spec => []WriterInv
  <1>1. TransmitIInv => WriterInv BY DEF TransmitIInv
  <1> QED BY <1>1, TransmitInvariance, PTL

(* While somebody has the port, the bytes of a failed transfer are those of an
   error that a call has returned or of one that waits in the queue. *)
THEOREM LossReported == Spec => []LossIsReported
  <1>1. TransmitIInv => LossIsReported
    <2> SUFFICES ASSUME TransmitIInv, \E c \in Clones : step[c] # "gone"
                 PROVE  lost \subseteq reported \cup UNION {ToSet(t.bytes) : t \in
                            {u \in ToSet(pending) : u.status = "failed"}}
      BY DEF LossIsReported
    <2>1. lost \subseteq reported \cup BytesOf("failed", pending) BY DEF TransmitIInv, LossInv
    <2>2. pending \in Seq(Transfer) BY DEF TransmitIInv, WriterInv, TypeOK
    <2>3. ASSUME NEW b \in BytesOf("failed", pending)
          PROVE  b \in UNION {ToSet(t.bytes) : t \in {u \in ToSet(pending) : u.status = "failed"}}
      <3>1. PICK i \in 1 .. Len(pending) :
               pending[i].status = "failed" /\ b \in ToSet(pending[i].bytes)
        BY <2>2, <2>3, BytesOfDef
      <3>2. pending[i] \in ToSet(pending) BY <2>2, <3>1 DEF ToSet
      <3> QED BY <3>1, <3>2
    <2> QED BY <2>1, <2>3
  <1> QED BY <1>1, TransmitInvariance, PTL

(* A drain that returns Ok means that every byte any clone had written before is
   on the line or is one whose loss a call has returned, for any number of
   clones that write, submit and drain in between. *)
THEOREM DrainCorrect == Spec => []DrainCovers
  <1>1. TransmitIInv => DrainCovers BY DEF TransmitIInv
  <1> QED BY <1>1, TransmitInvariance, PTL

(* Through full and partial buffers, timeouts, failed transfers and Drop, every
   byte that a write has accepted is in one place and all are in order, for any
   sizes, clones and calls. *)
THEOREM TransmitInOrder == Spec => []BytesInOrder
  <1>1. Init => OrderInv BY InitOrder
  <1>2. TransmitIInv /\ OrderInv /\ [Next]_vars => OrderInv'
    BY OrderStep DEF TransmitIInv, WriterInv
  <1>3. OrderInv => BytesInOrder BY DEF OrderInv, Ordered, Increasing, BytesInOrder
  <1> QED BY <1>1, <1>2, <1>3, TransmitInvariance, PTL DEF Spec

===============================================================================
