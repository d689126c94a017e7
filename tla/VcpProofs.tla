------------------------------ MODULE VcpProofs ------------------------------
(***************************************************************************)
(* Proofs about Vcp: the locks, the answers to the caller, the drain and   *)
(* the selection of the cable, for any number of clones, cables and ports, *)
(* and about the rates of Baud, for every rate on offer.                   *)
(***************************************************************************)
EXTENDS Vcp, TLAPS

\* What was learnt of the ports is true of them while no device is moved; what
\* is about to be opened was listed, and fits alone.
ListInv ==
    /\ life = "open" => chosen \in listed
    /\ life = "ready" => opened \in Devices
    /\ life = "open" /\ path = NoPath =>
          \A r \in listed : serial \in {None, r.serial} => r = chosen
    /\ ~raced /\ life \in {"list", "link"} => \A n \in DOMAIN todo : todo[n] = attached[n]
    /\ ~raced /\ life = "link" => meta.serial = attached[meta.port]
    /\ ~raced => \A r \in listed : r.stable \in {None, r.serial}

\* No byte is anywhere but in the queue or with the cable, until it is unplugged.
DrainInv ==
    /\ DrainCovers
    /\ life = "ready" => Gone \/ accepted = sent + outq
    /\ \A c \in Clones : mark[c] <= accepted

VcpIInv == VcpInv /\ ListInv /\ DrainInv

Opening == Replug \/ ReadMetadata \/ ReadLink \/ Listed \/ Select \/ Open

LEMMA InitVcpIInv == Init => VcpIInv
  <1> SUFFICES ASSUME Init PROVE VcpIInv
    OBVIOUS
  <1>1. OpenTypeOK
    <2>1. /\ DOMAIN todo = Present /\ \A n \in Present : todo[n] = attached[n]
      BY DEF Init
    <2>2. \A n \in Present : n \in Nodes /\ attached[n] \in Devices
      BY DEF Init, Present
    <2>3. DOMAIN todo \subseteq Nodes /\ \A n \in DOMAIN todo : todo[n] \in Devices
      BY <2>1, <2>2
    <2>4. 0 \in 0 .. MaxPlugs BY BoundAssumption
    <2>5. /\ attached \in [Nodes -> Devices \cup {None}] /\ plugs = 0 /\ raced = FALSE
          /\ serial \in Cables \cup {None} /\ path \in Paths \cup {NoPath}
          /\ life = "list" /\ meta = NoMeta /\ listed = {} /\ chosen = NoDevice
          /\ opened = None
      BY DEF Init
    <2> QED BY <2>3, <2>4, <2>5 DEF OpenTypeOK
  <1>2. PortTypeOK
    <2>1. 0 \in 0 .. MaxBytes /\ 0 \in 0 .. QueueSize BY BoundAssumption
    <2>2. /\ step \in [Clones -> Steps] /\ late \in [Clones -> BOOLEAN]
          /\ mark \in [Clones -> 0 .. MaxBytes]
      BY <2>1 DEF Init, Steps
    <2> QED BY <2>1, <2>2 DEF Init, PortTypeOK
  <1>3. LockedUse BY NameAssumption DEF Init, LockedUse
  <1>4. OpenFirst /\ RetryIsHonest
    BY DEF Init, OpenFirst, RetryIsHonest, NoAnswer, Transient, None
  <1>5. ListInv BY DEF Init, ListInv, Present
  <1>6. DrainInv BY DEF Init, DrainInv, DrainCovers
  <1> QED BY <1>1, <1>2, <1>3, <1>4, <1>5, <1>6 DEF VcpIInv, VcpInv, TypeOK

-----------------------------------------------------------------------------
(* Listing, selecting and opening. *)

\* Where a path leads.
LEMMA PortFacts ==
  ASSUME NEW p \in Paths, Exists(p), attached \in [Nodes -> Devices \cup {None}]
  PROVE  /\ Port(p) \in Nodes /\ attached[Port(p)] \in Devices
         /\ \A d : p = Link(d) => attached[Port(p)] = d
  <1>1. Port(p) # None /\ attached[Port(p)] # None BY DEF Exists
  <1>2. CASE p.kind = "node"
    <2>1. Port(p) = p.of /\ p.of \in Nodes BY <1>2 DEF Port, Paths
    <2>2. \A d : p # Link(d) BY <1>2 DEF Link
    <2> QED BY <1>1, <2>1, <2>2
  <1>3. CASE p.kind = "link"
    <2>1. \E n \in Nodes : attached[n] = p.of BY <1>1, <1>3 DEF Port
    <2>2. Port(p) = CHOOSE n \in Nodes : attached[n] = p.of BY <1>1, <1>3 DEF Port
    <2>3. Port(p) \in Nodes /\ attached[Port(p)] = p.of BY <2>1, <2>2
    <2>4. \A d : p = Link(d) => p.of = d BY DEF Link
    <2> QED BY <1>1, <2>3, <2>4
  <1> QED BY <1>2, <1>3 DEF Paths

\* The path that is opened.
LEMMA TargetFacts ==
  ASSUME VcpIInv, life = "open"
  PROVE  Target \in Paths
  <1>1. chosen \in Records BY DEF VcpIInv, VcpInv, TypeOK, OpenTypeOK, ListInv
  <1>2. path \in Paths \cup {NoPath} BY DEF VcpIInv, VcpInv, TypeOK, OpenTypeOK
  <1> QED BY <1>1, <1>2 DEF Target, Records, Paths, Link, Node

LEMMA OpeningTypes ==
  ASSUME VcpIInv, Opening
  PROVE  OpenTypeOK'
  <1> USE DEF OpenTypeOK, worldVars, openVars, askVars
  <1>0. OpenTypeOK BY DEF VcpIInv, VcpInv, TypeOK
  <1>1. CASE Replug
    <2>1. PICK d \in Devices, n \in Nodes \cup {None} :
             attached' = [m \in Nodes |-> IF m = n THEN d
                                          ELSE IF attached[m] = d THEN None ELSE attached[m]]
      BY <1>1 DEF Replug
    <2>2. attached' \in [Nodes -> Devices \cup {None}] BY <1>0, <2>1
    <2>3. plugs' \in 0 .. MaxPlugs /\ raced' \in BOOLEAN
      BY <1>0, <1>1, BoundAssumption DEF Replug
    <2> QED BY <1>0, <1>1, <2>2, <2>3 DEF Replug
  <1>2. CASE ReadMetadata
    <2>1. PICK n \in DOMAIN todo, d \in Devices \cup {None} :
             /\ todo' = [m \in DOMAIN todo \ {n} |-> todo[m]]
             /\ IF d \in Cables THEN life' = "link" /\ meta' = [port |-> n, serial |-> d]
                               ELSE UNCHANGED <<life, meta>>
      BY <1>2 DEF ReadMetadata
    <2>2. DOMAIN todo' \subseteq Nodes /\ \A m \in DOMAIN todo' : todo'[m] \in Devices
      BY <1>0, <2>1
    <2>3. life = "list" /\ n \in Nodes BY <1>0, <1>2 DEF ReadMetadata
    <2>4. IF life' = "link" THEN meta' \in [port : Nodes, serial : Cables] ELSE meta' = NoMeta
      BY <1>0, <2>1, <2>3
    <2>5. life' \in {"list", "link"} BY <2>1, <2>3
    <2> QED BY <1>0, <1>2, <2>2, <2>4, <2>5 DEF ReadMetadata
  <1>3. CASE ReadLink
    <2>1. meta.port \in Nodes /\ meta.serial \in Cables BY <1>0, <1>3 DEF ReadLink
    <2>2. attached[meta.port] \in Devices \cup {None} BY <1>0, <2>1
    <2>3. listed' \subseteq Records BY <1>0, <1>3, <2>1, <2>2 DEF ReadLink, Records
    <2> QED BY <1>0, <1>3, <2>3 DEF ReadLink
  <1>4. CASE Listed BY <1>0, <1>4 DEF Listed
  <1>5. CASE Select
    <2>1. Matches \subseteq Records BY <1>0 DEF Matches
    <2>2. chosen' \in Records \cup {NoDevice} /\ life' \in {"open", "failed"}
      BY <1>0, <1>5, <2>1 DEF Select
    <2> QED BY <1>0, <1>5, <2>2 DEF Select
  <1>6. CASE Open
    <2>1. PICK rate \in Rates :
             \/ /\ Exists(Target) /\ life' = "ready" /\ opened' = attached[Port(Target)]
                /\ attached' = [n \in Nodes |-> IF n = Port(Target) THEN attached[n] ELSE None]
             \/ life' = "failed" /\ UNCHANGED <<opened, attached>>
      BY <1>6 DEF Open
    <2>2. Exists(Target) => attached[Port(Target)] \in Devices
      BY <1>0, <1>6, TargetFacts, PortFacts DEF Open
    <2>3. attached' \in [Nodes -> Devices \cup {None}] BY <1>0, <2>1
    <2>4. opened' \in Devices \cup {None} BY <1>0, <2>1, <2>2
    <2>5. 0 \in 0 .. MaxPlugs BY BoundAssumption
    <2>6. /\ plugs' = 0 /\ raced' = FALSE /\ serial' = None /\ path' = NoPath
          /\ listed' = {} /\ chosen' = NoDevice /\ UNCHANGED <<todo, meta>> /\ life = "open"
      BY <1>6 DEF Open
    <2>7. life' \in {"ready", "failed"} BY <2>1
    <2> QED BY <1>0, <2>3, <2>4, <2>5, <2>6, <2>7
  <1> QED BY <1>1, <1>2, <1>3, <1>4, <1>5, <1>6 DEF Opening

LEMMA OpeningList ==
  ASSUME VcpIInv, Opening
  PROVE  ListInv'
  <1> USE DEF worldVars, openVars, askVars
  <1>0. OpenTypeOK /\ ListInv BY DEF VcpIInv, VcpInv, TypeOK
  <1>1. CASE Replug BY <1>0, <1>1 DEF Replug, ListInv, OpenTypeOK
  <1>2. CASE ReadMetadata
    <2>1. PICK n \in DOMAIN todo, d \in Devices \cup {None} :
             /\ d \in {todo[n], attached[n]}
             /\ todo' = [m \in DOMAIN todo \ {n} |-> todo[m]]
             /\ IF d \in Cables THEN life' = "link" /\ meta' = [port |-> n, serial |-> d]
                               ELSE UNCHANGED <<life, meta>>
      BY <1>2 DEF ReadMetadata
    <2>2. life = "list" /\ UNCHANGED <<attached, raced, listed>> BY <1>2 DEF ReadMetadata
    <2>3. ~raced => d = attached[n] BY <1>0, <2>1, <2>2 DEF ListInv
    <2>4. ~raced => \A m \in DOMAIN todo' : todo'[m] = attached[m]
      BY <1>0, <2>1, <2>2 DEF ListInv
    <2>5. life' \in {"list", "link"} BY <2>1, <2>2
    <2>6. ~raced /\ life' = "link" => meta'.serial = attached[meta'.port]
      BY <2>1, <2>2, <2>3
    <2> QED BY <1>0, <2>2, <2>4, <2>5, <2>6 DEF ListInv
  <1>3. CASE ReadLink
    <2>1. life = "link" /\ life' = "list" /\ UNCHANGED <<attached, raced, todo>>
      BY <1>3 DEF ReadLink
    <2>2. ~raced => \A r \in listed' : r.stable \in {None, r.serial}
      BY <1>0, <1>3, <2>1 DEF ListInv, ReadLink
    <2> QED BY <1>0, <2>1, <2>2 DEF ListInv
  <1>4. CASE Listed BY <1>0, <1>4 DEF Listed, ListInv
  <1>5. CASE Select
    <2>1. UNCHANGED <<attached, raced, listed, serial, path>> /\ life' \in {"open", "failed"}
      BY <1>5 DEF Select
    <2>2. life' = "open" => Matches = {chosen'} BY <1>5 DEF Select
    <2>3. Matches \subseteq listed BY DEF Matches
    <2>4. path = NoPath => Matches = {r \in listed : serial \in {None, r.serial}}
      BY DEF Matches
    <2> QED BY <1>0, <2>1, <2>2, <2>3, <2>4 DEF ListInv
  <1>6. CASE Open
    <2>1. life' = "ready" => opened' \in Devices
      BY <1>0, <1>6, TargetFacts, PortFacts DEF Open, OpenTypeOK
    <2> QED BY <1>0, <1>6, <2>1 DEF Open, ListInv
  <1> QED BY <1>1, <1>2, <1>3, <1>4, <1>5, <1>6 DEF Opening

\* Nothing of the port is touched before it is open.
LEMMA OpeningStep ==
  ASSUME VcpIInv, Opening
  PROVE  VcpIInv'
  <1>1. OpenTypeOK' /\ ListInv' BY OpeningTypes, OpeningList
  <1>2. /\ life # "ready"
        /\ UNCHANGED <<cancelled, readLock, writeLock, step, late, mark, outq, sent,
                       accepted, covered, answer>>
    BY DEF Opening, Replug, ReadMetadata, ReadLink, Listed, Select, Open, portVars, lockVars,
           cloneVars, queueVars
  <1>3. PortTypeOK' /\ LockedUse' /\ RetryIsHonest'
    BY <1>2 DEF VcpIInv, VcpInv, TypeOK, PortTypeOK, LockedUse, RetryIsHonest
  <1>4. OpenFirst' BY <1>2 DEF VcpIInv, VcpInv, OpenFirst
  <1>5. accepted' = sent' + outq'
    BY <1>2 DEF VcpIInv, VcpInv, TypeOK, PortTypeOK, OpenFirst, DrainInv, DrainCovers
  <1>6. DrainInv' BY <1>2, <1>5 DEF VcpIInv, DrainInv, DrainCovers
  <1> QED BY <1>1, <1>3, <1>4, <1>6 DEF VcpIInv, VcpInv, TypeOK

-----------------------------------------------------------------------------
(* The open port. *)

\* A call that returns bytes, the end, or a failure of Failures tells no one
\* to try again without a reason.
LEMMA AnswerFacts ==
  ASSUME NEW n \in Nat, NEW zero \in {"Eof", "WriteZero"},
         NEW kind \in Failures \cup {"Ok"}, Answer(n, kind, zero)
  PROVE  RetryIsHonest'
  <1>1. answer' = [cause |-> kind,
                   kind  |-> IF n # 0 THEN "Ok"
                             ELSE IF kind = "Ok" THEN zero ELSE IoFailure(IoOutcome(kind))]
    BY DEF Answer
  <1>2. kind \in {"Ok", "TimedOut", "Interrupted", "BrokenPipe", "Other", "PermissionDenied"}
    BY DEF Failures
  <1>3. kind \in {"BrokenPipe", "Other", "PermissionDenied"} =>
           IoFailure(IoOutcome(kind)) \in {"NotConnected", "InvalidData", "PermissionDenied"}
    BY DEF IoFailure, IoOutcome, Transient
  <1> QED BY <1>1, <1>2, <1>3 DEF RetryIsHonest, Transient

\* NoReturn tells nobody anything.
LEMMA NoReturnFacts == NoReturn => RetryIsHonest'
  BY DEF NoReturn, NoAnswer, None, RetryIsHonest, Transient

LEMMA ReturnStep ==
  ASSUME VcpIInv, NEW c \in Clones,
         \/ ReadCall(c) \/ WriteCall(c) \/ DrainCall(c) \/ Work(c) \/ Expire(c)
         \/ Cancel \/ LineSends \/ Unplug
  PROVE  RetryIsHonest'
  <1>1. CASE ReadCall(c) \/ WriteCall(c)
    <2>1. NoReturn \/ answer' = [cause |-> "cancelled", kind |-> IoFailure("TimedOut")]
      BY <1>1 DEF ReadCall, WriteCall, Call
    <2> QED BY <2>1, NoReturnFacts DEF RetryIsHonest
  <1>2. CASE ReadReturn(c)
    <2>1. \E n \in {0, 1}, kind \in Failures \cup {"Ok"} : Answer(n, kind, "Eof")
      BY <1>2 DEF ReadReturn
    <2> QED BY <2>1, AnswerFacts
  <1>3. CASE WriteReturn(c)
    <2>1. \E n \in Nat, kind \in Failures \cup {"Ok"} : Answer(n, kind, "WriteZero")
      BY <1>3, BoundAssumption DEF WriteReturn, VcpIInv, VcpInv, TypeOK, PortTypeOK
    <2> QED BY <2>1, AnswerFacts
  <1>4. CASE DrainPoll(c)
    <2>1. \/ NoReturn
          \/ answer'.kind \in {"Access", "Ok", "Timeout"}
      BY <1>4 DEF DrainPoll, DrainEnds
    <2> QED BY <2>1, NoReturnFacts DEF RetryIsHonest, Transient
  <1>5. CASE \/ DrainCall(c) \/ ReadLock(c) \/ WriteLock(c) \/ DrainNap(c) \/ Expire(c)
             \/ Cancel \/ LineSends \/ Unplug
    BY <1>5, NoReturnFacts
    DEF DrainCall, ReadLock, WriteLock, DrainNap, Expire, Cancel, LineSends, Unplug
  <1> QED BY <1>1, <1>2, <1>3, <1>4, <1>5 DEF Work

\* The threads and the locks.
LEMMA LockStep ==
  ASSUME VcpIInv, NEW c \in Clones,
         \/ ReadCall(c) \/ WriteCall(c) \/ DrainCall(c) \/ Work(c) \/ Expire(c)
         \/ Cancel \/ LineSends \/ Unplug
  PROVE  /\ cancelled' \in BOOLEAN /\ late' \in [Clones -> BOOLEAN]
         /\ readLock' \in Clones \cup {None} /\ writeLock' \in Clones \cup {None}
         /\ step' \in [Clones -> Steps]
         /\ LockedUse'
  <1>0. PortTypeOK /\ LockedUse BY DEF VcpIInv, VcpInv, TypeOK
  <1>1. None \notin Clones BY NameAssumption
  <1> USE DEF PortTypeOK, LockedUse, Goto, lockVars, cloneVars, Steps
  <1>2. CASE ReadCall(c) \/ WriteCall(c) BY <1>0, <1>2 DEF ReadCall, WriteCall, Call
  <1>3. CASE DrainCall(c) BY <1>0, <1>3 DEF DrainCall
  <1>4. CASE ReadLock(c) BY <1>0, <1>1, <1>4 DEF ReadLock
  <1>5. CASE ReadReturn(c) BY <1>0, <1>1, <1>5 DEF ReadReturn
  <1>6. CASE WriteLock(c) BY <1>0, <1>1, <1>6 DEF WriteLock
  <1>7. CASE WriteReturn(c) BY <1>0, <1>1, <1>7 DEF WriteReturn
  <1>8. CASE DrainPoll(c)
    <2>1. /\ step[c] = "drain" /\ UNCHANGED <<cancelled, readLock, writeLock>>
          /\ \E s \in {"idle", "nap"} : step' = [step EXCEPT ![c] = s]
          /\ late' = late \/ late' = [late EXCEPT ![c] = FALSE]
      BY <1>8 DEF DrainPoll, DrainEnds
    <2>2. PICK s \in {"idle", "nap"} : step' = [step EXCEPT ![c] = s] BY <2>1
    <2>3. \A k \in Clones : /\ step'[k] = "reading" <=> step[k] = "reading"
                            /\ step'[k] = "writing" <=> step[k] = "writing"
      BY <1>0, <2>1, <2>2
    <2>4. late' \in [Clones -> BOOLEAN] /\ step' \in [Clones -> Steps] BY <1>0, <2>1, <2>2
    <2> QED BY <1>0, <2>1, <2>3, <2>4
  <1>9. CASE DrainNap(c) BY <1>0, <1>9 DEF DrainNap
  <1>10. CASE Expire(c) BY <1>0, <1>10 DEF Expire
  <1>11. CASE Cancel \/ LineSends \/ Unplug
    <2>1. UNCHANGED <<readLock, writeLock, step, late>> /\ cancelled' \in {TRUE, cancelled}
      BY <1>11 DEF Cancel, LineSends, Unplug
    <2> QED BY <1>0, <2>1
  <1> QED BY <1>2, <1>3, <1>4, <1>5, <1>6, <1>7, <1>8, <1>9, <1>10, <1>11 DEF Work

\* The bytes.
LEMMA DrainStep ==
  ASSUME VcpIInv, NEW c \in Clones,
         \/ ReadCall(c) \/ WriteCall(c) \/ DrainCall(c) \/ Work(c) \/ Expire(c)
         \/ Cancel \/ LineSends \/ Unplug
  PROVE  /\ outq' \in 0 .. QueueSize /\ sent' \in 0 .. MaxBytes
         /\ accepted' \in 0 .. MaxBytes /\ covered' \in 0 .. MaxBytes
         /\ mark' \in [Clones -> 0 .. MaxBytes]
         /\ DrainInv' /\ life' = "ready" /\ life = "ready"
  <1>0. /\ outq \in 0 .. QueueSize /\ sent \in 0 .. MaxBytes
        /\ accepted \in 0 .. MaxBytes /\ covered \in 0 .. MaxBytes
        /\ mark \in [Clones -> 0 .. MaxBytes] /\ step \in [Clones -> Steps]
        /\ DrainInv
    BY DEF VcpIInv, VcpInv, TypeOK, PortTypeOK
  <1>1. MaxBytes \in Nat /\ QueueSize \in Nat BY BoundAssumption
  <1>2. life = "ready"
    BY DEF ReadCall, WriteCall, Call, DrainCall, Work, ReadLock, ReadReturn, WriteLock,
           WriteReturn, DrainPoll, DrainNap, Expire, Cancel, LineSends, Unplug, VcpIInv,
           VcpInv, OpenFirst
  <1>3. life' = life /\ opened' = opened
    BY DEF ReadCall, WriteCall, Call, DrainCall, Work, ReadLock, ReadReturn, WriteLock,
           WriteReturn, DrainPoll, DrainNap, Expire, Cancel, LineSends, Unplug, openVars
  <1> USE DEF DrainInv, DrainCovers
  <1>4. CASE \/ ReadCall(c) \/ WriteCall(c) \/ ReadLock(c) \/ ReadReturn(c) \/ WriteLock(c)
             \/ DrainNap(c) \/ Expire(c) \/ Cancel
    <2>1. UNCHANGED <<outq, sent, accepted, covered, mark, attached>>
      BY <1>4 DEF ReadCall, WriteCall, Call, ReadLock, ReadReturn, WriteLock, DrainNap,
                  Expire, Cancel, queueVars, cloneVars, worldVars
    <2> QED BY <1>0, <1>2, <1>3, <2>1 DEF Gone
  <1>5. CASE DrainCall(c)
    <2>1. /\ UNCHANGED <<outq, sent, accepted, covered, attached>>
          /\ mark' = [mark EXCEPT ![c] = accepted]
      BY <1>5 DEF DrainCall, queueVars, worldVars
    <2> QED BY <1>0, <1>2, <1>3, <2>1 DEF Gone
  <1>6. CASE WriteReturn(c)
    <2>1. /\ UNCHANGED <<sent, covered, mark, attached>>
          /\ \/ \E n \in 1 .. MaxBytes - accepted :
                   /\ ~Gone /\ outq + n <= QueueSize
                   /\ outq' = outq + n /\ accepted' = accepted + n
             \/ UNCHANGED <<outq, accepted>>
      BY <1>6 DEF WriteReturn, worldVars
    <2>2. CASE UNCHANGED <<outq, accepted>> BY <1>0, <1>2, <1>3, <2>1, <2>2 DEF Gone
    <2>3. ASSUME NEW n \in 1 .. MaxBytes - accepted, ~Gone, outq + n <= QueueSize,
                 outq' = outq + n, accepted' = accepted + n
          PROVE  /\ outq' \in 0 .. QueueSize /\ accepted' \in 0 .. MaxBytes
                 /\ accepted' = sent + outq' /\ sent + outq' <= accepted'
                 /\ \A k \in Clones : mark[k] <= accepted'
      BY <1>0, <1>1, <1>2, <2>3
    <2>4. CASE \E n \in 1 .. MaxBytes - accepted :
                   /\ ~Gone /\ outq + n <= QueueSize
                   /\ outq' = outq + n /\ accepted' = accepted + n
      <3>1. /\ outq' \in 0 .. QueueSize /\ accepted' \in 0 .. MaxBytes
            /\ accepted' = sent + outq' /\ sent + outq' <= accepted'
            /\ \A k \in Clones : mark[k] <= accepted'
        BY <2>3, <2>4
      <3> QED BY <1>0, <1>2, <1>3, <2>1, <3>1
    <2> QED BY <2>1, <2>2, <2>4
  <1>7. CASE DrainPoll(c)
    <2>1. /\ UNCHANGED <<outq, sent, accepted, attached>>
          /\ mark' \in {mark, [mark EXCEPT ![c] = 0]}
          /\ \/ covered' = covered
             \/ ~Gone /\ outq = 0 /\ covered' = IF mark[c] > covered THEN mark[c] ELSE covered
      BY <1>7 DEF DrainPoll, DrainEnds, Cover, worldVars
    <2>2. mark' \in [Clones -> 0 .. MaxBytes] /\ \A k \in Clones : mark'[k] <= accepted
      BY <1>0, <1>1, <2>1
    <2>3. covered' \in 0 .. MaxBytes /\ covered' <= sent
      BY <1>0, <1>1, <1>2, <2>1
    <2> QED BY <1>0, <1>2, <1>3, <2>1, <2>2, <2>3 DEF Gone
  <1>8. CASE LineSends
    <2>1. /\ UNCHANGED <<accepted, covered, mark, attached>> /\ ~Gone
          /\ outq > 0 /\ outq' = outq - 1 /\ sent' = sent + 1
      BY <1>8 DEF LineSends, cloneVars, worldVars
    <2>2. accepted = sent + outq BY <1>0, <1>2, <2>1
    <2> QED BY <1>0, <1>1, <1>2, <1>3, <2>1, <2>2
  <1>9. CASE Unplug
    <2>1. /\ UNCHANGED <<accepted, covered, mark, sent>> /\ outq' = 0
          /\ attached' = [n \in Nodes |-> IF attached[n] = opened THEN None ELSE attached[n]]
      BY <1>9 DEF Unplug, cloneVars
    <2>2. ~Gone BY <1>9 DEF Unplug
    <2>3. opened # None
      BY <1>2, NameAssumption DEF VcpIInv, ListInv, Devices
    <2>4. Gone' BY <1>3, <2>1, <2>3 DEF Gone
    <2> QED BY <1>0, <1>1, <1>2, <1>3, <2>1, <2>4
  <1> QED BY <1>4, <1>5, <1>6, <1>7, <1>8, <1>9, <1>2, <1>3 DEF Work

\* A step on the open port.
LEMMA PortStep ==
  ASSUME VcpIInv, NEW c \in Clones,
         \/ ReadCall(c) \/ WriteCall(c) \/ DrainCall(c) \/ Work(c) \/ Expire(c)
         \/ Cancel \/ LineSends \/ Unplug
  PROVE  VcpIInv'
  <1>1. RetryIsHonest' BY ReturnStep
  <1>2. PortTypeOK' /\ LockedUse' BY LockStep, DrainStep DEF PortTypeOK
  <1>3. DrainInv' /\ life' = "ready" /\ life = "ready" BY DrainStep
  <1>4. OpenFirst' BY <1>3 DEF OpenFirst
  <1>5. /\ UNCHANGED <<plugs, raced, serial, path, todo, meta, listed, chosen, opened>>
        /\ \/ attached' = attached
           \/ attached' = [n \in Nodes |-> IF attached[n] = opened THEN None ELSE attached[n]]
    BY DEF ReadCall, WriteCall, Call, DrainCall, Work, ReadLock, ReadReturn, WriteLock,
           WriteReturn, DrainPoll, DrainNap, Expire, Cancel, LineSends, Unplug, openVars,
           askVars, worldVars
  <1>6. OpenTypeOK' BY <1>3, <1>5 DEF VcpIInv, VcpInv, TypeOK, OpenTypeOK
  <1>7. ListInv' BY <1>3, <1>5 DEF VcpIInv, ListInv
  <1> QED BY <1>1, <1>2, <1>3, <1>4, <1>6, <1>7 DEF VcpIInv, VcpInv, TypeOK

\* VcpIInv is inductive.
LEMMA NextVcpIInv == VcpIInv /\ [Next]_vars => VcpIInv'
  <1> SUFFICES ASSUME VcpIInv, [Next]_vars PROVE VcpIInv'
    OBVIOUS
  <1>1. CASE Opening BY <1>1, OpeningStep
  <1>2. CASE \E c \in Clones : ReadCall(c) \/ WriteCall(c) \/ DrainCall(c) \/ Work(c) \/ Expire(c)
    BY <1>2, PortStep
  <1>3. CASE Cancel \/ LineSends \/ Unplug
    BY <1>3, PortStep, CloneAssumption
  <1>4. CASE UNCHANGED vars
    BY <1>4
    DEF VcpIInv, VcpInv, TypeOK, OpenTypeOK, PortTypeOK, LockedUse, OpenFirst, RetryIsHonest,
        ListInv, DrainInv, DrainCovers, Gone, vars, worldVars, openVars, askVars, portVars,
        lockVars, cloneVars, queueVars
  <1> QED BY <1>1, <1>2, <1>3, <1>4 DEF Next, Opening, Failed

-----------------------------------------------------------------------------

LEMMA VcpInvariance == Spec => []VcpIInv
  <1> QED BY InitVcpIInv, NextVcpIInv, PTL DEF Spec

(* The port's variables keep their types, each handle is used by the holder of
   its lock alone, nothing is asked of a port before it is open, and an answer
   that invites a retry comes from a timeout, a signal or the cancellation. *)
THEOREM VcpCorrect == Spec => []VcpInv
  <1>1. VcpIInv => VcpInv BY DEF VcpIInv
  <1> QED BY <1>1, VcpInvariance, PTL

(* A drain that reports success covers every byte write had taken when it
   began, whatever other clones write and however long the queue is. *)
THEOREM DrainIsComplete == Spec => []DrainCovers
  <1>1. VcpIInv => DrainCovers BY DEF VcpIInv, DrainInv
  <1> QED BY <1>1, VcpInvariance, PTL

\* What Open opens when no port was named.
LEMMA OpenStep ==
  ASSUME VcpIInv, Next, life' = "ready", life # "ready",
         path = NoPath, chosen.stable # None, ~raced
  PROVE  /\ opened' = chosen.serial
         /\ \A r \in listed : serial \in {None, r.serial} => r = chosen
  <1>1. Open
    <2>1. ~(\E c \in Clones : ReadCall(c) \/ WriteCall(c) \/ DrainCall(c) \/ Work(c) \/ Expire(c))
      BY DrainStep
    <2> QED BY <2>1 DEF Next, Replug, ReadMetadata, ReadLink, Listed, Select, Cancel,
                        LineSends, Unplug, Failed, vars, openVars
  <1>2. life = "open" /\ Exists(Target) /\ opened' = attached[Port(Target)] BY <1>1 DEF Open
  <1>3. OpenTypeOK BY DEF VcpIInv, VcpInv, TypeOK
  <1>4. chosen \in listed /\ \A r \in listed : serial \in {None, r.serial} => r = chosen
    BY <1>2 DEF VcpIInv, ListInv
  <1>5. chosen.stable = chosen.serial BY <1>4 DEF VcpIInv, ListInv
  <1>6. Target = Link(chosen.serial) BY <1>5 DEF Target
  <1>7. Target \in Paths BY <1>2, TargetFacts
  <1>8. attached[Port(Target)] = chosen.serial BY <1>2, <1>3, <1>6, <1>7, PortFacts DEF OpenTypeOK
  <1> QED BY <1>2, <1>4, <1>8

(* Whoever names no port opens the cable that was selected, by udev's name for
   it, though the names of the ports have changed hands since the listing. *)
THEOREM OpensTheSelected == Spec => OpensSelected
  <1>1. VcpIInv /\ [Next]_vars =>
          [life' = "ready" /\ life # "ready" /\ path = NoPath /\ chosen.stable # None /\ ~raced
              => /\ opened' = chosen.serial
                 /\ \A r \in listed : serial \in {None, r.serial} => r = chosen]_vars
    BY OpenStep
  <1> QED BY <1>1, VcpInvariance, PTL DEF Spec, OpensSelected

-----------------------------------------------------------------------------
(* The rates: every one on offer, for each of the two clocks.  A rate whose     *)
(* nearest divisor d misses it by more than 2% has d <= 24, for the divisors     *)
(* beside a larger one are less than 4% apart; and then those beside d miss it   *)
(* too.                                                                          *)

\* A quotient and what remains.
LEMMA DivFacts ==
  ASSUME NEW a \in Nat, NEW b \in Nat \ {0}
  PROVE  \E q, m \in Nat : q = a \div b /\ m = a % b /\ a = q * b + m /\ m < b
  <1>1. a \div b \in Nat OBVIOUS
  <1>2. a % b \in 0 .. b - 1 OBVIOUS
  <1>3. a % b = a - b * (a \div b) OBVIOUS
  <1>4. PICK q \in Nat, m \in Nat : q = a \div b /\ m = a % b BY <1>1, <1>2
  <1>5. a = q * b + m BY <1>3, <1>4
  <1>6. m < b BY <1>2, <1>4
  <1> QED BY <1>4, <1>5, <1>6, Zenon

LEMMA DistanceType == \A a, b \in Nat : Distance(a, b) \in Nat
  BY DEF Distance

\* What the basis points say of the distance itself.
LEMMA BasisPointsFacts ==
  ASSUME NEW a \in Nat, NEW r \in Nat \ {0}
  PROVE  /\ Distance(a, r) \in Nat
         /\ Fits(a, r) => 10000 * Distance(a, r) < 201 * r
         /\ ~Fits(a, r) => 10000 * Distance(a, r) >= 201 * r
  <1>1. PICK d \in Nat : d = Distance(a, r) BY DEF Distance
  <1> DEFINE x == 100 * d
  <1>2. x \in Nat OBVIOUS
  <1> HIDE DEF x
  <1>3. PICK q \in Nat, m \in Nat : q = x \div r /\ m = x % r /\ x = q * r + m /\ m < r
    BY <1>2, DivFacts
  <1> DEFINE y == 100 * m
  <1>4. y \in Nat OBVIOUS
  <1> HIDE DEF y
  <1>5. PICK p \in Nat, n \in Nat : p = y \div r /\ n = y % r /\ y = p * r + n /\ n < r
    BY <1>4, DivFacts, Zenon
  <1>6. BasisPoints(a, r) = 100 * q + p BY <1>1, <1>3, <1>5 DEF BasisPoints, x, y
  <1>7. PICK b \in Nat : b = 100 * q + p OBVIOUS
  <1>11. b * r = 100 * (q * r) + p * r BY <1>7
  <1>8. 10000 * d = b * r + n BY <1>3, <1>5, <1>11 DEF x, y
  <1>9. b <= 200 => b * r <= 200 * r OBVIOUS
  <1>10. b >= 201 => b * r >= 201 * r OBVIOUS
  <1> QED BY <1>1, <1>5, <1>6, <1>7, <1>8, <1>9, <1>10 DEF Fits

\* A rate that fits is off by less than 2.01%.
LEMMA CloseFacts ==
  ASSUME NEW a \in Nat, NEW r \in Nat \ {0}, Fits(a, r)
  PROVE  Close(a, r)
  <1>1. PICK d \in Nat : d = Distance(a, r) /\ 10000 * d < 201 * r
    BY BasisPointsFacts
  <1>2. PICK s \in Nat, t \in Nat : s = r \div 50 /\ t = r \div 1000 OBVIOUS
  <1>3. r <= 50 * s + 49 /\ r <= 1000 * t + 999 BY <1>2
  <1>4. 10 * (d - s) <= t + 10 BY <1>1, <1>3
  <1> QED BY <1>1, <1>2, <1>4 DEF Close

\* The nearest divisor: the clock is within half a rate of its multiple.
LEMMA RoundedFacts ==
  ASSUME NEW clock \in Nat, NEW r \in Nat \ {0}
  PROVE  /\ Rounded(clock, r) \in Nat
         /\ 2 * (Rounded(clock, r) * r) <= 2 * clock + r
         /\ 2 * clock < 2 * (Rounded(clock, r) * r) + r
  <1>1. PICK h \in Nat : h = r \div 2 /\ 2 * h <= r /\ r <= 2 * h + 1 OBVIOUS
  <1>2. PICK x \in Nat : x = clock + h OBVIOUS
  <1>3. PICK q \in Nat, m \in Nat : q = x \div r /\ m = x % r /\ x = q * r + m /\ m < r
    BY DivFacts
  <1>4. PICK y \in Int : y = q * r OBVIOUS
  <1>5. 2 * y <= 2 * clock + r /\ 2 * clock < 2 * y + r BY <1>1, <1>2, <1>3, <1>4
  <1>6. Rounded(clock, r) = q BY <1>1, <1>2, <1>3 DEF Rounded
  <1> QED BY <1>4, <1>5, <1>6

\* What a divisor e makes of a clock, rounded either way.
Divides(clock, e, a) ==
    /\ a \in Nat /\ clock < e * a + e /\ 2 * (e * a) <= 2 * clock + e

\* The divider rounds down, the FT232H to the nearest.
LEMMA GlasgowDivides ==
  ASSUME NEW e \in Nat \ {0}
  PROVE  Divides(GlasgowClock, e, GlasgowActual(e))
  <1>1. PICK q \in Nat, m \in Nat : q = 48000000 \div e /\ m = 48000000 % e BY DivFacts, SMT
  <1>2. 48000000 = q * e + m /\ m < e BY <1>1, DivFacts, SMT
  <1>3. q * e = e * q OBVIOUS
  <1> QED BY <1>1, <1>2, <1>3, SMT DEF Divides, GlasgowClock, GlasgowActual

LEMMA FtdiDivides ==
  ASSUME NEW e \in Nat, e >= 16
  PROVE  Divides(FtdiClock, e, FtdiActual(e))
  <1>1. FtdiActual(e) = Rounded(FtdiClock, e) BY SMT DEF FtdiActual
  <1>2. PICK clock \in Nat : clock = FtdiClock BY SMT DEF FtdiClock
  <1>3. PICK q \in Nat : /\ q = Rounded(clock, e)
                         /\ 2 * (q * e) <= 2 * clock + e /\ 2 * clock < 2 * (q * e) + e
    <2>1. /\ Rounded(clock, e) \in Nat
          /\ 2 * (Rounded(clock, e) * e) <= 2 * clock + e
          /\ 2 * clock < 2 * (Rounded(clock, e) * e) + e
      BY RoundedFacts
    <2> QED BY <2>1
  <1>4. q * e = e * q OBVIOUS
  <1> QED BY <1>1, <1>2, <1>3, <1>4, SMT DEF Divides, GlasgowClock, FtdiClock

\* A divisor that is the nearest one and yet misses the rate is a small one.
LEMMA RefusedIsSmall ==
  ASSUME NEW clock \in {GlasgowClock, FtdiClock}, NEW r \in Nat, r >= 9600,
         NEW d \in Nat, 2 * (d * r) <= 2 * clock + r, 2 * clock < 2 * (d * r) + r,
         NEW a \in Nat, Divides(clock, d, a), 10000 * Distance(a, r) >= 201 * r
  PROVE  d <= 24 /\ r >= 10000
  <1>1. PICK x \in Nat, y \in Nat : x = d * r /\ y = d * a OBVIOUS
  <1>2. PICK miss \in Nat : miss = Distance(a, r) BY DistanceType, SMT
  <1>3. PICK z \in Nat : z = d * miss OBVIOUS
  <1>4. 2 * z <= r + 2 * d
    <2>1. CASE a < r
      <3>1. z = x - y BY <1>1, <1>2, <1>3, <2>1 DEF Distance
      <3> QED BY <1>1, <3>1, SMT DEF Divides, GlasgowClock, FtdiClock
    <2>2. CASE a >= r
      <3>1. z = y - x BY <1>1, <1>2, <1>3, <2>2 DEF Distance
      <3> QED BY <1>1, <3>1, SMT DEF Divides, GlasgowClock, FtdiClock
    <2> QED BY <2>1, <2>2
  <1>5. 10000 * z >= 201 * x
    <2>1. d * (10000 * miss) >= d * (201 * r) BY <1>2
    <2> QED BY <1>1, <1>3, <2>1
  <1>6. x >= 9600 * d BY <1>1
  <1>7. d = 25 => x = 25 * r BY <1>1
  <1>8. d >= 26 => x >= 26 * r BY <1>1
  <1>9. d <= 24
    <2>1. d # 25 BY <1>1, <1>4, <1>5, <1>7, SMT DEF GlasgowClock, FtdiClock
    <2>2. ~(d >= 26) BY <1>1, <1>4, <1>5, <1>6, <1>8, SMT DEF GlasgowClock, FtdiClock
    <2> QED BY <2>1, <2>2
  <1>10. x <= 24 * r BY <1>1, <1>9
  <1> QED BY <1>1, <1>9, <1>10, SMT DEF GlasgowClock, FtdiClock

\* Then no other divisor comes any nearer.
LEMMA NoOtherReaches ==
  ASSUME NEW clock \in {GlasgowClock, FtdiClock}, NEW r \in Nat, r >= 10000,
         NEW d \in Nat, d <= 24, 2 * (d * r) <= 2 * clock + r, 2 * clock < 2 * (d * r) + r,
         NEW e \in Nat \ {0}, e # d, NEW a \in Nat, Divides(clock, e, a)
  PROVE  50 * Distance(a, r) > r
  <1>1. PICK x \in Nat, w \in Nat, y \in Nat : x = d * r /\ w = e * r /\ y = e * a OBVIOUS
  <1>2. x <= 24 * r /\ (d <= 23 => x <= 23 * r) BY <1>1
  <1>3. CASE e < d
    <2>1. w <= x - r
      <3>1. e * r <= (d - 1) * r BY <1>3
      <3> QED BY <1>1, <3>1
    <2>2. 50 * y > 51 * w BY <1>1, <1>2, <1>3, <2>1, SMT DEF Divides, GlasgowClock, FtdiClock
    <2>3. 50 * a > 51 * r
      <3>1. 50 * a <= 51 * r => e * (50 * a) <= e * (51 * r) OBVIOUS
      <3> QED BY <1>1, <2>2, <3>1
    <2> QED BY <2>3 DEF Distance
  <1>4. CASE e > d
    <2>1. w >= x + r
      <3>1. e * r >= (d + 1) * r BY <1>4
      <3> QED BY <1>1, <3>1
    <2>2. 49 * w > 50 * y
      <3>1. CASE e <= 24
        BY <1>1, <1>2, <1>4, <2>1, <3>1, SMT DEF Divides, GlasgowClock, FtdiClock
      <3>2. CASE e = 25
        <4>1. w = 25 * r /\ y = 25 * a BY <1>1, <3>2
        <4> QED BY <1>1, <1>2, <3>2, <4>1, SMT DEF Divides, GlasgowClock, FtdiClock
      <3>3. CASE e >= 26
        <4>1. e * (49 * r - 25) >= 26 * (49 * r - 25) BY <3>3
        <4>2. e * (49 * r - 25) = 49 * w - 25 * e BY <1>1
        <4> QED BY <1>1, <1>2, <4>1, <4>2, SMT DEF Divides, GlasgowClock, FtdiClock
      <3> QED BY <3>1, <3>2, <3>3
    <2>3. 50 * a < 49 * r
      <3>1. 50 * a >= 49 * r => e * (50 * a) >= e * (49 * r) OBVIOUS
      <3> QED BY <1>1, <2>2, <3>1
    <2> QED BY <2>3 DEF Distance
  <1> QED BY <1>3, <1>4

\* What is on offer.
LEMMA OfferedFacts ==
  ASSUME NEW r \in Offered
  PROVE  r \in Nat \ {0} /\ r >= 9600 /\ Slowest <= r /\ r <= Fastest
  <1>1. Slowest \in Int /\ Fastest \in Int /\ Slowest >= 9600
    BY SMT DEF Slowest, Fastest
  <1> QED BY <1>1, SMT DEF Offered

-----------------------------------------------------------------------------
(* The rule of the Glasgow. *)

\* No rate on offer meets the bounds of the divider.
LEMMA GlasgowNearest ==
  ASSUME NEW r \in Offered
  PROVE  /\ GlasgowDivisor(r) \in Nat \ {0}
         /\ 2 * (GlasgowDivisor(r) * r) <= 2 * GlasgowClock + r
         /\ 2 * GlasgowClock < 2 * (GlasgowDivisor(r) * r) + r
  <1>1. r \in Nat \ {0} /\ r >= 9600 /\ 3 * r < 2 * GlasgowClock
    BY OfferedFacts, SMT DEF Fastest, GlasgowClock
  <1>2. PICK clock \in Nat : clock = GlasgowClock BY SMT DEF GlasgowClock
  <1>3. /\ Rounded(clock, r) \in Nat
        /\ 2 * (Rounded(clock, r) * r) <= 2 * clock + r
        /\ 2 * clock < 2 * (Rounded(clock, r) * r) + r
    <2>1. r \in Nat \ {0} BY <1>1
    <2> QED BY <2>1, RoundedFacts
  <1>4. PICK d \in Nat : /\ d = Rounded(clock, r)
                         /\ 2 * (d * r) <= 2 * clock + r /\ 2 * clock < 2 * (d * r) + r
    BY <1>3, Zenon
  <1>5. d # 0 BY <1>1, <1>2, <1>4, SMT
  <1>6. d <= 9999
    <2>1. d >= 10000 => d * r >= 10000 * 9600 BY <1>1, SMT
    <2> QED BY <1>1, <1>2, <1>4, <2>1, SMT DEF GlasgowClock
  <1>7. GlasgowDivisor(r) = d BY <1>2, <1>4, <1>5, <1>6, SMT DEF GlasgowDivisor, Clamp
  <1> QED BY <1>2, <1>4, <1>5, <1>7, SMT

(* baud_divisor does right by every rate on offer: what it takes is off by less
   than 2.01%, and what it refuses no divisor whatever brings within 2%. *)
THEOREM GlasgowRates ==
  ASSUME NEW r \in Offered, NEW divisors \in SUBSET (Nat \ {0})
  PROVE  GlasgowIsHonest(r, divisors)
  <1>1. r \in Nat \ {0} /\ r >= 9600 BY OfferedFacts
  <1>2. PICK d \in Nat \ {0} : /\ d = GlasgowDivisor(r)
                              /\ 2 * (d * r) <= 2 * GlasgowClock + r
                              /\ 2 * GlasgowClock < 2 * (d * r) + r
    BY GlasgowNearest, Zenon
  <1>3. Divides(GlasgowClock, d, GlasgowActual(d)) BY GlasgowDivides, Zenon
  <1>4. PICK a \in Nat : a = GlasgowActual(d) BY <1>3 DEF Divides
  <1>5. CASE Fits(a, r)
    <2>1. Close(a, r) BY <1>1, <1>5, CloseFacts
    <2> QED BY <1>2, <1>4, <1>5, <2>1, Zenon DEF GlasgowIsHonest
  <1>6. CASE ~Fits(a, r)
    <2>1. 10000 * Distance(a, r) >= 201 * r /\ Distance(a, r) \in Nat
      BY <1>1, <1>6, BasisPointsFacts
    <2>2. d <= 24 /\ r >= 10000 BY <1>1, <1>2, <1>3, <1>4, <2>1, RefusedIsSmall
    <2>3. ASSUME NEW e \in divisors PROVE ~(50 * Distance(GlasgowActual(e), r) <= r)
      <3>1. PICK b \in Nat : b = GlasgowActual(e) /\ Divides(GlasgowClock, e, b)
        BY GlasgowDivides, Zenon DEF Divides
      <3>2. CASE e = d BY <1>1, <1>4, <2>1, <3>1, <3>2, SMT
      <3>3. CASE e # d
        <4>1. 50 * Distance(b, r) > r BY <1>1, <1>2, <2>2, <3>1, <3>3, NoOtherReaches
        <4>2. Distance(b, r) \in Nat BY <1>1, BasisPointsFacts
        <4> QED BY <1>1, <3>1, <4>1, <4>2, SMT
      <3> QED BY <3>2, <3>3
    <2>4. ~Reachable(r, {GlasgowActual(e) : e \in divisors}) BY <2>3, Zenon DEF Reachable
    <2> QED BY <1>2, <1>4, <1>6, <2>4, Zenon DEF GlasgowIsHonest
  <1> QED BY <1>5, <1>6

-----------------------------------------------------------------------------
(* The rule of the FT232H. *)

\* The chip undoes the encoding of every divisor it has.
LEMMA FtdiCode ==
  ASSUME NEW d \in Nat, d \in {8, 12} \/ (16 <= d /\ d <= 131071)
  PROVE  FtdiDecode(FtdiEncode(d)) = d
  <1>1. CASE d = 8
    <2>1. FtdiEncode(d) = 131072 BY <1>1, SMT DEF FtdiEncode
    <2> QED BY <1>1, <2>1, SMT DEF FtdiDecode
  <1>2. CASE d = 12
    <2>1. FtdiEncode(d) = 131073 BY <1>2, SMT DEF FtdiEncode
    <2> QED BY <1>2, <2>1, SMT DEF FtdiDecode
  <1>3. CASE d >= 16
    <2>1. PICK q \in Nat, i \in 0 .. 7 : q = d \div 8 /\ i = d % 8 /\ d = 8 * q + i
      BY SMT
    <2>2. q >= 2 /\ q <= 16383 BY <1>3, <2>1, SMT
    <2>3. PICK f \in 0 .. 7 : f = FractionCode[i] BY SMT DEF FractionCode
    <2>4. FtdiEncode(d) = ((d \div 8) + FractionCode[d % 8] * 2^14) + 2^17
      BY <1>3, SMT DEF FtdiEncode
    <2>5. PICK c \in Nat : c = FtdiEncode(d) /\ c = q + 16384 * (f + 8)
      BY <2>1, <2>3, <2>4, SMT
    <2>6. c % 2^14 = q /\ (c \div 2^14) % 8 = f BY <2>2, <2>5, SMT
    <2>7. \A j \in 0 .. 7 : FractionCode[j] = f <=> j = i BY <2>3, SMT DEF FractionCode
    <2>8. FractionOf(f) = i BY <2>7 DEF FractionOf
    <2>9. FtdiDecode(c) = 8 * q + i BY <2>2, <2>6, <2>8, SMT DEF FtdiDecode
    <2> QED BY <2>1, <2>5, <2>9
  <1> QED BY <1>1, <1>2, <1>3

\* The nearest divisor in eighths.
LEMMA FtdiRounded ==
  ASSUME NEW r \in Offered
  PROVE  \E d \in Nat : /\ d = Rounded(FtdiClock, r)
                        /\ 2 * (d * r) <= 2 * FtdiClock + r
                        /\ 2 * FtdiClock < 2 * (d * r) + r
  <1>1. r \in Nat \ {0} BY OfferedFacts
  <1>2. PICK clock \in Nat : clock = FtdiClock BY SMT DEF FtdiClock
  <1>3. /\ Rounded(clock, r) \in Nat
        /\ 2 * (Rounded(clock, r) * r) <= 2 * clock + r
        /\ 2 * clock < 2 * (Rounded(clock, r) * r) + r
    BY <1>1, RoundedFacts
  <1> QED BY <1>2, <1>3, Zenon

\* Below 6 Mbit/s nothing is clamped.
LEMMA FtdiNearest ==
  ASSUME NEW r \in Offered, r < 6000000
  PROVE  /\ FtdiDivisor(r) \in Nat /\ 16 <= FtdiDivisor(r) /\ FtdiDivisor(r) <= 99999
         /\ 2 * (FtdiDivisor(r) * r) <= 2 * FtdiClock + r
         /\ 2 * FtdiClock < 2 * (FtdiDivisor(r) * r) + r
  <1>1. r \in Nat \ {0} /\ r >= 9600 BY OfferedFacts, SMT
  <1>2. PICK clock \in Nat : clock = FtdiClock BY SMT DEF FtdiClock
  <1>4. PICK d \in Nat : /\ d = Rounded(clock, r)
                         /\ 2 * (d * r) <= 2 * clock + r /\ 2 * clock < 2 * (d * r) + r
    BY <1>2, FtdiRounded, SMT
  <1>5. d >= 16
    <2>1. d <= 15 => d * r <= 15 * r BY <1>1, SMT
    <2> QED BY <1>1, <1>2, <1>4, <2>1, SMT DEF FtdiClock
  <1>6. d <= 99999
    <2>1. d >= 100000 => d * r >= 100000 * 9600 BY <1>1, SMT
    <2> QED BY <1>1, <1>2, <1>4, <2>1, SMT DEF FtdiClock
  <1>7. FtdiDivisor(r) = d BY <1>1, <1>2, <1>4, <1>5, <1>6, SMT DEF FtdiDivisor, Clamp
  <1> QED BY <1>2, <1>4, <1>5, <1>6, <1>7, SMT

\* The divisors the rule chooses are ones the chip has, and make a rate.
LEMMA FtdiChoice ==
  ASSUME NEW r \in Offered
  PROVE  /\ FtdiDivisor(r) \in Nat
         /\ FtdiDecode(FtdiEncode(FtdiDivisor(r))) = FtdiDivisor(r)
         /\ FtdiActual(FtdiDivisor(r)) \in Nat
  <1>1. PICK d : d = FtdiDivisor(r) OBVIOUS
  <1>2. r \in Nat BY OfferedFacts
  <1>3. d \in {8, 12} \/ (d \in Nat /\ 16 <= d /\ d <= 131071)
    <2>1. CASE r < 6000000 BY <1>1, <2>1, FtdiNearest, SMT
    <2>2. CASE r >= 6000000 BY <1>1, <1>2, <2>2, SMT DEF FtdiDivisor
    <2> QED BY <1>2, <2>1, <2>2, SMT
  <1>4. FtdiDecode(FtdiEncode(d)) = d BY <1>3, FtdiCode, SMT
  <1>5. FtdiActual(d) \in Nat
    <2>1. CASE d \in {8, 12} BY <2>1, SMT DEF FtdiActual
    <2>2. CASE d \in Nat /\ 16 <= d
      <3>1. Divides(FtdiClock, d, FtdiActual(d)) BY <2>2, FtdiDivides, SMT
      <3> QED BY <3>1, SMT DEF Divides
    <2> QED BY <1>3, <2>1, <2>2, SMT
  <1> QED BY <1>1, <1>3, <1>4, <1>5, SMT

(* ftdi_high_speed_baud does right by every rate on offer: what it takes is off
   by less than 2.01% and arrives at the chip as it was meant, and below 6 Mbit/s
   what it refuses no divisor of 16 eighths or more brings within 2%. *)
THEOREM FtdiRates ==
  ASSUME NEW r \in Offered, NEW divisors \in SUBSET {e \in Nat : e >= 16}
  PROVE  FtdiIsHonest(r, divisors)
  <1>1. r \in Nat \ {0} /\ r >= 9600 BY OfferedFacts
  <1>2. PICK d : d = FtdiDivisor(r) OBVIOUS
  <1>3. FtdiDecode(FtdiEncode(d)) = d BY <1>2, FtdiChoice, Zenon
  <1>4. PICK a \in Nat : a = FtdiActual(d) BY <1>2, FtdiChoice, Zenon
  <1>5. CASE Fits(a, r)
    <2>1. Close(a, r) BY <1>1, <1>5, CloseFacts
    <2> QED BY <1>2, <1>3, <1>4, <1>5, <2>1, SMT DEF FtdiIsHonest
  <1>6. CASE ~Fits(a, r)
    <2>1. SUFFICES ASSUME r < 6000000
                   PROVE  ~Reachable(r, {FtdiActual(e) : e \in divisors})
      BY <1>2, <1>4, <1>6, SMT DEF FtdiIsHonest
    <2>2. /\ d \in Nat /\ 16 <= d
          /\ 2 * (d * r) <= 2 * FtdiClock + r /\ 2 * FtdiClock < 2 * (d * r) + r
      BY <1>2, <2>1, FtdiNearest, SMT
    <2>3. Divides(FtdiClock, d, a) BY <1>4, <2>2, FtdiDivides, SMT
    <2>4. 10000 * Distance(a, r) >= 201 * r /\ Distance(a, r) \in Nat
      BY <1>1, <1>6, BasisPointsFacts, SMT
    <2>5. d <= 24 /\ r >= 10000 BY <1>1, <2>2, <2>3, <2>4, RefusedIsSmall, SMT
    <2>6. ASSUME NEW e \in divisors PROVE ~(50 * Distance(FtdiActual(e), r) <= r)
      <3>1. e \in Nat \ {0} /\ e >= 16 BY SMT
      <3>2. PICK b \in Nat : b = FtdiActual(e) /\ Divides(FtdiClock, e, b)
        BY <3>1, FtdiDivides, SMT DEF Divides
      <3>3. CASE e = d BY <1>1, <1>4, <2>4, <3>2, <3>3, SMT
      <3>4. CASE e # d
        <4>1. 50 * Distance(b, r) > r
          BY <1>1, <2>2, <2>5, <3>1, <3>2, <3>4, NoOtherReaches, SMT
        <4>2. Distance(b, r) \in Nat BY <1>1, BasisPointsFacts, SMT
        <4> QED BY <1>1, <3>2, <4>1, <4>2, SMT
      <3> QED BY <3>3, <3>4
    <2> QED BY <2>6, SMT DEF Reachable
  <1> QED BY <1>5, <1>6

-----------------------------------------------------------------------------
(* What the open port says of its rate. *)

\* The divisors beside the one that was chosen are among them.
LEMMA EveryRate == EveryRateIsHonest
  <1>0. \A clock : Near(clock) \subseteq Offered BY DEF Near
  <1>1. ASSUME NEW r \in Near(GlasgowClock)
        PROVE  GlasgowIsHonest(r, Beside(GlasgowDivisor(r), 1))
    <2>1. r \in Offered BY <1>0
    <2>2. PICK d \in Nat : d = GlasgowDivisor(r) BY <2>1, GlasgowNearest, Zenon
    <2>3. Beside(d, 1) \in SUBSET (Nat \ {0}) BY SMT DEF Beside
    <2> QED BY <2>1, <2>2, <2>3, GlasgowRates, Zenon
  <1>2. ASSUME NEW r \in Near(FtdiClock)
        PROVE  FtdiIsHonest(r, Beside(FtdiDivisor(r), 16))
    <2>1. r \in Offered BY <1>0
    <2>2. PICK d \in Nat : d = FtdiDivisor(r) BY <2>1, FtdiChoice, Zenon
    <2>3. Beside(d, 16) \in SUBSET {e \in Nat : e >= 16} BY SMT DEF Beside
    <2> QED BY <2>1, <2>2, <2>3, FtdiRates, Zenon
  <1> QED BY <1>1, <1>2, Zenon DEF EveryRateIsHonest

\* The metadata comes from a rate that was taken.
RateInv ==
    metadata # NoRate =>
        /\ metadata.requested \in Offered
        /\ metadata.actual = FtdiActual(FtdiDivisor(metadata.requested))

LEMMA RateStep == RateInv /\ [Next]_vars => RateInv'
  <1> SUFFICES ASSUME RateInv, [Next]_vars PROVE RateInv'
    OBVIOUS
  <1>1. CASE Open
    <2>1. \/ metadata' = metadata
          \/ \E rate \in Rates :
                /\ Taken(rate)
                /\ metadata' = [requested |-> rate, actual |-> FtdiActual(FtdiDivisor(rate))]
      BY <1>1, Zenon DEF Open
    <2> QED BY <2>1 DEF RateInv, Taken
  <1>2. CASE metadata' = metadata BY <1>2 DEF RateInv
  <1>3. Open \/ metadata' = metadata
    BY Zenon
    DEF Next, Replug, ReadMetadata, ReadLink, Listed, Select, ReadCall, WriteCall, Call,
        DrainCall, Work, ReadLock, ReadReturn, WriteLock, WriteReturn, DrainPoll, DrainNap,
        Expire, Cancel, LineSends, Unplug, Failed, openVars, vars
  <1> QED BY <1>1, <1>2, <1>3

(* The open cable runs at the rate its metadata says, and the rule that took
   this rate does right by every other, on the FT232H as on the Glasgow. *)
THEOREM RatesHonest == Spec => []RatesAreHonest
  <1>1. Init => RateInv BY DEF Init, RateInv
  <1>2. RateInv => RatesAreHonest
    <2> SUFFICES ASSUME RateInv, metadata # NoRate PROVE RatesAreHonest
      BY DEF RatesAreHonest
    <2>1. PICK r \in Offered : r = metadata.requested BY DEF RateInv
    <2>2. metadata.actual = FtdiActual(FtdiDivisor(r)) BY <2>1 DEF RateInv
    <2>3. FtdiDecode(FtdiEncode(FtdiDivisor(r))) = FtdiDivisor(r) BY FtdiChoice, Zenon
    <2> QED BY <2>1, <2>2, <2>3, EveryRate, Zenon DEF RatesAreHonest
  <1> QED BY <1>1, <1>2, RateStep, PTL DEF Spec

=============================================================================
