----------------------------- MODULE UsbProofs -----------------------------
(***************************************************************************)
(* Proofs about UsbPort for every number and size of transfers: the hand-  *)
(* over of the interface between the kernel driver and a session, the      *)
(* queue of transfers with the causes of what reads report, the order of   *)
(* the bytes that are read, and the counters of line errors.               *)
(***************************************************************************)
EXTENDS UsbPort, SequenceLemmas, FiniteSetTheorems, TLAPS

\* Who has the interface in each step of open and Drop.
LifeInv ==
    /\ life \in {"detach", "reattach", "redetach", "setup", "abort", "open", "restore",
                 "failed", "dropped"}
    /\ driver \in {"bound", "unbound"} /\ found \in {"bound", "unbound"}
    /\ claimed <=> life = "open"
    /\ life = "detach" => driver = found
    /\ life = "reattach" => driver = "unbound" /\ found = "unbound"
    /\ life = "redetach" => driver = "bound"
    /\ life \in {"setup", "abort", "open", "restore"} => driver = "unbound"
    /\ life \in {"failed", "dropped"} /\ ~refused => driver \in {"bound", found}
    /\ tries \in 0 .. AttachTries
    /\ life \notin {"restore", "dropped"} => tries = 0
    /\ life = "restore" => tries < AttachTries
    /\ DropPersists

\* A completed transfer that says cancelled, failed or short has a cause.
Caused(transfer) ==
    /\ transfer.status \in {"ok", "failed", "cancelled"}
    /\ transfer.status = "failed" => "status" \in broken
    /\ transfer.status = "cancelled" => canceller = "done"
    /\ transfer.short => "short" \in broken

\* open has not got as far as the queue.
Before == {"detach", "reattach", "redetach", "setup"}

QueueInv ==
    /\ \E S : completions \in Seq(S)
    /\ life \in Before => completions = <<>> /\ canceller = "idle"
    /\ queued \in Nat /\ QueueStaysFull
    /\ \A i \in 1 .. Len(completions) : Caused(completions[i])
    /\ FailureHasCause

-----------------------------------------------------------------------------
(* The interface. *)

(* open and Drop hand the interface over; a session leaves it alone. *)
LEMMA LifeStep == ASSUME LifeInv, [Next]_vars PROVE LifeInv'
<1>0. AttachTries \in Nat \ {0}
  BY CountAssumption
<1>1. CASE UNCHANGED lifeVars
  BY <1>1 DEF LifeInv, lifeVars, DropPersists
<1>2. CASE Detach
  BY <1>2 DEF Detach, LifeInv, DropPersists
<1>3. CASE Reattach
  BY <1>3 DEF Reattach, LifeInv, DropPersists
<1>4. CASE Setup
  BY <1>4 DEF Setup, LifeInv, DropPersists
<1>5. CASE Abort
  BY <1>5 DEF Abort, LifeInv, DropPersists
<1>6. CASE Release
  BY <1>0, <1>6 DEF Release, LifeInv, DropPersists
<1>7. CASE Restore
  <2>1. /\ life = "restore" /\ UNCHANGED <<claimed, found>> /\ driver = "unbound" /\ ~claimed
        /\ tries \in 0 .. AttachTries /\ tries < AttachTries
    BY <1>7 DEF Restore, LifeInv
  <2>2. CASE driver' = "bound" /\ life' = "dropped" /\ UNCHANGED <<tries, refused>>
    BY <2>1, <2>2 DEF LifeInv, DropPersists
  <2>3. CASE /\ refused' = TRUE /\ tries' = tries + 1 /\ UNCHANGED driver
             /\ life' = IF tries' = AttachTries THEN "dropped" ELSE "restore"
    <3>1. tries' \in 0 .. AttachTries /\ (tries' = AttachTries \/ tries' < AttachTries)
      BY <1>0, <2>1, <2>3
    <3>. QED
      BY <2>1, <2>3, <3>1 DEF LifeInv, DropPersists
  <2>. QED
    BY <1>7, <2>2, <2>3 DEF Restore
<1>8. CASE DeviceFills \/ Reader \/ CancelFlag \/ CancelAll \/ Closed
  BY <1>1, <1>8 DEF DeviceFills, Reader, ReadCheck, ReadLock, ReadPending, ReadTimeout,
        ReadCompletion, CancelFlag, CancelAll, Closed, vars
<1>. QED
  BY <1>1, <1>2, <1>3, <1>4, <1>5, <1>6, <1>7, <1>8 DEF Next, vars

-----------------------------------------------------------------------------
(* The queue. *)

(* Transfers put behind others. *)
LEMMA AppendFacts ==
    ASSUME NEW s, NEW S, s \in Seq(S), NEW e
    PROVE  /\ Append(s, e) \in Seq(S \cup {e}) /\ Len(Append(s, e)) = Len(s) + 1
           /\ Len(s) \in Nat
           /\ \A i \in 1 .. Len(s) : Append(s, e)[i] = s[i]
           /\ Append(s, e)[Len(s) + 1] = e
<1>1. s \in Seq(S \cup {e}) /\ e \in S \cup {e}
  OBVIOUS
<1>. QED
  BY <1>1

LEMMA ConcatFacts ==
    ASSUME NEW s, NEW S, s \in Seq(S), NEW T, NEW n \in Nat, NEW t \in [1 .. n -> T]
    PROVE  /\ s \o t \in Seq(S \cup T) /\ Len(s \o t) = Len(s) + n
           /\ \A i \in 1 .. Len(s \o t) : \/ i \in 1 .. Len(s) /\ (s \o t)[i] = s[i]
                                          \/ i - Len(s) \in 1 .. n /\ (s \o t)[i] = t[i - Len(s)]
<1>1. s \in Seq(S \cup T) /\ t \in Seq(S \cup T) /\ Len(t) = n
  OBVIOUS
<1>. QED
  BY <1>1

(* The oldest transfer is taken off. *)
LEMMA TailFacts ==
    ASSUME NEW s, NEW S, s \in Seq(S), s # <<>>
    PROVE  /\ Tail(s) \in Seq(S) /\ Len(Tail(s)) = Len(s) - 1 /\ Len(s) \in Nat \ {0}
           /\ Head(s) = s[1] /\ 1 \in 1 .. Len(s)
           /\ \A i \in 1 .. Len(s) - 1 : i + 1 \in 1 .. Len(s) /\ Tail(s)[i] = s[i + 1]
OBVIOUS

(* Every transfer taken off the queue goes back to it, and what a read reports
   has a cause. *)
LEMMA QueueStep == ASSUME LifeInv, QueueInv, [Next]_vars PROVE QueueInv'
<1>0. PICK S : completions \in Seq(S)
  BY DEF QueueInv
<1>1. /\ queued \in Nat /\ Len(completions) \in Nat /\ Transfers \in Nat
      /\ life = "open" => queued + Len(completions) = Transfers
      /\ \A i \in 1 .. Len(completions) : Caused(completions[i])
      /\ "protocol" \in failures => "short" \in broken
      /\ "access" \in failures => "status" \in broken \/ canceller = "done"
  BY <1>0, CountAssumption DEF QueueInv, QueueStaysFull, FailureHasCause
\* Steps after which the queue is what it was.
<1>2. ASSUME UNCHANGED <<completions, queued>>, life' = "open" => life = "open",
             life' \in Before => life \in Before /\ canceller' = canceller,
             broken \subseteq broken', canceller = "done" => canceller' = "done",
             failures' \subseteq failures \cup {"timed_out"}
      PROVE  QueueInv'
  BY <1>0, <1>1, <1>2 DEF QueueInv, QueueStaysFull, FailureHasCause, Caused
<1>3. CASE Setup
  <2>1. UNCHANGED <<completions, broken, canceller, failures>> /\ completions = <<>>
        /\ canceller = "idle" /\ life' \notin Before
    BY <1>3 DEF Setup, rxVars, wireVars, QueueInv, Before
  <2>2. CASE life' = "open" /\ queued' = Transfers
    <3>1. Len(completions') = 0 /\ completions' \in Seq({})
      BY <2>1
    <3>. QED
      BY <1>1, <2>1, <2>2, <3>1 DEF QueueInv, QueueStaysFull, FailureHasCause, Caused
  <2>3. CASE life' = "abort" /\ queued' = queued
    BY <1>2, <2>1, <2>3
  <2>. QED
    BY <1>3, <2>2, <2>3 DEF Setup
<1>4. CASE DeviceFills
  <2>1. PICK e : /\ completions' = Append(completions, e)
                 /\ e.status = "ok" \/ (e.status = "failed" /\ "status" \in broken')
                 /\ e.short => "short" \in broken'
    <3>. PICK n \in 1 .. MaxPackets : \E ps \in [1 .. n -> Packets] :
              \E fault \in {"none"} \cup (Faults \cap {"status", "short"}) :
                 /\ completions' = Append(completions,
                       [packets |-> Numbered(ps), short |-> fault = "short",
                        status |-> IF fault = "status" THEN "failed" ELSE "ok"])
                 /\ broken' = broken \cup ({fault} \ {"none"})
      BY <1>4 DEF DeviceFills
    <3>. PICK ps \in [1 .. n -> Packets],
              fault \in {"none"} \cup (Faults \cap {"status", "short"}) :
                 /\ completions' = Append(completions,
                       [packets |-> Numbered(ps), short |-> fault = "short",
                        status |-> IF fault = "status" THEN "failed" ELSE "ok"])
                 /\ broken' = broken \cup ({fault} \ {"none"})
      OBVIOUS
    <3>1. fault = "status" \/ fault = "short" => fault \in broken'
      OBVIOUS
    <3>. WITNESS [packets |-> Numbered(ps), short |-> fault = "short",
                  status |-> IF fault = "status" THEN "failed" ELSE "ok"]
    <3>. QED
      BY <3>1
  <2>2. /\ broken \subseteq broken' /\ queued' = queued - 1 /\ queued > 0 /\ life = "open"
        /\ life' = life /\ canceller' = canceller /\ failures' = failures
    BY <1>4 DEF DeviceFills, lifeVars, rxVars
  <2>3. /\ completions' \in Seq(S \cup {e}) /\ Len(completions') = Len(completions) + 1
        /\ \A i \in 1 .. Len(completions) : completions'[i] = completions[i]
        /\ completions'[Len(completions) + 1] = e
    BY <1>0, <2>1, AppendFacts
  <2>4. \A i \in 1 .. Len(completions) : Caused(completions[i])'
    BY <1>1, <2>2, <2>3 DEF Caused
  <2>5. ASSUME NEW i \in 1 .. Len(completions') PROVE Caused(completions[i])'
    <3>1. CASE i \in 1 .. Len(completions)
      BY <2>4, <3>1
    <3>2. CASE i = Len(completions) + 1
      BY <2>1, <2>3, <3>2 DEF Caused
    <3>. QED
      BY <1>1, <2>3, <2>5, <3>1, <3>2
  <2>6. queued' \in Nat /\ queued' + Len(completions') = Transfers
    BY <1>1, <2>2, <2>3
  <2>. QED
    BY <1>1, <2>2, <2>3, <2>5, <2>6 DEF QueueInv, QueueStaysFull, FailureHasCause, Before
<1>5. CASE ReadCompletion
  <2>1. /\ completions # <<>> /\ completions' = Tail(completions) /\ queued' = queued + 1
        /\ UNCHANGED <<life, canceller, broken>>
    BY <1>5 DEF ReadCompletion, Resubmit, lifeVars, wireVars
  <2>2. /\ completions' \in Seq(S) /\ Len(completions') = Len(completions) - 1
        /\ Head(completions) = completions[1] /\ 1 \in 1 .. Len(completions)
        /\ \A i \in 1 .. Len(completions) - 1 :
              i + 1 \in 1 .. Len(completions) /\ completions'[i] = completions[i + 1]
    BY <1>0, <2>1, TailFacts
  <2>3. Caused(Head(completions))
    BY <1>1, <2>2
  <2>4. \/ failures' = failures
        \/ failures' = failures \cup {"protocol"} /\ Head(completions).short
        \/ failures' = failures \cup {"access"} /\ Head(completions).status # "ok"
    BY <1>5 DEF ReadCompletion
  <2>5. FailureHasCause'
    BY <1>1, <2>1, <2>3, <2>4 DEF FailureHasCause, Caused
  <2>6. \A i \in 1 .. Len(completions') : Caused(completions[i])'
    BY <1>1, <2>1, <2>2 DEF Caused
  <2>7. queued' \in Nat /\ (life' = "open" => queued' + Len(completions') = Transfers)
    BY <1>1, <2>1, <2>2
  <2>. QED
    BY <1>1, <2>1, <2>2, <2>5, <2>6, <2>7 DEF QueueInv, QueueStaysFull
<1>6. CASE CancelAll
  <2>. DEFINE Empty == [packets |-> <<>>, short |-> FALSE, status |-> "cancelled"]
  <2>1. /\ queued' = 0 /\ canceller' = "done" /\ canceller = "lock"
        /\ UNCHANGED <<life, broken, failures>>
    BY <1>6 DEF CancelAll, lifeVars, rxVars
  <2>2. PICK t : /\ completions' = completions \o t
                 /\ \E T : t \in [1 .. queued -> T]
                 /\ \A i \in 1 .. queued : t[i].status = "cancelled" /\ t[i].short = FALSE
    <3>1. CASE completions' = completions \o [i \in 1 .. queued |-> Empty]
      <4>. DEFINE t == [i \in 1 .. queued |-> Empty]
      <4>1. /\ t \in [1 .. queued -> {Empty}]
            /\ \A i \in 1 .. queued : t[i].status = "cancelled" /\ t[i].short = FALSE
        OBVIOUS
      <4>2. completions' = completions \o t
        BY <3>1
      <4>. HIDE DEF t
      <4>. QED
        BY <4>1, <4>2
    <3>2. ASSUME NEW p,
                 completions' = completions \o [i \in 1 .. queued |->
                    IF i = 1 THEN [Empty EXCEPT !.packets = Numbered(<<p>>)] ELSE Empty]
          PROVE  \E t : /\ completions' = completions \o t
                        /\ \E T : t \in [1 .. queued -> T]
                        /\ \A i \in 1 .. queued : t[i].status = "cancelled" /\ t[i].short = FALSE
      <4>. DEFINE full == [Empty EXCEPT !.packets = Numbered(<<p>>)]
                  t == [i \in 1 .. queued |-> IF i = 1 THEN full ELSE Empty]
      <4>1. /\ full.status = "cancelled" /\ full.short = FALSE
            /\ Empty.status = "cancelled" /\ Empty.short = FALSE
        OBVIOUS
      <4>. HIDE DEF full, Empty
      <4>2. t \in [1 .. queued -> {full, Empty}]
        OBVIOUS
      <4>3. \A i \in 1 .. queued : t[i].status = "cancelled" /\ t[i].short = FALSE
        BY <4>1
      <4>4. completions' = completions \o t
        BY <3>2 DEF full, Empty
      <4>. HIDE DEF t
      <4>. QED
        BY <4>2, <4>3, <4>4
    <3>. QED
      BY <1>6, <3>1, <3>2 DEF CancelAll
  <2>3. PICK T : t \in [1 .. queued -> T]
    BY <2>2
  <2>4. /\ completions' \in Seq(S \cup T) /\ Len(completions') = Len(completions) + queued
        /\ \A i \in 1 .. Len(completions') :
              \/ i \in 1 .. Len(completions) /\ completions'[i] = completions[i]
              \/ i - Len(completions) \in 1 .. queued
                 /\ completions'[i] = t[i - Len(completions)]
    <3>. DEFINE all == completions \o t
    <3>1. /\ all \in Seq(S \cup T) /\ Len(all) = Len(completions) + queued
          /\ \A i \in 1 .. Len(all) :
                \/ i \in 1 .. Len(completions) /\ all[i] = completions[i]
                \/ i - Len(completions) \in 1 .. queued /\ all[i] = t[i - Len(completions)]
      BY <1>0, <1>1, <2>3, ConcatFacts
    <3>2. completions' = all
      BY <2>2
    <3>. HIDE DEF all
    <3>. QED
      BY <3>1, <3>2
  <2>5. \A i \in 1 .. Len(completions') : Caused(completions[i])'
    BY <1>1, <2>1, <2>2, <2>4 DEF Caused
  <2>6. queued' + Len(completions') = queued + Len(completions) /\ queued' \in Nat
    BY <1>1, <2>1, <2>4
  <2>7. life \notin Before
    BY <2>1 DEF QueueInv
  <2>. QED
    BY <1>1, <2>1, <2>4, <2>5, <2>6, <2>7 DEF QueueInv, QueueStaysFull, FailureHasCause
<1>7. CASE Release
  <2>1. /\ completions' = <<>> /\ queued' = 0 /\ life' = "restore"
        /\ UNCHANGED <<canceller, broken, failures>>
    BY <1>7 DEF Release, rxVars, wireVars
  <2>2. Len(completions') = 0 /\ completions' \in Seq({})
    BY <2>1
  <2>. QED
    BY <1>1, <2>1, <2>2 DEF QueueInv, QueueStaysFull, FailureHasCause, Before
<1>8. CASE Detach \/ Reattach \/ Abort \/ Restore
  <2>1. /\ UNCHANGED <<completions, queued, broken, canceller, failures>>
        /\ life' # "open" /\ (life' \in Before => life \in Before)
    BY <1>8 DEF Detach, Reattach, Abort, Restore, rxVars, wireVars, Before
  <2>. QED
    BY <1>2, <2>1
<1>9. CASE ReadCheck \/ ReadLock \/ ReadPending \/ ReadTimeout \/ CancelFlag \/ Closed
  <2>1. /\ UNCHANGED <<completions, queued, broken, life>>
        /\ failures' \subseteq failures \cup {"timed_out"}
    BY <1>9 DEF ReadCheck, ReadLock, ReadPending, ReadTimeout, CancelFlag, Closed, lifeVars,
          rxVars, wireVars, vars
  <2>2. canceller' = canceller \/ (life = "open" /\ canceller # "done")
    BY <1>9 DEF ReadCheck, ReadLock, ReadPending, ReadTimeout, CancelFlag, Closed, vars
  <2>. QED
    BY <1>2, <2>1, <2>2 DEF Before
<1>10. CASE UNCHANGED vars
  BY <1>2, <1>10 DEF vars, lifeVars, rxVars, wireVars
<1>. QED
  BY <1>3, <1>4, <1>5, <1>6, <1>7, <1>8, <1>9, <1>10 DEF Next, Reader

-----------------------------------------------------------------------------
(* The bytes the device sends. *)

(* What the packets of a transfer are. *)
LEMMA PacketFacts ==
    \A p \in Packets : p.size \in Nat /\ p.line \in Lines
BY PacketAssumption DEF Lines

\* o is the running total of the sizes of the first k packets, on top of produced.
Sums(ps, o, k) ==
    o = [i \in 0 .. k |-> IF i = 0 THEN produced ELSE o[i - 1] + ps[i].size]

(* The offsets of packets: where the device was, and from there each packet's size on. *)
LEMMA OffsetFacts ==
    ASSUME produced \in Nat, NEW ps \in Seq(Packets)
    PROVE  /\ Offset(ps) \in [0 .. Len(ps) -> Nat] /\ Offset(ps)[0] = produced
           /\ \A i \in 1 .. Len(ps) : Offset(ps)[i] = Offset(ps)[i - 1] + ps[i].size
<1>. DEFINE N == {k \in Nat : k <= Len(ps) => \E o \in [0 .. k -> Nat] : Sums(ps, o, k)}
<1>0. \A i \in 1 .. Len(ps) : ps[i].size \in Nat
  BY PacketFacts
<1>1. ASSUME NEW k \in Nat, NEW o, Sums(ps, o, k)
      PROVE  /\ o[0] = produced /\ o = [i \in 0 .. k |-> o[i]]
             /\ \A i \in 1 .. k : o[i] = o[i - 1] + ps[i].size
  <2>. DEFINE F == [i \in 0 .. k |-> IF i = 0 THEN produced ELSE o[i - 1] + ps[i].size]
  <2>1. F[0] = produced
    BY 0 \in 0 .. k
  <2>3. ASSUME NEW i \in 1 .. k PROVE F[i] = o[i - 1] + ps[i].size
    BY i \in 0 .. k /\ i # 0
  <2>2. o = F
    BY <1>1 DEF Sums
  <2>. HIDE DEF F
  <2>4. o = [i \in 0 .. k |-> o[i]]
    BY <1>1 DEF Sums
  <2>. QED
    BY <2>1, <2>2, <2>3, <2>4
<1>2. 0 \in N
  <2>. DEFINE o == [i \in 0 .. 0 |-> produced]
  <2>1. o \in [0 .. 0 -> Nat] /\ Sums(ps, o, 0)
    BY DEF Sums
  <2>. QED
    BY <2>1
<1>3. ASSUME NEW k \in Nat, k \in N PROVE k + 1 \in N
  <2>. SUFFICES ASSUME k + 1 <= Len(ps)
                PROVE  \E o \in [0 .. k + 1 -> Nat] : Sums(ps, o, k + 1)
    OBVIOUS
  <2>1. PICK g \in [0 .. k -> Nat] : Sums(ps, g, k)
    BY <1>3
  <2>2. g[0] = produced /\ \A i \in 1 .. k : g[i] = g[i - 1] + ps[i].size
    BY <1>1, <2>1
  <2>3. g[k] \in Nat /\ ps[k + 1].size \in Nat
    BY <1>0
  <2>. DEFINE o == [i \in 0 .. k + 1 |-> IF i <= k THEN g[i] ELSE g[k] + ps[k + 1].size]
  <2>4. o \in [0 .. k + 1 -> Nat]
    BY <2>3
  <2>5. ASSUME NEW i \in 0 .. k + 1
        PROVE  o[i] = IF i = 0 THEN produced ELSE o[i - 1] + ps[i].size
    <3>1. CASE i = 0
      BY <2>2, <3>1
    <3>2. CASE i \in 1 .. k
      <4>1. o[i] = g[i] /\ o[i - 1] = g[i - 1]
        BY <3>2
      <4>. HIDE DEF o
      <4>. QED
        BY <2>2, <3>2, <4>1
    <3>3. CASE i = k + 1
      <4>1. o[i] = g[k] + ps[k + 1].size /\ o[k] = g[k] /\ i - 1 = k
        BY <3>3
      <4>. HIDE DEF o
      <4>. QED
        BY <3>3, <4>1
    <3>. QED
      BY <3>1, <3>2, <3>3
  <2>6. Sums(ps, o, k + 1)
    BY <2>5 DEF Sums
  <2>. QED
    BY <2>4, <2>6
<1>4. PICK g \in [0 .. Len(ps) -> Nat] : Sums(ps, g, Len(ps))
  <2>. HIDE DEF N
  <2>1. Nat \subseteq N
    BY <1>2, <1>3, NaturalInduction
  <2>. QED
    BY <2>1 DEF N
<1>. DEFINE o == CHOOSE o : Sums(ps, o, Len(ps))
<1>5. Sums(ps, o, Len(ps))
  BY <1>4
<1>6. Offset(ps) = o
  BY DEF Offset, Sums
<1>. HIDE DEF o
<1>7. /\ o[0] = produced /\ o = [i \in 0 .. Len(ps) |-> o[i]]
      /\ \A i \in 1 .. Len(ps) : o[i] = o[i - 1] + ps[i].size
  BY <1>1, <1>5
<1>8. o \in [0 .. Len(ps) -> Nat]
  <2>. DEFINE M == {i \in Nat : i <= Len(ps) => o[i] \in Nat}
  <2>1. 0 \in M
    BY <1>7
  <2>2. ASSUME NEW i \in Nat, i \in M PROVE i + 1 \in M
    <3>. SUFFICES ASSUME i + 1 <= Len(ps) PROVE o[i + 1] \in Nat
      OBVIOUS
    <3>1. i + 1 \in 1 .. Len(ps) /\ (i + 1) - 1 = i /\ o[i] \in Nat
      BY <2>2
    <3>2. o[i + 1] = o[i] + ps[i + 1].size
      BY <1>7, <3>1
    <3>. QED
      BY <1>0, <3>1, <3>2
  <2>. HIDE DEF M
  <2>3. Nat \subseteq M
    BY <2>1, <2>2, NaturalInduction
  <2>4. \A i \in 0 .. Len(ps) : o[i] \in Nat
    BY <2>3 DEF M
  <2>. QED
    BY <1>7, <2>4
<1>. QED
  BY <1>6, <1>7, <1>8

(* A transfer's numbered packets carry the next bytes, all of them and in order. *)
LEMMA NumberedFacts ==
    ASSUME produced \in Nat, NEW ps \in Seq(Packets)
    PROVE  LET after == Offset(ps)[Len(ps)]
           IN  /\ Numbered(ps) \in Seq(Packet) /\ after \in Nat /\ produced <= after
               /\ Stripped(Numbered(ps)) = Between(produced, after)
<1>. DEFINE o == Offset(ps)
            n == Len(ps)
            nps == Numbered(ps)
<1>1. /\ n \in Nat /\ o \in [0 .. n -> Nat] /\ o[0] = produced
      /\ \A i \in 1 .. n : o[i] = o[i - 1] + ps[i].size
  BY OffsetFacts
<1>2. \A i \in 1 .. n : ps[i].size \in Nat /\ ps[i].line \in Lines
  BY PacketFacts
<1>3. /\ nps = [i \in 1 .. n |-> [line |-> ps[i].line,
                                  bytes |-> [j \in 1 .. ps[i].size |-> o[i - 1] + j]]]
  BY DEF Numbered
<1>. HIDE DEF o, n, nps
<1>4. ASSUME NEW i \in 1 .. n
      PROVE  /\ o[i - 1] \in Nat /\ o[i] \in Nat /\ o[i - 1] <= o[i] /\ o[i] - o[i - 1] = ps[i].size
             /\ [j \in 1 .. ps[i].size |-> o[i - 1] + j] = Between(o[i - 1], o[i])
             /\ Between(o[i - 1], o[i]) \in Seq(Nat)
  <2>1. i - 1 \in 0 .. n /\ i \in 0 .. n /\ ps[i].size \in Nat
    BY <1>1, <1>2
  <2>2. o[i - 1] \in Nat /\ o[i] \in Nat /\ o[i - 1] <= o[i] /\ o[i] - o[i - 1] = ps[i].size
    <3>1. o[i - 1] \in Nat /\ o[i] \in Nat
      BY <1>1, <2>1
    <3>2. o[i] = o[i - 1] + ps[i].size
      BY <1>1
    <3>. QED
      BY <2>1, <3>1, <3>2
  <2>3. [j \in 1 .. ps[i].size |-> o[i - 1] + j] = Between(o[i - 1], o[i])
    BY <2>2 DEF Between
  <2>4. Between(o[i - 1], o[i]) \in Seq(Nat)
    BY <2>2, BetweenType
  <2>. QED
    BY <2>2, <2>3, <2>4
<1>5. nps \in Seq(Packet) /\ Len(nps) = n
      /\ \A i \in 1 .. n : nps[i].bytes = Between(o[i - 1], o[i])
  <2>1. \A i \in 1 .. n : [line |-> ps[i].line,
                           bytes |-> [j \in 1 .. ps[i].size |-> o[i - 1] + j]] \in Packet
    BY <1>2, <1>4 DEF Packet
  <2>2. nps \in Seq(Packet) /\ Len(nps) = n
    <3>1. nps \in [1 .. n -> Packet]
      BY <1>3, <2>1
    <3>. QED
      BY <1>1, <3>1
  <2>3. \A i \in 1 .. n : nps[i].bytes = [j \in 1 .. ps[i].size |-> o[i - 1] + j]
    BY <1>3
  <2>. QED
    BY <1>4, <2>2, <2>3
<1>6. Stripped(nps) = FlattenSeq([i \in 1 .. n |-> Between(o[i - 1], o[i])])
  <2>1. [i \in 1 .. Len(nps) |-> nps[i].bytes] = [i \in 1 .. n |-> Between(o[i - 1], o[i])]
    BY <1>5
  <2>. QED
    BY <2>1 DEF Stripped
<1>7. /\ o[0] <= o[n]
      /\ FlattenSeq([i \in 1 .. n |-> Between(o[i - 1], o[i])]) = Between(o[0], o[n])
  BY <1>1, <1>4, FlattenBetween
<1>8. o[n] \in Nat
  BY <1>1
<1>. QED
  BY <1>1, <1>5, <1>6, <1>7, <1>8 DEF o, n, nps

(* The bytes of packets, and of transfers, are sequences of bytes. *)
LEMMA StrippedType ==
    ASSUME NEW packets \in Seq(Packet)
    PROVE  Stripped(packets) \in Seq(Nat)
<1>1. [i \in 1 .. Len(packets) |-> packets[i].bytes] \in Seq(Seq(Nat))
  <2>1. \A i \in 1 .. Len(packets) : packets[i] \in Packet
    BY ElementOfSeq
  <2>2. \A i \in 1 .. Len(packets) : packets[i].bytes \in Seq(Nat)
    BY <2>1 DEF Packet
  <2>. QED
    BY <2>2
<1>. QED
  BY <1>1, FlattenType DEF Stripped

LEMMA PayloadsType ==
    ASSUME NEW ts \in Seq(Transfer)
    PROVE  /\ Payloads(ts) \in Seq(Seq(Nat)) /\ Len(Payloads(ts)) = Len(ts)
           /\ FlattenSeq(Payloads(ts)) \in Seq(Nat)
<1>1. \A i \in 1 .. Len(ts) : Stripped(ts[i].packets) \in Seq(Nat)
  <2>1. \A i \in 1 .. Len(ts) : ts[i] \in Transfer
    BY ElementOfSeq
  <2>2. \A i \in 1 .. Len(ts) : ts[i].packets \in Seq(Packet)
    BY <2>1 DEF Transfer
  <2>. QED
    BY <2>2, StrippedType
<1>2. Payloads(ts) \in Seq(Seq(Nat)) /\ Len(Payloads(ts)) = Len(ts)
  BY <1>1 DEF Payloads
<1>. QED
  BY <1>2, FlattenType

(* Transfers that complete later come later. *)
LEMMA PayloadsConcat ==
    ASSUME NEW ts \in Seq(Transfer), NEW us \in Seq(Transfer)
    PROVE  FlattenSeq(Payloads(ts \o us)) = FlattenSeq(Payloads(ts)) \o FlattenSeq(Payloads(us))
<1>1. /\ Payloads(ts) \in Seq(Seq(Nat)) /\ Payloads(us) \in Seq(Seq(Nat))
      /\ Len(Payloads(ts)) = Len(ts) /\ Len(Payloads(us)) = Len(us)
  BY PayloadsType
<1>2. /\ ts \o us \in Seq(Transfer) /\ Len(ts \o us) = Len(ts) + Len(us)
      /\ \A i \in 1 .. Len(ts) : (ts \o us)[i] = ts[i]
      /\ \A i \in 1 .. Len(us) : (ts \o us)[Len(ts) + i] = us[i]
  BY ConcatProperties
<1>3. PICK a \in Seq(Seq(Nat)), b \in Seq(Seq(Nat)) : a = Payloads(ts) /\ b = Payloads(us)
  BY <1>1
<1>4. Payloads(ts \o us) = a \o b
  <2>1. /\ Payloads(ts \o us) \in Seq(Seq(Nat)) /\ Len(Payloads(ts \o us)) = Len(ts) + Len(us)
        /\ \A i \in 1 .. Len(ts) + Len(us) :
              Payloads(ts \o us)[i] = Stripped((ts \o us)[i].packets)
    BY <1>2, PayloadsType DEF Payloads
  <2>2. /\ \A i \in 1 .. Len(ts) : a[i] = Stripped(ts[i].packets)
        /\ \A i \in 1 .. Len(us) : b[i] = Stripped(us[i].packets)
        /\ Len(a) = Len(ts) /\ Len(b) = Len(us)
    BY <1>1, <1>3 DEF Payloads
  <2>3. /\ a \o b \in Seq(Seq(Nat)) /\ Len(a \o b) = Len(a) + Len(b)
        /\ \A i \in 1 .. Len(a) + Len(b) :
              (a \o b)[i] = IF i <= Len(a) THEN a[i] ELSE b[i - Len(a)]
    BY ConcatProperties
  <2>4. ASSUME NEW i \in 1 .. Len(ts) + Len(us)
        PROVE  Payloads(ts \o us)[i] = (a \o b)[i]
    <3>1. CASE i \in 1 .. Len(ts)
      BY <1>2, <2>1, <2>2, <2>3, <3>1
    <3>2. CASE i \notin 1 .. Len(ts)
      <4>1. PICK k \in 1 .. Len(us) : i = Len(ts) + k /\ i - Len(ts) = k /\ ~(i <= Len(ts))
        <5>1. i - Len(ts) \in 1 .. Len(us) /\ i = Len(ts) + (i - Len(ts)) /\ ~(i <= Len(ts))
          BY <3>2, LenProperties
        <5>. QED
          BY <5>1
      <4>2. (a \o b)[i] = b[k]
        BY <2>2, <2>3, <4>1
      <4>3. Payloads(ts \o us)[i] = Stripped(us[k].packets)
        BY <1>2, <2>1, <4>1
      <4>. QED
        BY <2>2, <4>2, <4>3
    <3>. QED
      BY <3>1, <3>2
  <2>. QED
    BY <2>1, <2>2, <2>3, <2>4, SeqEqual
<1>. QED
  BY <1>3, <1>4, FlattenConcat

LEMMA PayloadsOne ==
    ASSUME NEW e \in Transfer
    PROVE  <<e>> \in Seq(Transfer) /\ FlattenSeq(Payloads(<<e>>)) = Stripped(e.packets)
<1>1. Payloads(<<e>>) = <<Stripped(e.packets)>>
  BY DEF Payloads
<1>2. Stripped(e.packets) \in Seq(Nat)
  BY StrippedType DEF Transfer
<1>. QED
  BY <1>1, <1>2, FlattenOne

LEMMA PayloadsNone ==
    ASSUME NEW n \in Nat, NEW e \in Transfer, e.packets = <<>>
    PROVE  /\ [i \in 1 .. n |-> e] \in Seq(Transfer)
           /\ FlattenSeq(Payloads([i \in 1 .. n |-> e])) = <<>>
<1>1. Stripped(<<>>) = <<>>
  <2>1. [i \in 1 .. Len(<<>>) |-> <<>>[i].bytes] = <<>>
    OBVIOUS
  <2>. QED
    BY <2>1, FlattenNone DEF Stripped
<1>2. Payloads([i \in 1 .. n |-> e]) = [i \in 1 .. n |-> <<>>]
  BY <1>1 DEF Payloads
<1>. QED
  BY <1>2, FlattenEmpties

(* Whatever completes, by the device or by a cancellation, is put behind what has
   completed and holds the next bytes. *)
LEMMA Arrivals ==
    ASSUME TypeOK, DeviceFills \/ CancelAll
    PROVE  /\ \E ts \in Seq(Transfer) :
                 /\ completions' = completions \o ts
                 /\ FlattenSeq(Payloads(ts)) = Between(produced, produced')
           /\ produced' \in Nat /\ produced <= produced' /\ sent' \in 0 .. MaxSent
<1>1. produced \in Nat /\ sent \in 0 .. MaxSent /\ completions \in Seq(Transfer)
      /\ queued \in Nat /\ MaxSent \in Nat
  BY CountAssumption DEF TypeOK
\* One transfer, of packets that the device sent.
<1>2. ASSUME NEW ps \in Seq(Packets), Fill(ps)
      PROVE  /\ produced' \in Nat /\ produced <= produced' /\ sent' \in 0 .. MaxSent
             /\ Numbered(ps) \in Seq(Packet)
             /\ Stripped(Numbered(ps)) = Between(produced, produced')
  <2>1. produced' = Offset(ps)[Len(ps)] /\ sent' = sent + 1 /\ sent < MaxSent
    BY <1>2 DEF Fill
  <2>. QED
    BY <1>1, <2>1, NumberedFacts
<1>3. CASE DeviceFills
  <2>0. PICK n \in 1 .. MaxPackets : \E ps \in [1 .. n -> Packets] :
           \E fault \in {"none"} \cup (Faults \cap {"status", "short"}) :
              /\ Fill(ps)
              /\ completions' = Append(completions,
                    [packets |-> Numbered(ps), short |-> fault = "short",
                     status |-> IF fault = "status" THEN "failed" ELSE "ok"])
    BY <1>3 DEF DeviceFills
  <2>1. PICK ps \in [1 .. n -> Packets],
             fault \in {"none"} \cup (Faults \cap {"status", "short"}) :
           /\ Fill(ps)
           /\ completions' = Append(completions,
                 [packets |-> Numbered(ps), short |-> fault = "short",
                  status |-> IF fault = "status" THEN "failed" ELSE "ok"])
    BY <2>0
  <2>. DEFINE e == [packets |-> Numbered(ps), short |-> fault = "short",
                    status |-> IF fault = "status" THEN "failed" ELSE "ok"]
  <2>2. ps \in Seq(Packets)
    BY CountAssumption
  <2>3. e \in Transfer /\ e.packets = Numbered(ps)
    BY <1>2, <2>1, <2>2 DEF Transfer
  <2>4. completions' = Append(completions, e)
    BY <2>1
  <2>. HIDE DEF e
  <2>5. completions' = completions \o <<e>>
    BY <1>1, <2>3, <2>4, AppendIsConcat
  <2>6. <<e>> \in Seq(Transfer) /\ FlattenSeq(Payloads(<<e>>)) = Between(produced, produced')
    BY <1>2, <2>1, <2>2, <2>3, PayloadsOne
  <2>. QED
    BY <1>2, <2>1, <2>2, <2>5, <2>6
<1>4. CASE CancelAll
  <2>. DEFINE Empty == [packets |-> <<>>, short |-> FALSE, status |-> "cancelled"]
  <2>1. Empty \in Transfer /\ Empty.packets = <<>>
    BY DEF Transfer
  <2>2. CASE /\ completions' = completions \o [i \in 1 .. queued |-> Empty]
             /\ UNCHANGED <<sent, produced>>
    <3>. DEFINE ts == [i \in 1 .. queued |-> Empty]
    <3>. HIDE DEF Empty
    <3>1. ts \in Seq(Transfer) /\ FlattenSeq(Payloads(ts)) = <<>>
      BY <1>1, <2>1, PayloadsNone
    <3>2. produced' = produced /\ sent' = sent
      BY <2>2
    <3>4. Between(produced, produced') = <<>>
      BY <1>1, <3>2, BetweenType
    <3>3. completions' = completions \o ts
      BY <2>2 DEF Empty
    <3>. HIDE DEF ts
    <3>5. FlattenSeq(Payloads(ts)) = Between(produced, produced')
      BY <3>1, <3>4
    <3>6. produced' \in Nat /\ produced <= produced' /\ sent' \in 0 .. MaxSent
      BY <1>1, <3>2
    <3>. QED
      BY <3>1, <3>3, <3>5, <3>6
  <2>3. ASSUME queued > 0, NEW p \in Packets, Fill(<<p>>),
               completions' = completions \o [i \in 1 .. queued |->
                    IF i = 1 THEN [Empty EXCEPT !.packets = Numbered(<<p>>)] ELSE Empty]
        PROVE  /\ \E ts \in Seq(Transfer) :
                     /\ completions' = completions \o ts
                     /\ FlattenSeq(Payloads(ts)) = Between(produced, produced')
               /\ produced' \in Nat /\ produced <= produced' /\ sent' \in 0 .. MaxSent
    <3>. DEFINE full == [Empty EXCEPT !.packets = Numbered(<<p>>)]
                ts == [i \in 1 .. queued |-> IF i = 1 THEN full ELSE Empty]
                rest == [i \in 1 .. queued - 1 |-> Empty]
    <3>1. <<p>> \in Seq(Packets)
      OBVIOUS
    <3>2. full \in Transfer /\ full.packets = Numbered(<<p>>)
      BY <1>2, <2>3, <3>1 DEF Transfer
    <3>. HIDE DEF full, Empty
    <3>3. rest \in Seq(Transfer) /\ FlattenSeq(Payloads(rest)) = <<>>
      <4>1. PICK k \in Nat : k = queued - 1
        BY <1>1, <2>3
      <4>. QED
        BY <2>1, <4>1, PayloadsNone
    <3>4. /\ <<full>> \in Seq(Transfer)
          /\ FlattenSeq(Payloads(<<full>>)) = Between(produced, produced')
      BY <1>2, <2>3, <3>1, <3>2, PayloadsOne
    <3>5. ts = <<full>> \o rest
      BY <1>1, <2>3
    <3>6. completions' = completions \o ts
      BY <2>3 DEF full, Empty
    <3>. HIDE DEF ts, rest
    <3>7. FlattenSeq(Payloads(ts)) = Between(produced, produced') \o <<>>
      BY <3>3, <3>4, <3>5, PayloadsConcat
    <3>8. ts \in Seq(Transfer)
      BY <3>3, <3>4, <3>5, ConcatProperties
    <3>9. produced' \in Nat /\ produced <= produced' /\ sent' \in 0 .. MaxSent
      BY <1>2, <2>3, <3>1
    <3>10. FlattenSeq(Payloads(ts)) = Between(produced, produced')
      BY <1>1, <3>7, <3>9, BetweenType, ConcatEmptySeq
    <3>. QED
      BY <3>6, <3>8, <3>9, <3>10
  <2>. QED
    BY <1>4, <2>2, <2>3 DEF CancelAll
<1>. QED
  BY <1>3, <1>4

-----------------------------------------------------------------------------
(* What a read hands over. *)

(* Concatenation of bytes is associative. *)
LEMMA NatConcat == \A s, t, u \in Seq(Nat) : (s \o t) \o u = s \o (t \o u)
  BY Associative, SMTT(30)

(* What does not fit waits, and nothing is lost between the two. *)
LEMMA HandOverFacts ==
    ASSUME delivered \in Seq(Nat), NEW bytes \in Seq(Nat), HandOver(bytes)
    PROVE  /\ delivered' \in Seq(Nat) /\ payload' \in Seq(Nat)
           /\ delivered' \o payload' = delivered \o bytes
<1>. DEFINE n == IF Len(bytes) < Capacity THEN Len(bytes) ELSE Capacity
            a == SubSeq(bytes, 1, n)
            b == SubSeq(bytes, n + 1, Len(bytes))
<1>1. Len(bytes) \in Nat /\ Capacity \in Nat \ {0}
  BY CountAssumption, LenProperties
<1>2. n \in 0 .. Len(bytes)
  BY <1>1
<1>3. delivered' = delivered \o a /\ payload' = b
  BY DEF HandOver
<1>. HIDE DEF n
<1>4. a \in Seq(Nat) /\ b \in Seq(Nat)
  BY <1>1, <1>2
<1>5. a \o b = bytes
  <2>1. SubSeq(bytes, 1, n) \o SubSeq(bytes, n + 1, Len(bytes)) = SubSeq(bytes, 1, Len(bytes))
    <3>1. 1 \in 1 .. Len(bytes) + 1 /\ n \in 1 - 1 .. Len(bytes) /\ Len(bytes) \in n .. Len(bytes)
      BY <1>1, <1>2
    <3>. QED
      BY <3>1, ConcatAdjacentSubSeq
  <2>. QED
    BY <2>1, SubSeqFull
<1>. HIDE DEF a, b
<1>6. (delivered \o a) \o b = delivered \o (a \o b)
  BY <1>4, NatConcat, ZenonT(30)
<1>. QED
  BY <1>3, <1>4, <1>5, <1>6, ConcatProperties

(* The transfer that a read takes, and those behind it. *)
LEMMA Taken ==
    ASSUME TypeOK, ReadCompletion
    PROVE  LET transfer == Head(completions)
           IN  /\ transfer \in Transfer /\ transfer.packets \in Seq(Packet)
               /\ completions' \in Seq(Transfer) /\ Len(completions') = Len(completions) - 1
               /\ completions = <<transfer>> \o completions'
<1>1. completions \in Seq(Transfer) /\ completions # <<>> /\ completions' = Tail(completions)
  BY DEF TypeOK, ReadCompletion
<1>2. /\ Head(completions) \in Transfer /\ completions' \in Seq(Transfer)
      /\ Len(completions') = Len(completions) - 1
  BY <1>1, HeadTailProperties
<1>3. completions = <<Head(completions)>> \o completions'
  BY <1>1
<1>4. Head(completions).packets \in Seq(Packet)
  BY <1>2 DEF Transfer
<1>. QED
  BY <1>2, <1>3, <1>4

\* The headers of packets, with the one before.
LinesOf(packets) == [i \in 1 .. Len(packets) |-> packets[i].line]
LineInv == lastLine = IF seen = <<>> THEN NoLine ELSE seen[Len(seen)]

LEMMA LineFacts ==
    ASSUME NEW packets \in Seq(Packet), lastLine \in Lines
    PROVE  /\ LinesOf(packets) \in Seq(Lines) /\ Len(LinesOf(packets)) = Len(packets)
           /\ LineAfter(packets) \in Lines
           /\ \A i \in 1 .. Len(packets) : LinesOf(packets)[i] = packets[i].line
<1>1. \A i \in 1 .. Len(packets) : packets[i] \in Packet
  BY ElementOfSeq
<1>2. \A i \in 1 .. Len(packets) : packets[i].line \in Lines
  BY <1>1 DEF Packet
<1>3. LineAfter(packets) \in Lines
  <2>1. CASE packets = <<>>
    BY <2>1 DEF LineAfter
  <2>2. CASE packets # <<>>
    <3>1. Len(packets) \in 1 .. Len(packets)
      BY <2>2
    <3>. QED
      BY <1>2, <2>2, <3>1 DEF LineAfter, Last
  <2>. QED
    BY <2>1, <2>2
<1>. QED
  BY <1>2, <1>3 DEF LinesOf

(* The headers of a transfer that raise a bit are new to the headers seen. *)
LEMMA RaisingGrows ==
    ASSUME TypeOK, LineInv, NEW packets \in Seq(Packet), NEW bits
    PROVE  /\ Count(packets, bits) \in Nat /\ Cardinality(Raising(seen, bits)) \in Nat
           /\ Cardinality(Raising(seen \o LinesOf(packets), bits))
                 = Cardinality(Raising(seen, bits)) + Count(packets, bits)
<1>. DEFINE n == Len(seen)
            m == Len(packets)
            all == seen \o LinesOf(packets)
            A == Raising(seen, bits)
            C == {i \in 1 .. m : Raised(packets, i) \cap bits # {}}
            B == {n + i : i \in C}
<1>1. /\ seen \in Seq(Lines) /\ lastLine \in Lines /\ n \in Nat /\ m \in Nat
      /\ LinesOf(packets) \in Seq(Lines) /\ Len(LinesOf(packets)) = m
      /\ \A i \in 1 .. m : LinesOf(packets)[i] = packets[i].line /\ packets[i].line \in Lines
  <2>1. \A i \in 1 .. m : packets[i] \in Packet
    BY ElementOfSeq
  <2>2. \A i \in 1 .. m : packets[i].line \in Lines
    BY <2>1 DEF Packet
  <2>. QED
    BY <2>2, LineFacts DEF TypeOK
<1>2. /\ all \in Seq(Lines) /\ Len(all) = n + m
      /\ \A i \in 1 .. n : all[i] = seen[i]
      /\ \A i \in 1 .. m : all[n + i] = packets[i].line
  <2>1. \A i \in 1 .. n + m : all[i] = IF i <= n THEN seen[i] ELSE LinesOf(packets)[i - n]
    BY <1>1, ConcatProperties
  <2>2. \A i \in 1 .. m : n + i \in 1 .. n + m /\ ~(n + i <= n) /\ (n + i) - n = i
    BY <1>1
  <2>3. \A i \in 1 .. n : i \in 1 .. n + m /\ i <= n
    BY <1>1
  <2>4. all \in Seq(Lines) /\ Len(all) = n + m
    <3>1. Len(all) = n + Len(LinesOf(packets)) /\ all \in Seq(Lines)
      BY <1>1, ConcatProperties, Zenon
    <3>. QED
      BY <1>1, <3>1
  <2>5. \A i \in 1 .. n : all[i] = seen[i]
    BY <2>1, <2>3
  <2>6. \A i \in 1 .. m : all[n + i] = packets[i].line
    BY <1>1, <2>1, <2>2
  <2>. QED
    BY <2>4, <2>5, <2>6
<1>3. /\ IsFiniteSet(C) /\ Cardinality(C) \in Nat
      /\ IsFiniteSet(A) /\ Cardinality(A) \in Nat
  <2>1. IsFiniteSet(1 .. m) /\ IsFiniteSet(2 .. n)
    BY <1>1, FS_Interval
  <2>2. C \subseteq 1 .. m /\ A \subseteq 2 .. n
    BY DEF Raising
  <2>. HIDE DEF A, C
  <2>3. IsFiniteSet(C) /\ IsFiniteSet(A)
    BY <2>1, <2>2, FS_Subset
  <2>. QED
    BY <2>3, FS_CardinalityType
\* The header before the first of a transfer is the last one seen; if there is none,
\* nothing is raised.
<1>4. ASSUME NEW i \in 1 .. m
      PROVE  i \in C <=> n + i >= 2 /\ (all[n + i] \ all[n + i - 1]) \cap bits # {}
  <2>1. CASE i = 1 /\ seen = <<>>
    <3>1. Raised(packets, i) = {} /\ n + i = 1
      BY <1>1, <2>1 DEF LineInv, Raised, NoLine, Lines
    <3>. QED
      BY <3>1
  <2>2. CASE i = 1 /\ seen # <<>>
    <3>1. n >= 1 /\ n + i - 1 = n /\ n \in 1 .. n /\ n + i >= 2
      BY <1>1, <2>2
    <3>2. all[n + i - 1] = lastLine /\ all[n + i] = packets[i].line
      BY <1>2, <2>2, <3>1 DEF LineInv
    <3>3. Raised(packets, i) = all[n + i] \ all[n + i - 1]
      BY <2>2, <3>2 DEF Raised
    <3>. QED
      BY <3>1, <3>3
  <2>3. CASE i # 1
    <3>1. i - 1 \in 1 .. m /\ n + (i - 1) = n + i - 1 /\ n + i >= 2
      BY <1>1, <2>3
    <3>2. all[n + i - 1] = packets[i - 1].line /\ all[n + i] = packets[i].line
      BY <1>2, <3>1
    <3>3. Raised(packets, i) = all[n + i] \ all[n + i - 1]
      BY <2>3, <3>2 DEF Raised
    <3>. QED
      BY <3>1, <3>3
  <2>. QED
    BY <2>1, <2>2, <2>3
<1>5. C \subseteq 1 .. m
  OBVIOUS
<1>. HIDE DEF C
<1>6. Raising(all, bits) = A \cup B
  <2>1. ASSUME NEW k \in 2 .. n + m
        PROVE  (all[k] \ all[k - 1]) \cap bits # {} <=> k \in A \/ k \in B
    <3>1. CASE k <= n
      <4>1. all[k] = seen[k] /\ all[k - 1] = seen[k - 1]
        BY <1>1, <1>2, <3>1
      <4>2. k \notin B
        BY <1>1, <1>5, <3>1
      <4>. QED
        BY <1>1, <3>1, <4>1, <4>2 DEF Raising
    <3>2. CASE k > n
      <4>1. PICK i \in 1 .. m : k = n + i
        <5>1. k - n \in 1 .. m /\ k = n + (k - n)
          BY <1>1, <3>2
        <5>. QED
          BY <5>1
      <4>2. k \notin A
        BY <1>1, <3>2 DEF Raising
      <4>3. k \in B <=> i \in C
        BY <1>1, <1>5, <4>1
      <4>. QED
        BY <1>1, <1>4, <4>1, <4>2, <4>3
    <3>. QED
      BY <1>1, <3>1, <3>2
  <2>2. A \subseteq 2 .. n + m
    BY <1>1 DEF Raising
  <2>3. B \subseteq 2 .. n + m
    BY <1>1, <1>4, <1>5
  <2>. QED
    BY <1>2, <2>1, <2>2, <2>3 DEF Raising
<1>7. IsFiniteSet(B) /\ Cardinality(B) = Cardinality(C)
  <2>. DEFINE f == [i \in C |-> n + i]
  <2>1. f \in Bijection(C, B)
    <3>1. f \in [C -> B]
      OBVIOUS
    <3>2. \A i, j \in C : f[i] = f[j] => i = j
      BY <1>1, <1>5
    <3>3. \A k \in B : \E i \in C : f[i] = k
      OBVIOUS
    <3>. QED
      BY <3>1, <3>2, <3>3 DEF Bijection, Injection, Surjection, IsInjective
  <2>2. ExistsBijection(C, B)
    BY <2>1 DEF ExistsBijection
  <2>. QED
    BY <1>3, <2>2, FS_Bijection
<1>8. A \cap B = {}
  BY <1>1, <1>5 DEF Raising
<1>. HIDE DEF A, B
<1>9. Cardinality(A \cup B) = Cardinality(A) + Cardinality(B)
  <2>1. Cardinality(A \cup B) = Cardinality(A) + Cardinality(B) - Cardinality(A \cap B)
    BY <1>3, <1>7, FS_Union
  <2>2. Cardinality(A \cap B) = 0
    BY <1>8, FS_EmptySet
  <2>. QED
    BY <1>3, <1>7, <2>1, <2>2
<1>. QED
  BY <1>3, <1>6, <1>7, <1>9 DEF Count, A, C

-----------------------------------------------------------------------------
(* The port's types, and what goes through it. *)

\* A read is under way only on an open port.
ReaderOpen == reader \in {"loop", "done"} \/ life = "open"

\* Nothing has come before the queue is filled.
FreshInv == life \in Before => produced = 0 /\ delivered = <<>> /\ payload = <<>>

DataInv == TypeOK /\ ReaderOpen /\ FreshInv /\ LineInv /\ BytesInOrder /\ CountersAreEdges

PortIInv == LifeInv /\ QueueInv /\ DataInv

LEMMA ReaderStep == ASSUME ReaderOpen, [Next]_vars PROVE ReaderOpen'
<1>1. CASE UNCHANGED <<reader, life>> \/ reader' \in {"loop", "done"}
  BY <1>1 DEF ReaderOpen
<1>2. CASE Detach \/ Reattach \/ Setup \/ Abort \/ Restore
  <2>1. reader' = reader /\ life # "open"
    BY <1>2 DEF Detach, Reattach, Setup, Abort, Restore
  <2>. QED
    BY <2>1 DEF ReaderOpen
<1>3. CASE Release \/ ReadCheck \/ ReadTimeout \/ ReadPending
  BY <1>3 DEF Release, ReadCheck, ReadTimeout, ReadPending, ReaderOpen, lifeVars
<1>4. CASE ReadCompletion
  <2>1. reader' \in {"loop", "done"}
    BY <1>4 DEF ReadCompletion
  <2>. QED
    BY <2>1 DEF ReaderOpen
<1>5. CASE ReadLock
  BY <1>5 DEF ReadLock, ReaderOpen, lifeVars
<1>6. CASE DeviceFills \/ CancelFlag \/ CancelAll \/ Closed \/ UNCHANGED vars
  BY <1>1, <1>6 DEF DeviceFills, CancelFlag, CancelAll, Closed, lifeVars, vars
<1>. QED
  BY <1>2, <1>3, <1>4, <1>5, <1>6 DEF Next, Reader

\* What a step may do to the bytes and the counters.
Flows ==
    \/ UNCHANGED <<completions, payload, delivered, seen, lastLine, rxErrors, rxOverflow,
                   sent, produced>>
    \/ DeviceFills \/ CancelAll \/ ReadPending \/ ReadCompletion \/ Release

LEMMA StepFlows == ASSUME [Next]_vars PROVE Flows
<1>1. CASE Detach \/ Reattach \/ Setup \/ Abort \/ Restore
  BY <1>1 DEF Detach, Reattach, Setup, Abort, Restore, rxVars, wireVars, Flows
<1>2. CASE ReadCheck \/ ReadLock \/ ReadTimeout \/ CancelFlag \/ Closed \/ UNCHANGED vars
  BY <1>2 DEF ReadCheck, ReadLock, ReadTimeout, CancelFlag, Closed, rxVars, wireVars, vars, Flows
<1>. QED
  BY <1>1, <1>2 DEF Next, Reader, Flows

LEMMA TypeStep ==
    ASSUME LifeInv, LifeInv', QueueInv, TypeOK, ReaderOpen, LineInv, [Next]_vars
    PROVE  TypeOK'
<1>0. /\ completions \in Seq(Transfer) /\ payload \in Seq(Nat) /\ lastLine \in Lines
      /\ rxErrors \in Nat /\ rxOverflow \in Nat /\ sent \in 0 .. MaxSent /\ produced \in Nat
      /\ delivered \in Seq(Nat) /\ seen \in Seq(Lines) /\ queued \in 0 .. Transfers
      /\ Transfers \in Nat
  BY CountAssumption DEF TypeOK
<1>1. /\ life' \in {"detach", "reattach", "redetach", "setup", "abort", "open", "restore",
                    "failed", "dropped"}
      /\ driver' \in {"bound", "unbound"} /\ found' \in {"bound", "unbound"}
      /\ claimed' \in BOOLEAN /\ tries' \in 0 .. AttachTries
  <2>1. claimed' = claimed \/ claimed' \in BOOLEAN
    BY DEF Next, Reader, vars, lifeVars, Detach, Reattach, Setup, Abort, DeviceFills, ReadCheck,
           ReadLock, ReadPending, ReadTimeout, ReadCompletion, CancelFlag, CancelAll, Release,
           Restore, Closed
  <2>. QED
    BY <2>1 DEF LifeInv, TypeOK
<1>2. /\ refused' \in BOOLEAN
      /\ reader' \in {"loop", "call", "checked", "locked", "done"}
      /\ canceller' \in {"idle", "store", "lock", "done"}
      /\ stop' \in BOOLEAN /\ cancelled' \in BOOLEAN
      /\ failures' \subseteq {"timed_out", "protocol", "access"}
      /\ broken' \subseteq {"status", "short"}
  <2>1. CASE DeviceFills
    <3>1. UNCHANGED <<lifeVars, reader, canceller, stop, cancelled, rxVars>>
          /\ broken' \subseteq broken \cup {"status", "short"}
      BY <2>1 DEF DeviceFills
    <3>. QED
      BY <3>1 DEF TypeOK, lifeVars, rxVars
  <2>2. CASE Reader \/ CancelFlag \/ CancelAll \/ Closed \/ UNCHANGED vars
    <3>1. CASE ReadCheck \/ ReadLock \/ ReadPending \/ ReadTimeout
      BY <3>1 DEF TypeOK, ReadCheck, ReadLock, ReadPending, ReadTimeout, lifeVars, rxVars, wireVars
    <3>2. CASE ReadCompletion
      <4>1. /\ UNCHANGED <<refused, canceller, stop, cancelled, broken>>
            /\ reader' \in {"loop", "done"}
            /\ failures' \subseteq failures \cup {"timed_out", "protocol", "access"}
        BY <3>2 DEF ReadCompletion, lifeVars, wireVars
      <4>. QED
        BY <4>1 DEF TypeOK
    <3>3. CASE CancelFlag \/ CancelAll \/ Closed \/ UNCHANGED vars
      BY <3>3 DEF TypeOK, CancelFlag, CancelAll, Closed, vars, lifeVars, rxVars, wireVars
    <3>. QED
      BY <2>2, <3>1, <3>2, <3>3 DEF Reader
  <2>3. CASE Detach \/ Reattach \/ Setup \/ Abort \/ Release \/ Restore
    <3>1. CASE Detach \/ Reattach \/ Setup \/ Abort
      BY <3>1 DEF TypeOK, Detach, Reattach, Setup, Abort, rxVars, wireVars
    <3>2. CASE Release \/ Restore
      BY <3>2 DEF TypeOK, Release, Restore, rxVars, wireVars
    <3>. QED
      BY <2>3, <3>1, <3>2
  <2>. QED
    BY <2>1, <2>2, <2>3 DEF Next
<1>3. queued' \in 0 .. Transfers
  <2>1. CASE ReadCompletion
    <3>1. life = "open" /\ queued' = queued + 1 /\ completions # <<>>
      BY <2>1 DEF ReadCompletion, Resubmit, ReaderOpen
    <3>2. queued + Len(completions) = Transfers /\ Len(completions) \in Nat \ {0}
      BY <1>0, <3>1, EmptySeq DEF QueueInv, QueueStaysFull
    <3>. QED
      BY <1>0, <3>1, <3>2
  <2>2. queued' \in {queued, 0, Transfers} \/ (queued > 0 /\ queued' = queued - 1)
        \/ ReadCompletion
    BY DEF Next, Reader, vars, Detach, Reattach, Setup, Abort, DeviceFills, ReadCheck,
           ReadLock, ReadPending, ReadTimeout, CancelFlag, CancelAll, Release,
           Restore, Closed
  <2>. QED
    BY <1>0, <2>1, <2>2
<1>4. /\ completions' \in Seq(Transfer) /\ payload' \in Seq(Nat) /\ lastLine' \in Lines
      /\ rxErrors' \in Nat /\ rxOverflow' \in Nat /\ sent' \in 0 .. MaxSent /\ produced' \in Nat
      /\ delivered' \in Seq(Nat) /\ seen' \in Seq(Lines)
  <2>1. CASE DeviceFills \/ CancelAll
    <3>1. UNCHANGED <<payload, delivered, seen, lastLine, rxErrors, rxOverflow>>
      BY <2>1 DEF DeviceFills, CancelAll, rxVars
    <3>2. /\ completions' \in Seq(Transfer) /\ sent' \in 0 .. MaxSent /\ produced' \in Nat
      BY <1>0, <2>1, Arrivals, ConcatProperties
    <3>. QED
      BY <1>0, <3>1, <3>2
  <2>2. CASE ReadPending
    <3>1. UNCHANGED <<completions, seen, lastLine, rxErrors, rxOverflow, sent, produced>>
          /\ HandOver(payload)
      BY <2>2 DEF ReadPending, wireVars
    <3>. QED
      BY <1>0, <3>1, HandOverFacts
  <2>3. CASE ReadCompletion
    <3>. DEFINE transfer == Head(completions)
                packets == transfer.packets
    <3>1. packets \in Seq(Packet) /\ completions' \in Seq(Transfer)
      BY <2>3, Taken
    <3>2. sent' = sent /\ produced' = produced
      BY <2>3 DEF ReadCompletion, wireVars
    <3>3. CASE transfer.short
      <4>1. UNCHANGED <<delivered, payload, lastLine, rxErrors, rxOverflow, seen>>
        BY <2>3, <3>3 DEF ReadCompletion
      <4>. QED
        BY <1>0, <3>1, <3>2, <4>1
    <3>4. CASE ~transfer.short
      <4>1. /\ HandOver(Stripped(packets)) /\ lastLine' = LineAfter(packets)
            /\ seen' = seen \o LinesOf(packets)
            /\ rxOverflow' \in {rxOverflow, rxOverflow + Count(packets, {"oe"})}
            /\ rxErrors' \in {rxErrors, rxErrors + Count(packets, {"pe", "fe", "bi"})}
        BY <2>3, <3>4 DEF ReadCompletion, LinesOf
      <4>. HIDE DEF transfer, packets
      <4>2. delivered' \in Seq(Nat) /\ payload' \in Seq(Nat)
        BY <1>0, <3>1, <4>1, StrippedType, HandOverFacts
      <4>3. LinesOf(packets) \in Seq(Lines) /\ LineAfter(packets) \in Lines
        BY <1>0, <3>1, LineFacts
      <4>4. \A bits : Count(packets, bits) \in Nat
        BY <3>1, RaisingGrows
      <4>5. seen' \in Seq(Lines)
        BY <1>0, <4>1, <4>3, ConcatProperties
      <4>6. rxErrors' \in Nat /\ rxOverflow' \in Nat
        BY <1>0, <4>1, <4>4
      <4>. QED
        BY <3>1, <3>2, <1>0, <4>1, <4>2, <4>3, <4>5, <4>6
    <3>. QED
      BY <3>3, <3>4
  <2>4. CASE Release
    <3>1. completions' = <<>> /\ completions' \in Seq(Transfer)
          /\ UNCHANGED <<payload, delivered, seen, lastLine, rxErrors, rxOverflow, sent, produced>>
      BY <2>4 DEF Release, rxVars, wireVars
    <3>. QED
      BY <1>0, <3>1
  <2>. QED
    BY <1>0, <2>1, <2>2, <2>3, <2>4, StepFlows DEF Flows
<1>. QED
  BY <1>1, <1>2, <1>3, <1>4 DEF TypeOK

(* The headers seen, and the counters that they raise. *)
LEMMA EdgeStep ==
    ASSUME TypeOK, LineInv, CountersAreEdges, [Next]_vars
    PROVE  LineInv' /\ CountersAreEdges'
<1>1. CASE UNCHANGED <<seen, lastLine, rxErrors, rxOverflow>> /\ failures \subseteq failures'
  BY <1>1 DEF LineInv, CountersAreEdges, Raising
<1>2. CASE ReadCompletion /\ ~Head(completions).short
  <2>. DEFINE transfer == Head(completions)
              packets == transfer.packets
  <2>1. packets \in Seq(Packet) /\ lastLine \in Lines /\ seen \in Seq(Lines)
        /\ rxErrors \in Nat /\ rxOverflow \in Nat
    BY <1>2, Taken DEF TypeOK
  <2>2. /\ lastLine' = LineAfter(packets) /\ seen' = seen \o LinesOf(packets)
        /\ \/ failures' = failures \cup {"access"}
           \/ /\ failures' = failures
              /\ rxOverflow' = rxOverflow + Count(packets, {"oe"})
              /\ rxErrors' = rxErrors + Count(packets, {"pe", "fe", "bi"})
    BY <1>2 DEF ReadCompletion, LinesOf
  <2>. HIDE DEF packets
  <2>3. /\ LinesOf(packets) \in Seq(Lines) /\ Len(LinesOf(packets)) = Len(packets)
        /\ \A i \in 1 .. Len(packets) : LinesOf(packets)[i] = packets[i].line
    BY <2>1, LineFacts
  <2>4. LineInv'
    <3>1. CASE packets = <<>>
      <4>1. Len(LinesOf(packets)) = 0
        BY <2>3, <3>1
      <4>2. seen' = seen
        BY <2>1, <2>2, <2>3, <4>1, EmptySeq, ConcatEmptySeq
      <4>3. lastLine' = lastLine
        BY <2>2, <3>1 DEF LineAfter
      <4>. QED
        BY <4>2, <4>3 DEF LineInv, NoLine
    <3>2. CASE packets # <<>>
      <4>1. Len(packets) \in 1 .. Len(packets) /\ Len(packets) \in Nat \ {0} /\ Len(seen) \in Nat
        BY <2>1, <3>2, EmptySeq
      <4>2. /\ Len(seen') = Len(seen) + Len(LinesOf(packets))
            /\ \A i \in 1 .. Len(seen) + Len(LinesOf(packets)) : seen'[i]
                  = IF i <= Len(seen) THEN seen[i] ELSE LinesOf(packets)[i - Len(seen)]
        BY <2>1, <2>2, <2>3, ConcatProperties
      <4>3. Len(seen') = Len(seen) + Len(packets) /\ seen' # <<>>
        BY <2>3, <4>1, <4>2
      <4>4. seen'[Len(seen')] = LinesOf(packets)[Len(packets)]
        BY <2>3, <4>1, <4>2, <4>3
      <4>5. lastLine' = packets[Len(packets)].line
        BY <2>2, <3>2 DEF LineAfter, Last
      <4>. QED
        BY <2>3, <4>1, <4>3, <4>4, <4>5 DEF LineInv
    <3>. QED
      BY <3>1, <3>2
  <2>5. ASSUME failures' \subseteq {"timed_out"}
        PROVE  /\ rxOverflow' = Cardinality(Raising(seen', {"oe"}))
               /\ rxErrors' = Cardinality(Raising(seen', {"pe", "fe", "bi"}))
    <3>1. /\ failures' = failures /\ rxOverflow' = rxOverflow + Count(packets, {"oe"})
          /\ rxErrors' = rxErrors + Count(packets, {"pe", "fe", "bi"})
      BY <2>2, <2>5
    <3>2. /\ rxOverflow = Cardinality(Raising(seen, {"oe"}))
          /\ rxErrors = Cardinality(Raising(seen, {"pe", "fe", "bi"}))
      BY <2>5, <3>1 DEF CountersAreEdges
    <3>3. \A bits : Cardinality(Raising(seen \o LinesOf(packets), bits))
                       = Cardinality(Raising(seen, bits)) + Count(packets, bits)
      BY <2>1, RaisingGrows
    <3>. QED
      BY <2>2, <3>1, <3>2, <3>3
  <2>. QED
    BY <2>4, <2>5 DEF CountersAreEdges, Raising
<1>3. CASE ReadCompletion /\ Head(completions).short
  BY <1>1, <1>3 DEF ReadCompletion
<1>4. CASE ~ReadCompletion
  <2>1. failures \subseteq failures'
    BY <1>4 DEF Next, Reader, vars, Detach, Reattach, Setup, Abort, DeviceFills, ReadCheck,
           ReadLock, ReadPending, ReadTimeout, CancelFlag, CancelAll, Release,
           Restore, Closed, rxVars
  <2>2. UNCHANGED <<seen, lastLine, rxErrors, rxOverflow>>
    BY <1>4, StepFlows DEF Flows, DeviceFills, CancelAll, ReadPending, Release, rxVars
  <2>. QED
    BY <1>1, <2>1, <2>2
<1>. QED
  BY <1>2, <1>3, <1>4

(* The bytes on their way through the port. *)
LEMMA StreamStep ==
    ASSUME TypeOK, QueueInv, ReaderOpen, FreshInv, BytesInOrder, [Next]_vars
    PROVE  FreshInv' /\ BytesInOrder'
<1>0. /\ completions \in Seq(Transfer) /\ payload \in Seq(Nat) /\ delivered \in Seq(Nat)
      /\ produced \in Nat /\ FlattenSeq(Payloads(completions)) \in Seq(Nat)
      /\ delivered \o payload \in Seq(Nat)
  BY PayloadsType, ConcatProperties DEF TypeOK
<1>. DEFINE held == FlattenSeq(Payloads(completions))
            Sent(n) == [i \in 1 .. n |-> i]
<1>1. \A n \in Nat : Sent(n) = Between(0, n)
  BY DEF Between
<1>assoc. \A s, t, u \in Seq(Nat) : (s \o t) \o u = s \o (t \o u)
  BY NatConcat, Zenon
<1>2. failures \subseteq failures'
  BY DEF Next, Reader, vars, Detach, Reattach, Setup, Abort, DeviceFills, ReadCheck,
         ReadLock, ReadPending, ReadTimeout, ReadCompletion, CancelFlag, CancelAll, Release,
         Restore, Closed, rxVars
<1>3. ASSUME UNCHANGED <<completions, payload, delivered, produced>>,
             life' \in Before => life \in Before, life' = "open" => life = "open"
      PROVE  FreshInv' /\ BytesInOrder'
  BY <1>2, <1>3 DEF FreshInv, BytesInOrder, Payloads, Stripped
<1>4. CASE Setup
  <2>1. UNCHANGED <<completions, payload, delivered, produced>>
    BY <1>4 DEF Setup, rxVars, wireVars
  <2>2. /\ life = "setup" /\ life' \in {"open", "abort"} /\ produced = 0 /\ delivered = <<>>
        /\ payload = <<>> /\ completions = <<>>
    BY <1>4 DEF Setup, FreshInv, QueueInv, Before
  <2>3. Payloads(<<>>) = <<>> /\ Sent(0) = <<>> /\ <<>> \o <<>> \o <<>> = <<>>
    BY DEF Payloads
  <2>4. delivered' \o payload' \o FlattenSeq(Payloads(completions')) = Sent(produced')
    BY <2>1, <2>2, <2>3, FlattenNone
  <2>. QED
    BY <2>2, <2>4 DEF FreshInv, BytesInOrder, Before, Payloads, Stripped
<1>5. CASE Detach \/ Reattach \/ Abort \/ Restore
  <2>1. UNCHANGED <<completions, payload, delivered, produced>>
        /\ (life' \in Before => life \in Before) /\ life' # "open"
    BY <1>5 DEF Detach, Reattach, Abort, Restore, rxVars, wireVars, Before
  <2>. QED
    BY <1>3, <2>1
<1>6. CASE Release
  BY <1>6 DEF Release, FreshInv, BytesInOrder, Before
<1>7. CASE ReadCheck \/ ReadLock \/ ReadTimeout \/ CancelFlag \/ Closed \/ UNCHANGED vars
  <2>1. UNCHANGED <<completions, payload, delivered, produced, life>>
    BY <1>7 DEF ReadCheck, ReadLock, ReadTimeout, CancelFlag, Closed, vars, rxVars, wireVars,
                lifeVars
  <2>. QED
    BY <1>3, <2>1
\* The steps on an open port that move bytes.
<1>8. ASSUME life' = life, life \notin Before,
             "protocol" \notin failures' =>
                delivered' \o payload' \o FlattenSeq(Payloads(completions')) = Sent(produced')
      PROVE  FreshInv' /\ BytesInOrder'
  BY <1>8 DEF FreshInv, BytesInOrder, Payloads, Stripped
<1>9. "protocol" \notin failures' /\ life = "open"
          => delivered \o payload \o held = Between(0, produced)
  BY <1>0, <1>1, <1>2 DEF BytesInOrder
<1>. HIDE DEF held, Sent
<1>10. CASE DeviceFills \/ CancelAll
  <2>1. UNCHANGED <<life, payload, delivered, failures>>
    BY <1>10 DEF DeviceFills, CancelAll, lifeVars, rxVars
  <2>2. life \notin Before
    BY <1>10 DEF DeviceFills, CancelAll, QueueInv, Before
  <2>3. PICK ts \in Seq(Transfer) : /\ completions' = completions \o ts
                                    /\ FlattenSeq(Payloads(ts)) = Between(produced, produced')
    BY <1>10, Arrivals
  <2>4. produced' \in Nat /\ produced <= produced' /\ 0 <= produced
    BY <1>0, <1>10, Arrivals
  <2>5. CASE life # "open"
    BY <2>1, <2>2, <2>5 DEF FreshInv, BytesInOrder
  <2>6. CASE life = "open"
    <3>. SUFFICES ASSUME "protocol" \notin failures'
                  PROVE  delivered' \o payload' \o FlattenSeq(Payloads(completions'))
                            = Sent(produced')
      BY <1>8, <2>1, <2>2
    <3>1. FlattenSeq(Payloads(completions')) = held \o Between(produced, produced')
      BY <1>0, <2>3, PayloadsConcat DEF held
    <3>2. held \in Seq(Nat) /\ Between(produced, produced') \in Seq(Nat)
      BY <1>0, <2>4, BetweenType DEF held
    <3>3. (delivered \o payload) \o (held \o Between(produced, produced'))
             = ((delivered \o payload) \o held) \o Between(produced, produced')
      BY <1>0, <1>assoc, <3>2, Zenon
    <3>4. Between(0, produced) \o Between(produced, produced') = Between(0, produced')
      BY <1>0, <2>4, BetweenConcat
    <3>. QED
      BY <1>1, <1>9, <2>1, <2>4, <2>6, <3>1, <3>3, <3>4
  <2>. QED
    BY <2>5, <2>6
<1>11. CASE ReadPending
  <2>1. /\ UNCHANGED <<life, completions, produced, failures>> /\ HandOver(payload)
        /\ life = "open"
    BY <1>11 DEF ReadPending, lifeVars, wireVars, ReaderOpen
  <2>2. delivered' \o payload' = delivered \o payload
    BY <1>0, <2>1, HandOverFacts
  <2>3. FlattenSeq(Payloads(completions')) = held
    BY <2>1 DEF held, Payloads, Stripped
  <2>. QED
    BY <1>0, <1>1, <1>8, <1>9, <2>1, <2>2, <2>3 DEF Before
<1>12. CASE ReadCompletion
  <2>1. life' = life /\ life = "open" /\ produced' = produced /\ payload = <<>>
    BY <1>12 DEF ReadCompletion, lifeVars, wireVars, ReaderOpen
  <2>. DEFINE transfer == Head(completions)
              bytes == Stripped(transfer.packets)
  <2>2. /\ transfer \in Transfer /\ transfer.packets \in Seq(Packet)
        /\ completions' \in Seq(Transfer) /\ completions = <<transfer>> \o completions'
    BY <1>12, Taken
  <2>3. ASSUME "protocol" \notin failures'
        PROVE  delivered' \o payload' \o FlattenSeq(Payloads(completions')) = Sent(produced')
    <3>1. HandOver(bytes)
      BY <1>12, <2>3 DEF ReadCompletion
    <3>. HIDE DEF transfer
    <3>2. bytes \in Seq(Nat)
      BY <2>2, StrippedType
    <3>. HIDE DEF bytes
    <3>3. delivered' \o payload' = delivered \o bytes
      BY <1>0, <3>1, <3>2, HandOverFacts
    <3>4. held = bytes \o FlattenSeq(Payloads(completions'))
      <4>1. <<transfer>> \in Seq(Transfer) /\ FlattenSeq(Payloads(<<transfer>>)) = bytes
        BY <2>2, PayloadsOne DEF bytes
      <4>. QED
        BY <2>2, <4>1, PayloadsConcat DEF held
    <3>5. FlattenSeq(Payloads(completions')) \in Seq(Nat)
      BY <2>2, PayloadsType
    <3>6. (delivered \o bytes) \o FlattenSeq(Payloads(completions'))
             = delivered \o (bytes \o FlattenSeq(Payloads(completions')))
      BY <1>0, <1>assoc, <3>2, <3>5, ZenonT(30)
    <3>7. delivered \o payload = delivered
      BY <1>0, <2>1, ConcatEmptySeq
    <3>. QED
      BY <1>0, <1>1, <1>9, <2>1, <2>3, <3>3, <3>4, <3>6, <3>7
  <2>. QED
    BY <1>8, <2>1, <2>3 DEF Before
<1>. QED
  BY <1>4, <1>5, <1>6, <1>7, <1>10, <1>11, <1>12 DEF Next, Reader

-----------------------------------------------------------------------------
(* What follows. *)

(* The inductive invariant of a port: who has the interface, the queue, the types,
   and what reads have handed over and counted. *)
THEOREM PortInvariance == Spec => []PortIInv
<1>1. Init => PortIInv
  <2>. SUFFICES ASSUME Init PROVE PortIInv
    OBVIOUS
  <2>1. LifeInv
    BY CountAssumption DEF Init, LifeInv, DropPersists
  <2>2. Len(completions) = 0 /\ completions \in Seq({}) /\ completions \in Seq(Transfer)
    BY DEF Init
  <2>3. QueueInv
    BY <2>2 DEF Init, QueueInv, QueueStaysFull, FailureHasCause, Before
  <2>4. TypeOK
    <3>1. NoLine \in Lines /\ <<>> \in Seq(Nat) /\ <<>> \in Seq(Lines)
      BY DEF NoLine, Lines
    <3>2. /\ tries \in 0 .. AttachTries /\ queued \in 0 .. Transfers /\ sent \in 0 .. MaxSent
          /\ produced \in Nat /\ rxErrors \in Nat /\ rxOverflow \in Nat
      BY CountAssumption DEF Init
    <3>3. /\ life \in {"detach", "reattach", "redetach", "setup", "abort", "open", "restore",
                       "failed", "dropped"}
          /\ driver \in {"bound", "unbound"} /\ found \in {"bound", "unbound"}
          /\ claimed \in BOOLEAN /\ refused \in BOOLEAN
          /\ reader \in {"loop", "call", "checked", "locked", "done"}
          /\ canceller \in {"idle", "store", "lock", "done"}
          /\ stop \in BOOLEAN /\ cancelled \in BOOLEAN
          /\ failures \subseteq {"timed_out", "protocol", "access"}
          /\ broken \subseteq {"status", "short"}
      BY DEF Init
    <3>4. payload \in Seq(Nat) /\ delivered \in Seq(Nat) /\ seen \in Seq(Lines) /\ lastLine \in Lines
      BY <3>1 DEF Init
    <3>. QED
      BY <2>2, <3>2, <3>3, <3>4 DEF TypeOK
  <2>5. ReaderOpen /\ FreshInv /\ LineInv /\ BytesInOrder
    BY DEF Init, ReaderOpen, FreshInv, LineInv, BytesInOrder
  <2>6. CountersAreEdges
    <3>1. \A bits : Raising(<<>>, bits) = {}
      BY DEF Raising
    <3>. QED
      BY <3>1, FS_EmptySet DEF Init, CountersAreEdges
  <2>. QED
    BY <2>1, <2>3, <2>4, <2>5, <2>6 DEF PortIInv, DataInv
<1>2. PortIInv /\ [Next]_vars => PortIInv'
  BY LifeStep, QueueStep, TypeStep, ReaderStep, EdgeStep, StreamStep DEF PortIInv, DataInv
<1>. QED
  BY <1>1, <1>2, PTL DEF Spec

(* The kernel driver and the process never own the interface together, and the
   driver is bound, or as it was found, on every way out: after any failure of
   open and after Drop, unless an attach was refused. *)
THEOREM DriverIsRestored == Spec => []DriverRestored
<1>1. PortIInv => DriverRestored
  BY DEF PortIInv, LifeInv, DriverRestored
<1>. QED
  BY <1>1, PortInvariance, PTL

(* The state of the port has its types; whatever reads returned, every transfer is
   in flight or waits to be read, a read that failed for good had a cause, and Drop
   gives up on the driver only after its last try. *)
THEOREM PortCorrect == Spec => []PortInv
<1>1. PortIInv => PortInv
  BY DEF PortIInv, LifeInv, QueueInv, DataInv, PortInv
<1>. QED
  BY <1>1, PortInvariance, PTL

(* Until a read has dropped a malformed transfer, the session has been given, in
   order and without a gap, what the device sent, but for what waits in the port:
   through any buffer size, any packets and any number of transfers. *)
THEOREM StreamInOrder == Spec => []BytesInOrder
<1>1. PortIInv => BytesInOrder
  BY DEF PortIInv, DataInv
<1>. QED
  BY <1>1, PortInvariance, PTL

(* The error counters count the headers that newly raise a bit, across the packets
   of a transfer, transfers and reads. *)
THEOREM CountersCorrect == Spec => []CountersAreEdges
<1>1. PortIInv => CountersAreEdges
  BY DEF PortIInv, DataInv
<1>. QED
  BY <1>1, PortInvariance, PTL

=============================================================================
