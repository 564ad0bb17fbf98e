---------------------------- MODULE ScreenProofs ----------------------------
(***************************************************************************)
(* SnapshotIsTail, TypeOK and NoGap, for ring buffers, terminals and       *)
(* connections of any size, any output and any clients.  The first         *)
(* invariant gives every line of the buffer its place, and the order of    *)
(* the chunks that are still on their way to it; the last one says, for    *)
(* every client, how far its log and the broadcasts to it have got.  With  *)
(* it every step of a screen session is a step of ServerConsole.           *)
(***************************************************************************)
EXTENDS ScreenRefinement, SequenceTheorems, FiniteSetTheorems, TLAPS

(* The line at place i of a buffer of n lines with its head at h.          *)
LineAt(i, n, h) ==
    IF n < Capacity THEN i + 1 ELSE IF i < h THEN n - h + i + 1 ELSE n - h - Capacity + i + 1

RingInv ==
    /\ log = [lines |-> log.lines, head |-> log.head, size |-> log.size]
    /\ cnt \in Nat /\ log.head \in 0 .. Capacity - 1
    /\ log.lines \in [0 .. Capacity - 1 -> Int]
    /\ log.size = IF cnt < Capacity THEN cnt ELSE Capacity
    /\ cnt < Capacity => log.head = cnt
    /\ \A i \in 0 .. Capacity - 1 : i < cnt => log.lines[i] = LineAt(i, cnt, log.head)

(* The chunks that have been made and are not in the buffer.               *)
InHand == IF reader.pc = "add" THEN 1 ELSE 0
OrderInv ==
    /\ reader = [pc |-> reader.pc, chunk |-> reader.chunk, todo |-> reader.todo]
    /\ outq \in Seq(Int)
    /\ made = cnt + InHand + Len(outq)
    /\ reader.pc = "add" => reader.chunk = cnt + 1
    /\ \A i \in 1 .. Len(outq) : outq[i] = cnt + InHand + i

ScreenInv == RingInv /\ OrderInv

-----------------------------------------------------------------------------
(* A place of the buffer is its own remainder.                             *)
LEMMA ModBelow == ASSUME NEW n \in Nat \ {0}, NEW m \in 0 .. n - 1 PROVE m % n = m
OBVIOUS

(* One place further than the last is the first.                           *)
LEMMA ModItself == ASSUME NEW n \in Nat \ {0} PROVE n % n = 0
OBVIOUS

(* So the head moves to the next place, or to the first.                   *)
LEMMA ModNext == ASSUME NEW n \in Nat \ {0}, NEW m \in 0 .. n PROVE m % n = IF m = n THEN 0 ELSE m
BY ModBelow, ModItself

NextHead(h) == IF h + 1 = Capacity THEN 0 ELSE h + 1

(* A new line leaves the other lines at their places.                      *)
LEMMA LineStays ==
    ASSUME NEW n \in Nat, NEW h \in 0 .. Capacity - 1, n < Capacity => h = n,
           NEW i \in 0 .. Capacity - 1, i < n, i # h
    PROVE  LineAt(i, n + 1, NextHead(h)) = LineAt(i, n, h)
BY CapacityOK DEF LineAt, NextHead

(* It is at the head itself.                                               *)
LEMMA LineIsNew ==
    ASSUME NEW n \in Nat, NEW h \in 0 .. Capacity - 1, n < Capacity => h = n
    PROVE  LineAt(h, n + 1, NextHead(h)) = n + 1
BY CapacityOK DEF LineAt, NextHead

(* A function on an interval is a sequence.                                *)
LEMMA IntervalSeq == ASSUME NEW n \in Nat, NEW f \in [1 .. n -> Int] PROVE f \in Seq(Int) /\ Len(f) = n
OBVIOUS

(* Slice copies a part of the buffer.                                      *)
LEMMA SliceOfRing ==
    ASSUME RingInv, NEW a \in Nat, NEW b \in a .. Capacity
    PROVE  /\ Slice(log, a, b) \in Seq(Int) /\ Len(Slice(log, a, b)) = b - a
           /\ \A i \in 1 .. b - a : Slice(log, a, b)[i] = log.lines[a + i - 1]
<1>1. b - a \in Nat /\ \A i \in 1 .. b - a : a + i - 1 \in 0 .. Capacity - 1
  BY CapacityOK
<1>2. Slice(log, a, b) \in [1 .. b - a -> Int]
  BY <1>1 DEF Slice, RingInv
<1>3. QED
  BY <1>1, <1>2, IntervalSeq DEF Slice

(* Initially the buffer is empty.                                          *)
LEMMA InitInv == Init => ScreenInv
BY CapacityOK DEF Init, New, ScreenInv, RingInv, OrderInv, InHand, LineAt

(* Output appends the next chunk.                                          *)
LEMMA OutputStep == ASSUME ScreenInv, Output PROVE ScreenInv'
<1>1. UNCHANGED <<log, cnt, reader>> /\ made' = made + 1 /\ outq' = Append(outq, made')
  BY DEF Output, daemon
<1>2. RingInv'
  BY <1>1 DEF ScreenInv, RingInv
<1>3. OrderInv'
  <2>1. OrderInv /\ cnt \in Nat /\ InHand \in {0, 1} /\ outq \in Seq(Int) /\ Len(outq) \in Nat /\ made \in Int
    BY DEF ScreenInv, RingInv, OrderInv, InHand
  <2>2. /\ outq' \in Seq(Int) /\ Len(outq') = Len(outq) + 1
        /\ \A i \in 1 .. Len(outq) + 1 : outq'[i] = IF i = Len(outq) + 1 THEN made' ELSE outq[i]
    BY <1>1, <2>1
  <2>3. made' = cnt + InHand + Len(outq) + 1 /\ InHand' = InHand
    BY <1>1, <2>1 DEF OrderInv, InHand
  <2>4. ASSUME NEW i \in 1 .. Len(outq) + 1 PROVE outq'[i] = cnt + InHand + i
    <3>1. CASE i = Len(outq) + 1
      BY <2>1, <2>2, <2>3, <3>1
    <3>2. CASE i # Len(outq) + 1
      <4>1. i \in 1 .. Len(outq) /\ outq'[i] = outq[i]
        BY <2>1, <2>2, <3>2
      <4>2. QED
        BY <2>1, <4>1 DEF OrderInv
    <3>3. QED
      BY <3>1, <3>2
  <2>5. /\ made' = cnt' + InHand' + Len(outq')
        /\ \A i \in 1 .. Len(outq') : outq'[i] = cnt' + InHand' + i
    BY <1>1, <2>1, <2>2, <2>3, <2>4
  <2>6. QED
    BY <1>1, <2>1, <2>2, <2>5 DEF OrderInv
<1>4. QED
  BY <1>2, <1>3 DEF ScreenInv

(* Read takes the oldest chunk.                                            *)
LEMMA ReadStep == ASSUME ScreenInv, Read PROVE ScreenInv'
<1>1. RingInv'
  BY DEF ScreenInv, RingInv, Read
<1>2. CASE outq = <<>>
  <2>1. /\ UNCHANGED <<cnt, made, outq>> /\ reader.pc = "read" /\ OrderInv
        /\ reader' = [pc |-> "end", chunk |-> reader.chunk, todo |-> reader.todo]
    BY <1>2 DEF ScreenInv, OrderInv, Read, process
  <2>2. InHand = 0 /\ InHand' = 0
    BY <2>1 DEF InHand
  <2>3. QED
    BY <1>1, <2>1, <2>2 DEF ScreenInv, OrderInv
<1>3. CASE outq # <<>>
  <2>1. /\ outq \in Seq(Int) /\ cnt' = cnt /\ made' = made /\ outq' = Tail(outq)
        /\ reader' = [reader EXCEPT !.pc = "add", !.chunk = Head(outq)]
        /\ reader.pc = "read" /\ cnt \in Nat
    BY <1>3 DEF ScreenInv, RingInv, OrderInv, Read, process
  <2>2. /\ Head(outq) = outq[1] /\ Len(outq) \in Nat \ {0}
        /\ Tail(outq) \in Seq(Int) /\ Len(Tail(outq)) = Len(outq) - 1
        /\ \A i \in 1 .. Len(Tail(outq)) : Tail(outq)[i] = outq[i + 1]
    BY <1>3, <2>1
  <2>3. outq[1] = cnt + 1 /\ \A i \in 1 .. Len(outq) : outq[i] = cnt + i
    BY <2>1, <2>2 DEF ScreenInv, OrderInv, InHand
  <2>4. reader' = [pc |-> "add", chunk |-> cnt + 1, todo |-> reader.todo]
    BY <2>1, <2>2, <2>3 DEF ScreenInv, OrderInv
  <2>5. InHand = 0 /\ InHand' = 1 /\ made = cnt + Len(outq)
    BY <2>1, <2>2, <2>4 DEF ScreenInv, OrderInv, InHand
  <2>6. \A i \in 1 .. Len(outq') : outq'[i] = cnt + 1 + i
    <3>1. ASSUME NEW i \in 1 .. Len(outq) - 1 PROVE Tail(outq)[i] = cnt + 1 + i
      <4>1. i + 1 \in 1 .. Len(outq) /\ Tail(outq)[i] = outq[i + 1]
        BY <2>2, <3>1
      <4>2. outq[i + 1] = cnt + (i + 1)
        BY <2>3, <4>1
      <4>3. QED
        BY <2>1, <4>1, <4>2
    <3>2. QED
      BY <2>1, <2>2, <3>1
  <2>7. OrderInv'
    <3>1. /\ made' = cnt' + InHand' + Len(outq')
          /\ \A i \in 1 .. Len(outq') : outq'[i] = cnt' + InHand' + i
      BY <2>1, <2>2, <2>5, <2>6
    <3>2. outq' \in Seq(Int)
      BY <2>1, <2>2
    <3>3. /\ reader' = [pc |-> reader'.pc, chunk |-> reader'.chunk, todo |-> reader'.todo]
          /\ reader'.chunk = cnt + 1
      BY ONLY <2>4
    <3>4. reader'.chunk = cnt' + 1
      BY <2>1, <3>3
    <3>5. QED
      BY <3>1, <3>2, <3>3, <3>4 DEF OrderInv
  <2>8. QED
    BY <1>1, <2>7 DEF ScreenInv
<1>4. QED
  BY <1>2, <1>3

(* Add puts the chunk at the head (ringbuffer.go).                         *)
LEMMA AddStep == ASSUME ScreenInv, Add PROVE ScreenInv'
<1>1. /\ RingInv /\ OrderInv /\ reader.pc = "add" /\ reader.chunk = cnt + 1
      /\ log' = Added(log, cnt + 1) /\ cnt' = cnt + 1 /\ reader' = [reader EXCEPT !.pc = "lock"]
      /\ UNCHANGED <<outq, made>>
  BY DEF ScreenInv, OrderInv, Add, process
<1>2. (log.head + 1) % Capacity = IF log.head + 1 = Capacity THEN 0 ELSE log.head + 1
  <2>1. log.head + 1 \in 0 .. Capacity /\ Capacity \in Nat \ {0}
    BY <1>1, CapacityOK DEF RingInv
  <2>2. QED
    BY <2>1, ModNext
<1>3. log' = [lines |-> [log.lines EXCEPT ![log.head] = cnt + 1],
              head |-> IF log.head + 1 = Capacity THEN 0 ELSE log.head + 1,
              size |-> IF log.size < Capacity THEN log.size + 1 ELSE log.size]
  BY <1>1, <1>2 DEF Added
<1>4. RingInv'
  <2>1. /\ log'.lines = [log.lines EXCEPT ![log.head] = cnt + 1] /\ log'.head = NextHead(log.head)
        /\ log'.size = IF log.size < Capacity THEN log.size + 1 ELSE log.size
        /\ log' = [lines |-> log'.lines, head |-> log'.head, size |-> log'.size]
    BY <1>3 DEF NextHead
  <2>2. /\ cnt \in Nat /\ log.head \in 0 .. Capacity - 1 /\ Capacity \in Nat \ {0}
        /\ log.lines \in [0 .. Capacity - 1 -> Int] /\ (cnt < Capacity => log.head = cnt)
        /\ log.size = IF cnt < Capacity THEN cnt ELSE Capacity
    BY <1>1, CapacityOK DEF RingInv
  <2>3. log'.lines \in [0 .. Capacity - 1 -> Int]
    BY <2>1, <2>2
  <2>4. ASSUME NEW i \in 0 .. Capacity - 1, i < cnt + 1
        PROVE  log'.lines[i] = LineAt(i, cnt + 1, NextHead(log.head))
    <3>1. CASE i = log.head
      BY <2>1, <2>2, <3>1, LineIsNew
    <3>2. CASE i # log.head
      <4>1. log'.lines[i] = log.lines[i]
        BY <2>1, <2>2, <3>2
      <4>2. i < cnt
        BY <2>2, <2>4, <3>2
      <4>3. log.lines[i] = LineAt(i, cnt, log.head)
        BY <1>1, <4>2 DEF RingInv
      <4>4. QED
        BY <2>2, <3>2, <4>1, <4>2, <4>3, LineStays
    <3>3. QED
      BY <3>1, <3>2
  <2>5. /\ log'.head \in 0 .. Capacity - 1 /\ (cnt + 1 < Capacity => log'.head = cnt + 1)
        /\ log'.size = IF cnt + 1 < Capacity THEN cnt + 1 ELSE Capacity
    BY <2>1, <2>2 DEF NextHead
  <2>6. QED
    BY <1>1, <2>1, <2>2, <2>3, <2>4, <2>5 DEF RingInv
<1>5. OrderInv'
  <2>1. reader' = [pc |-> "lock", chunk |-> reader.chunk, todo |-> reader.todo]
    BY <1>1 DEF OrderInv
  <2>2. QED
    BY <1>1, <2>1 DEF OrderInv, InHand, RingInv
<1>6. QED
  BY <1>4, <1>5 DEF ScreenInv

(* A broadcast changes the reader's step and the clients it still has.     *)
LEMMA BroadcastStep ==
    ASSUME ScreenInv, \/ ReaderLocks \/ ReaderUnlocks \/ \E c \in Clients : ReaderSends(c)
    PROVE  ScreenInv'
<1>1. UNCHANGED <<log, cnt, outq, made>>
  BY DEF ReaderLocks, ReaderUnlocks, ReaderSends, process
<1>2. /\ reader' = [pc |-> reader'.pc, chunk |-> reader'.chunk, todo |-> reader'.todo]
      /\ reader.pc # "add" /\ reader'.pc # "add"
  BY DEF ReaderLocks, ReaderUnlocks, ReaderSends, ScreenInv, OrderInv
<1>3. QED
  BY <1>1, <1>2 DEF ScreenInv, RingInv, OrderInv, InHand

(* The other steps do not touch the output.                                *)
LEMMA OtherStep == ASSUME ScreenInv, UNCHANGED <<log, cnt, reader, outq, made>> PROVE ScreenInv'
BY DEF ScreenInv, RingInv, OrderInv, InHand

(* One lemma per action that reads or writes output gives every step.      *)
LEMMA EveryStep == ASSUME ScreenInv, [Next]_vars PROVE ScreenInv'
<1>1. CASE \/ WantsOutput \/ Input \/ Exit \/ StopLocks \/ StopWrites
           \/ WaiterLocks \/ WaiterUnlocks \/ Wait \/ UNCHANGED vars
  BY <1>1, OtherStep DEF WantsOutput, Input, Exit, StopLocks, StopWrites, WaiterLocks, WaiterUnlocks, Wait,
                         vars, process, daemon
<1>2. CASE \E c \in Clients : \/ WaiterSends(c) \/ Attach(c) \/ AttachSends(c) \/ ReadFromClient(c)
                              \/ Unregister(c) \/ HandleScreenConn(c)
  BY <1>2, OtherStep DEF WaiterSends, Attach, AttachSends, ReadFromClient, Unregister, HandleScreenConn,
                         ServeOnly, process, daemon
<1>3. CASE \E c \in Clients : Decode(c) \/ Show(c) \/ Type(c) \/ Stall(c) \/ Detach(c)
  BY <1>3, OtherStep DEF Decode, Show, Type, Stall, Detach, ClientOnly, process, daemon
<1>4. CASE Output \/ Read \/ Add \/ ReaderLocks \/ ReaderUnlocks \/ \E c \in Clients : ReaderSends(c)
  BY <1>4, OutputStep, ReadStep, AddStep, BroadcastStep
<1>5. QED
  BY <1>1, <1>2, <1>3, <1>4 DEF Next, Goroutines

(* The inductive invariant.                                                *)
THEOREM Invariance == Spec => []ScreenInv
BY InitInv, EveryStep, PTL DEF Spec

(* What the buffer's invariant says of Snapshot.                           *)
LEMMA SnapshotOfRing == ASSUME RingInv PROVE SnapshotIsTail
<1> DEFINE first == IF cnt > Capacity THEN cnt - Capacity ELSE 0
           tail == [i \in 1 .. cnt - first |-> first + i]
<1>1. first \in Nat /\ cnt - first \in Nat /\ tail \in Seq(Int) /\ Len(tail) = cnt - first
  <2>1. first \in Nat /\ cnt - first \in Nat
    BY CapacityOK DEF RingInv
  <2>2. tail \in [1 .. cnt - first -> Int]
    BY <2>1
  <2>3. QED
    BY <2>1, <2>2, IntervalSeq
<1>2. log.lines \in [0 .. Capacity - 1 -> Int]
  BY DEF RingInv
<1>3. CASE cnt < Capacity
  <2>1. Snapshot(log) = Slice(log, 0, cnt) /\ cnt \in 0 .. Capacity /\ first = 0
    BY <1>3, CapacityOK DEF Snapshot, RingInv
  <2>2. ASSUME NEW i \in 1 .. cnt PROVE log.lines[0 + i - 1] = i
    <3>1. 0 + i - 1 \in 0 .. Capacity - 1 /\ 0 + i - 1 < cnt
      BY <1>3, <2>1, CapacityOK
    <3>2. LineAt(0 + i - 1, cnt, log.head) = i
      BY <1>3 DEF LineAt
    <3>3. QED
      BY <3>1, <3>2 DEF RingInv
  <2>3. Snapshot(log) \in Seq(Int) /\ Len(Snapshot(log)) = cnt /\ \A i \in 1 .. cnt : Snapshot(log)[i] = i
    <3>1. /\ Slice(log, 0, cnt) \in Seq(Int) /\ Len(Slice(log, 0, cnt)) = cnt - 0
          /\ \A i \in 1 .. cnt - 0 : Slice(log, 0, cnt)[i] = log.lines[0 + i - 1]
      BY <2>1, CapacityOK, SliceOfRing
    <3>2. cnt - 0 = cnt
      BY <2>1, CapacityOK
    <3>3. QED
      BY <2>1, <2>2, <3>1, <3>2
  <2>4. Snapshot(log) = tail
    BY <1>1, <2>1, <2>3, SeqEqual
  <2>5. QED
    BY <2>4 DEF SnapshotIsTail
<1>4. CASE ~(cnt < Capacity)
  <2>1. /\ Snapshot(log) = Slice(log, log.head, Capacity) \o Slice(log, 0, log.head)
        /\ first = cnt - Capacity /\ log.head \in 0 .. Capacity /\ Capacity \in Nat /\ cnt \in Nat
    BY <1>4, CapacityOK DEF Snapshot, RingInv
  <2> HIDE DEF first, tail
  <2>2. /\ Slice(log, log.head, Capacity) \in Seq(Int)
        /\ Len(Slice(log, log.head, Capacity)) = Capacity - log.head
        /\ \A i \in 1 .. Capacity - log.head : Slice(log, log.head, Capacity)[i] = log.lines[log.head + i - 1]
    <3>1. log.head \in Nat /\ Capacity \in log.head .. Capacity
      BY <2>1
    <3>2. QED
      BY <3>1, SliceOfRing
  <2>3. /\ Slice(log, 0, log.head) \in Seq(Int) /\ Len(Slice(log, 0, log.head)) = log.head
        /\ \A i \in 1 .. log.head : Slice(log, 0, log.head)[i] = log.lines[i - 1]
    <3>1. 0 \in Nat /\ log.head \in 0 .. Capacity
      BY <2>1
    <3>2. /\ Slice(log, 0, log.head) \in Seq(Int) /\ Len(Slice(log, 0, log.head)) = log.head - 0
          /\ \A i \in 1 .. log.head - 0 : Slice(log, 0, log.head)[i] = log.lines[0 + i - 1]
      BY <3>1, SliceOfRing
    <3>3. log.head - 0 = log.head /\ \A i \in 1 .. log.head : 0 + i - 1 = i - 1
      BY <2>1
    <3>4. QED
      BY <3>2, <3>3
  <2>4. \A i \in 1 .. Capacity - log.head : log.lines[log.head + i - 1] = cnt - Capacity + i
    <3>1. ASSUME NEW i \in 1 .. Capacity - log.head PROVE log.lines[log.head + i - 1] = cnt - Capacity + i
      <4>1. log.head + i - 1 \in 0 .. Capacity - 1 /\ log.head + i - 1 < cnt /\ ~(log.head + i - 1 < log.head)
        BY <1>4, <2>1
      <4>2. log.lines[log.head + i - 1] = LineAt(log.head + i - 1, cnt, log.head)
        BY <4>1 DEF RingInv
      <4>3. LineAt(log.head + i - 1, cnt, log.head) = cnt - Capacity + i
        BY <1>4, <2>1, <4>1 DEF LineAt
      <4>4. QED
        BY <4>2, <4>3
    <3>2. QED
      BY <3>1
  <2>5. \A i \in 1 .. log.head : log.lines[i - 1] = cnt - log.head + i
    <3>1. ASSUME NEW i \in 1 .. log.head PROVE log.lines[i - 1] = cnt - log.head + i
      <4>1. i - 1 \in 0 .. Capacity - 1 /\ i - 1 < cnt /\ i - 1 < log.head
        BY <1>4, <2>1
      <4>2. log.lines[i - 1] = LineAt(i - 1, cnt, log.head)
        BY <4>1 DEF RingInv
      <4>3. LineAt(i - 1, cnt, log.head) = cnt - log.head + i
        BY <1>4, <2>1, <4>1 DEF LineAt
      <4>4. QED
        BY <4>2, <4>3
    <3>2. QED
      BY <3>1
  <2>6. /\ Snapshot(log) \in Seq(Int) /\ Len(Snapshot(log)) = Capacity
        /\ \A i \in 1 .. Capacity : Snapshot(log)[i] =
              IF i <= Capacity - log.head THEN Slice(log, log.head, Capacity)[i]
              ELSE Slice(log, 0, log.head)[i - (Capacity - log.head)]
    <3> DEFINE late == Slice(log, 0, log.head)
               early == Slice(log, log.head, Capacity)
    <3>1. Len(early) + Len(late) = Capacity /\ early \in Seq(Int) /\ late \in Seq(Int)
      BY <2>1, <2>2, <2>3
    <3>2. Snapshot(log) = early \o late /\ Len(early) = Capacity - log.head
      BY <2>1, <2>2
    <3> HIDE DEF early, late
    <3>3. /\ early \o late \in Seq(Int) /\ Len(early \o late) = Len(early) + Len(late)
          /\ \A i \in 1 .. Len(early) + Len(late) :
                (early \o late)[i] = IF i <= Len(early) THEN early[i] ELSE late[i - Len(early)]
      BY <3>1, ConcatProperties
    <3>4. QED
      BY <3>1, <3>2, <3>3 DEF early, late
  <2>7. ASSUME NEW i \in 1 .. Capacity PROVE Snapshot(log)[i] = cnt - Capacity + i
    <3>1. CASE i <= Capacity - log.head
      <4>1. i \in 1 .. Capacity - log.head /\ Snapshot(log)[i] = Slice(log, log.head, Capacity)[i]
        BY <2>1, <2>6, <3>1
      <4>2. QED
        BY <2>2, <2>4, <4>1
    <3>2. CASE ~(i <= Capacity - log.head)
      <4>1. /\ i - (Capacity - log.head) \in 1 .. log.head
            /\ Snapshot(log)[i] = Slice(log, 0, log.head)[i - (Capacity - log.head)]
        <5>1. i - (Capacity - log.head) \in 1 .. log.head
          BY <2>1, <3>2
        <5>2. QED
          BY <2>6, <3>2, <5>1
      <4>2. Snapshot(log)[i] = cnt - log.head + (i - (Capacity - log.head))
        BY <2>3, <2>5, <4>1
      <4>3. cnt - log.head + (i - (Capacity - log.head)) = cnt - Capacity + i
        BY <2>1
      <4>4. QED
        BY <4>2, <4>3
    <3>3. QED
      BY <3>1, <3>2
  <2>8. tail \in Seq(Int) /\ Len(tail) = Capacity /\ \A i \in 1 .. Capacity : tail[i] = cnt - Capacity + i
    <3>1. cnt - first = Capacity
      BY <2>1
    <3>2. QED
      BY <1>1, <2>1, <3>1 DEF tail
  <2>9. Snapshot(log) = tail
    BY <2>6, <2>7, <2>8, SeqEqual
  <2>10. QED
    BY <2>9 DEF SnapshotIsTail, first, tail
<1>5. QED
  BY <1>3, <1>4

(* A screen client is sent the server's last output, complete and in       *)
(* order, whatever the capacity (ringbuffer.go).                           *)
THEOREM LogIsTail == Spec => []SnapshotIsTail
<1>1. ScreenInv => SnapshotIsTail
  BY SnapshotOfRing DEF ScreenInv
<1>2. QED
  BY <1>1, Invariance, PTL

-----------------------------------------------------------------------------
(* Type correctness: the server writes at most MaxOut chunks, and a client *)
(* has typed the lines that are still on their way.                        *)
Below == (wants => made < MaxOut) /\ \A c \in Clients : typed[c].queue <= typed[c].total
ScreenType == TypeOK /\ Below

(* The queues are empty at first, and nothing was made.                    *)
LEMMA InitType == Init => ScreenType
<1> SUFFICES ASSUME Init PROVE ScreenType
  OBVIOUS
<1>1. 0 \in Chunks /\ Capacity \in Nat \ {0}
  BY BoundsOK, CapacityOK DEF Chunks
<1>2. log \in [lines : [0 .. Capacity - 1 -> Chunks], head : 0 .. Capacity - 1, size : 0 .. Capacity]
  <2>1. [i \in 0 .. Capacity - 1 |-> 0] \in [0 .. Capacity - 1 -> Chunks] /\ 0 \in 0 .. Capacity - 1 /\ 0 \in 0 .. Capacity
    BY <1>1
  <2> QED
    BY <2>1 DEF Init, New
<1>3. outq \in Seq(Chunks) /\ Len(outq) <= OutCap /\ inq \in Seq({"text", "stop"}) /\ Len(inq) <= InCap
  BY BoundsOK DEF Init
<1>4. conn \in [Clients -> Seq(Chunks)] /\ \A c \in Clients : Len(conn[c]) <= ConnCap
  BY BoundsOK DEF Init
<1>5. /\ typed \in [Clients -> [total : 0 .. MaxTyped, queue : 0 .. MaxTyped]] /\ stops \in 0 .. MaxStops
      /\ \A c \in Clients : typed[c].queue <= typed[c].total
  BY BoundsOK DEF Init
<1>6. serve \in [Clients -> [pc : {"off", "register", "snapshot", "send", "read", "unregister", "end"}, lines : Seq(Chunks)]]
  BY DEF Init
<1> QED
  BY <1>1, <1>2, <1>3, <1>4, <1>5, <1>6 DEF Init, ScreenType, TypeOK, Below

(* The steps of the server process.                                        *)
LEMMA ProcessType ==
    ASSUME ScreenType, WantsOutput \/ Output \/ Input \/ Exit
    PROVE  ScreenType'
<1>1. CASE WantsOutput
  BY <1>1 DEF ScreenType, TypeOK, Below, WantsOutput, daemon, users
<1>2. CASE Output
  <2>1. made' \in Chunks /\ made' = made + 1
    <3>1. made \in 0 .. MaxOut /\ made < MaxOut /\ made' = made + 1
      BY <1>2 DEF ScreenType, TypeOK, Below, Output, Chunks
    <3> QED
      BY <3>1, BoundsOK DEF Chunks
  <2>2. outq' \in Seq(Chunks) /\ Len(outq') <= OutCap
    <3>1. /\ outq \in Seq(Chunks) /\ Len(outq) \in Nat /\ OutCap \in Nat /\ Len(outq) < OutCap
          /\ outq' = Append(outq, made')
      BY <1>2, BoundsOK DEF ScreenType, TypeOK, Output
    <3> QED
      BY <2>1, <3>1
  <2> QED
    BY <1>2, <2>1, <2>2 DEF ScreenType, TypeOK, Below, Output, daemon, users
<1>3. CASE Input
  <2>1. inq' \in Seq({"text", "stop"}) /\ Len(inq') <= InCap
    <3>1. inq \in Seq({"text", "stop"}) /\ inq # <<>> /\ inq' = Tail(inq) /\ Len(inq) <= InCap /\ InCap \in Nat
      BY <1>3, BoundsOK DEF ScreenType, TypeOK, Input
    <3>2. Tail(inq) \in Seq({"text", "stop"}) /\ Len(Tail(inq)) = Len(inq) - 1 /\ Len(inq) \in Nat
      BY <3>1
    <3> QED
      BY <3>1, <3>2
  <2>2. alive' \in BOOLEAN
    BY <1>3 DEF Input
  <2> QED
    BY <1>3, <2>1, <2>2 DEF ScreenType, TypeOK, Below, Input, daemon, users
<1>4. CASE Exit
  BY <1>4 DEF ScreenType, TypeOK, Below, Exit, daemon, users
<1> QED
  BY <1>1, <1>2, <1>3, <1>4

(* The steps of the reader and the waiter that touch no client.            *)
LEMMA ReaderType ==
    ASSUME ScreenType, ScreenInv, ScreenInv', Read \/ Add
    PROVE  ScreenType'
<1>1. CASE Read
  <2>1. outq' \in Seq(Chunks) /\ Len(outq') <= OutCap /\ (outq # <<>> => Head(outq) \in Chunks)
    <3>1. outq \in Seq(Chunks) /\ (outq' = outq \/ (outq # <<>> /\ outq' = Tail(outq))) /\ Len(outq) <= OutCap /\ OutCap \in Nat
      BY <1>1, BoundsOK DEF ScreenType, TypeOK, Read
    <3>2. outq # <<>> => /\ Tail(outq) \in Seq(Chunks) /\ Len(Tail(outq)) = Len(outq) - 1 /\ Len(outq) \in Nat
                         /\ Head(outq) \in Chunks
      BY <3>1
    <3> QED
      BY <3>1, <3>2
  <2>2. reader' \in [pc : {"read", "add", "lock", "send", "end"}, chunk : Chunks, todo : SUBSET Clients]
    <3>1. reader \in [pc : {"read", "add", "lock", "send", "end"}, chunk : Chunks, todo : SUBSET Clients]
      BY DEF ScreenType, TypeOK
    <3>2. CASE outq # <<>>
      BY <1>1, <2>1, <3>1, <3>2 DEF Read
    <3>3. CASE outq = <<>>
      BY <1>1, <3>1, <3>3 DEF Read
    <3> QED
      BY <3>2, <3>3
  <2> QED
    BY <1>1, <2>1, <2>2 DEF ScreenType, TypeOK, Below, Read, process, users
<1>2. CASE Add
  <2>1. reader' \in [pc : {"read", "add", "lock", "send", "end"}, chunk : Chunks, todo : SUBSET Clients]
    BY <1>2 DEF ScreenType, TypeOK, Add
  <2>2. cnt' \in Chunks
    <3>1. made' = made /\ made \in 0 .. MaxOut
      BY <1>2 DEF ScreenType, TypeOK, Add, process, Chunks
    <3>2. made' = cnt' + InHand' + Len(outq') /\ Len(outq') \in Nat /\ InHand' \in {0, 1} /\ cnt' \in Nat
      BY DEF ScreenInv, OrderInv, RingInv, InHand
    <3> QED
      BY <3>1, <3>2, BoundsOK DEF Chunks
  <2>3. log' \in [lines : [0 .. Capacity - 1 -> Chunks], head : 0 .. Capacity - 1, size : 0 .. Capacity]
    <3>1. /\ log.lines \in [0 .. Capacity - 1 -> Chunks] /\ log.head \in 0 .. Capacity - 1
          /\ log' = Added(log, reader.chunk) /\ reader.chunk \in Chunks
      BY <1>2 DEF ScreenType, TypeOK, Add
    <3>2. log'.lines \in [0 .. Capacity - 1 -> Chunks]
      BY <3>1 DEF Added
    <3>3. /\ log' = [lines |-> log'.lines, head |-> log'.head, size |-> log'.size]
          /\ log'.head \in 0 .. Capacity - 1 /\ log'.size = (IF cnt' < Capacity THEN cnt' ELSE Capacity) /\ cnt' \in Nat
      BY DEF ScreenInv, RingInv
    <3>4. log'.size \in 0 .. Capacity
      BY <3>3, CapacityOK
    <3> QED
      BY <3>2, <3>3, <3>4
  <2> QED
    BY <1>2, <2>1, <2>2, <2>3 DEF ScreenType, TypeOK, Below, Add, process, users
<1> QED
  BY <1>1, <1>2

(* The mutex goes to the reader or the waiter, with the clients that are   *)
(* registered.                                                             *)
LEMMA LockType ==
    ASSUME ScreenType, ReaderLocks \/ ReaderUnlocks \/ WaiterLocks \/ WaiterUnlocks \/ Wait
    PROVE  ScreenType'
<1>1. CASE ReaderLocks
  BY <1>1 DEF ScreenType, TypeOK, Below, ReaderLocks, process, users
<1>2. CASE ReaderUnlocks
  BY <1>2 DEF ScreenType, TypeOK, Below, ReaderUnlocks, process, users
<1>3. CASE WaiterLocks
  BY <1>3 DEF ScreenType, TypeOK, Below, WaiterLocks, process, daemon, users
<1>4. CASE WaiterUnlocks
  BY <1>4 DEF ScreenType, TypeOK, Below, WaiterUnlocks, process, daemon, users
<1>5. CASE Wait
  BY <1>5 DEF ScreenType, TypeOK, Below, Wait, process, daemon, users
<1> QED
  BY <1>1, <1>2, <1>3, <1>4, <1>5

(* A chunk is put on a connection while there is room.                     *)
LEMMA ConnType ==
    ASSUME ScreenType, NEW c \in Clients, NEW x \in Chunks, Len(conn[c]) < ConnCap,
           conn' = [conn EXCEPT ![c] = Append(@, x)]
    PROVE  conn' \in [Clients -> Seq(Chunks)] /\ \A d \in Clients : Len(conn'[d]) <= ConnCap
<1>1. conn \in [Clients -> Seq(Chunks)] /\ (\A d \in Clients : Len(conn[d]) <= ConnCap) /\ ConnCap \in Nat
  BY BoundsOK DEF ScreenType, TypeOK
<1>2. Append(conn[c], x) \in Seq(Chunks) /\ Len(Append(conn[c], x)) = Len(conn[c]) + 1 /\ Len(conn[c]) \in Nat
  BY <1>1, AppendProperties
<1>3. \A d \in Clients : conn'[d] = IF d = c THEN Append(conn[c], x) ELSE conn[d]
  BY <1>1
<1> QED
  BY <1>1, <1>2, <1>3

(* A broadcast fits on the connection, or drops the client.                *)
LEMMA DeliverType ==
    ASSUME ScreenType, NEW c \in Clients, NEW x \in Chunks, Deliver(c, x)
    PROVE  /\ conn' \in [Clients -> Seq(Chunks)] /\ \A d \in Clients : Len(conn'[d]) <= ConnCap
           /\ reg' \subseteq Clients
<1>1. CASE Len(conn[c]) < ConnCap /\ conn' = [conn EXCEPT ![c] = Append(@, x)] /\ UNCHANGED reg
  BY <1>1, ConnType DEF ScreenType, TypeOK
<1>2. CASE reg' = reg \ {c} /\ UNCHANGED conn
  BY <1>2 DEF ScreenType, TypeOK
<1> QED
  BY <1>1, <1>2 DEF Deliver

(* So the two broadcasts keep the types.                                   *)
LEMMA SendType ==
    ASSUME ScreenType, NEW c \in Clients, ReaderSends(c) \/ WaiterSends(c)
    PROVE  ScreenType'
<1>1. 0 \in Chunks /\ reader.chunk \in Chunks
  BY BoundsOK DEF ScreenType, TypeOK, Chunks
<1>2. /\ conn' \in [Clients -> Seq(Chunks)] /\ \A d \in Clients : Len(conn'[d]) <= ConnCap
      /\ reg' \subseteq Clients
  BY <1>1, DeliverType DEF ReaderSends, WaiterSends
<1>3. CASE ReaderSends(c)
  BY <1>2, <1>3 DEF ScreenType, TypeOK, Below, ReaderSends, process, users
<1>4. CASE WaiterSends(c)
  BY <1>2, <1>4 DEF ScreenType, TypeOK, Below, WaiterSends, process, daemon, users
<1> QED
  BY <1>3, <1>4

(* The log that is sent consists of chunks.                                *)
LEMMA SnapshotType == ASSUME ScreenType, ScreenInv PROVE Snapshot(log) \in Seq(Chunks)
<1>1. cnt \in 0 .. MaxOut /\ Capacity \in Nat \ {0} /\ MaxOut \in Nat
  BY BoundsOK, CapacityOK DEF ScreenType, TypeOK, Chunks
<1> DEFINE first == IF cnt > Capacity THEN cnt - Capacity ELSE 0
<1>2. Snapshot(log) = [i \in 1 .. cnt - first |-> first + i]
  BY SnapshotOfRing DEF ScreenInv, SnapshotIsTail
<1>3. cnt - first \in Nat /\ \A i \in 1 .. cnt - first : first + i \in Chunks
  BY <1>1 DEF Chunks
<1> HIDE DEF first
<1>4. Snapshot(log) \in [1 .. cnt - first -> Chunks]
  BY <1>2, <1>3
<1> QED
  BY <1>3, <1>4, SeqDef

Steps == {"off", "register", "snapshot", "send", "read", "unregister", "end"}

(* A goroutine that goes on to its next step, or is given its lines.       *)
LEMMA ServeGoes ==
    ASSUME ScreenType, NEW c \in Clients, NEW pc \in Steps, NEW lines \in Seq(Chunks),
           \/ serve' = [serve EXCEPT ![c].pc = pc]
           \/ serve' = [serve EXCEPT ![c].lines = lines]
           \/ serve' = [serve EXCEPT ![c] = [pc |-> pc, lines |-> lines]]
    PROVE  serve' \in [Clients -> [pc : Steps, lines : Seq(Chunks)]]
<1>1. serve \in [Clients -> [pc : Steps, lines : Seq(Chunks)]]
  BY DEF ScreenType, TypeOK, Steps
<1>2. PICK r : r \in [pc : Steps, lines : Seq(Chunks)] /\ serve' = [serve EXCEPT ![c] = r]
  <2>1. serve[c] \in [pc : Steps, lines : Seq(Chunks)]
    BY <1>1
  <2>2. /\ [serve[c] EXCEPT !.pc = pc] \in [pc : Steps, lines : Seq(Chunks)]
        /\ [serve[c] EXCEPT !.lines = lines] \in [pc : Steps, lines : Seq(Chunks)]
        /\ [pc |-> pc, lines |-> lines] \in [pc : Steps, lines : Seq(Chunks)]
    BY <2>1
  <2>3. CASE serve' = [serve EXCEPT ![c].pc = pc]
    BY <2>2, <2>3
  <2>4. CASE serve' = [serve EXCEPT ![c].lines = lines]
    BY <2>2, <2>4
  <2>5. CASE serve' = [serve EXCEPT ![c] = [pc |-> pc, lines |-> lines]]
    BY <2>2, <2>5
  <2> QED
    BY <2>3, <2>4, <2>5
<1> QED
  BY <1>1, <1>2

(* A client's count of lines changes.                                      *)
LEMMA TypedGoes ==
    ASSUME ScreenType, NEW c \in Clients,
           NEW total \in 0 .. MaxTyped, NEW queue \in 0 .. MaxTyped, queue <= total,
           typed' = [typed EXCEPT ![c] = [total |-> total, queue |-> queue]]
    PROVE  /\ typed' \in [Clients -> [total : 0 .. MaxTyped, queue : 0 .. MaxTyped]]
           /\ \A d \in Clients : typed'[d].queue <= typed'[d].total
<1>1. PICK r : r = [total |-> total, queue |-> queue]
  OBVIOUS
<1>2. r \in [total : 0 .. MaxTyped, queue : 0 .. MaxTyped] /\ r.queue <= r.total
  BY <1>1
<1>3. /\ typed \in [Clients -> [total : 0 .. MaxTyped, queue : 0 .. MaxTyped]]
      /\ \A d \in Clients : typed[d].queue <= typed[d].total
  BY DEF ScreenType, TypeOK, Below
<1>4. typed' = [typed EXCEPT ![c] = r]
  BY <1>1
<1>5. \A d \in Clients : typed'[d] = IF d = c THEN r ELSE typed[d]
  BY <1>3, <1>4
<1> QED
  BY <1>2, <1>3, <1>4, <1>5

(* The variables that the steps of one client change.                      *)
States == {"off", "decode", "attached", "stalled", "closed"}
ClientVarsType ==
    /\ inq \in Seq({"text", "stop"}) /\ Len(inq) <= InCap
    /\ reg \subseteq Clients
    /\ serve \in [Clients -> [pc : Steps, lines : Seq(Chunks)]]
    /\ conn \in [Clients -> Seq(Chunks)] /\ \A d \in Clients : Len(conn[d]) <= ConnCap
    /\ typed \in [Clients -> [total : 0 .. MaxTyped, queue : 0 .. MaxTyped]]
    /\ \A d \in Clients : typed[d].queue <= typed[d].total
    /\ client \in [Clients -> States]
    /\ got \in [Clients -> SUBSET Chunks]
restOfVars == <<alive, wants, made, outq, log, cnt, smu, reader, waiter, stops, mutex>>

(* They have their types.                                                  *)
LEMMA ClientVarsTyped == ScreenType => ClientVarsType
BY DEF ScreenType, TypeOK, Below, ClientVarsType, Steps, States

(* Nothing else has to be looked at.                                       *)
LEMMA ClientVarsOnly == ASSUME ScreenType, UNCHANGED restOfVars, ClientVarsType' PROVE ScreenType'
BY DEF ScreenType, TypeOK, Below, ClientVarsType, Steps, States, restOfVars

(* The goroutine of a client in the daemon.                                *)
LEMMA ServeType ==
    ASSUME ScreenType, ScreenInv, NEW c \in Clients,
           \/ HandleScreenConn(c) \/ Attach(c) \/ AttachSends(c) \/ ReadFromClient(c) \/ Unregister(c)
    PROVE  ScreenType'
<1>0. ClientVarsType /\ <<>> \in Seq(Chunks)
  BY ClientVarsTyped
<1> SUFFICES ClientVarsType' /\ UNCHANGED restOfVars
  BY ClientVarsOnly
<1>1. CASE HandleScreenConn(c)
  <2>1. serve' \in [Clients -> [pc : Steps, lines : Seq(Chunks)]]
    <3>1. serve' = [serve EXCEPT ![c].pc = "register"]
      BY <1>1 DEF HandleScreenConn
    <3> QED
      BY <1>0, <3>1, ServeGoes DEF Steps
  <2>2. client' \in [Clients -> States]
    BY <1>0, <1>1 DEF HandleScreenConn, ClientVarsType, States
  <2>3. UNCHANGED <<inq, reg, conn, typed, got>> /\ UNCHANGED restOfVars
    BY <1>1 DEF HandleScreenConn, process, daemon, restOfVars
  <2> QED
    BY <1>0, <2>1, <2>2, <2>3 DEF ClientVarsType
<1>2. CASE Attach(c)
  <2>1. serve' \in [Clients -> [pc : Steps, lines : Seq(Chunks)]]
    <3>1. CASE serve' = [serve EXCEPT ![c].pc = "snapshot"]
      BY <3>1, ServeGoes, SnapshotType DEF Steps
    <3>2. CASE serve' = [serve EXCEPT ![c] = [pc |-> "send", lines |-> Snapshot(log)]]
      BY <3>2, ServeGoes, SnapshotType DEF Steps
    <3> QED
      BY <1>2, <3>1, <3>2 DEF Attach
  <2>2. reg' \subseteq Clients
    BY <1>0, <1>2 DEF ClientVarsType, Attach
  <2>3. UNCHANGED <<inq, conn, typed, client, got>> /\ UNCHANGED restOfVars
    BY <1>2 DEF Attach, ServeOnly, process, daemon, users, restOfVars
  <2> QED
    BY <1>0, <2>1, <2>2, <2>3 DEF ClientVarsType
<1>3. CASE AttachSends(c)
  <2>1. serve[c].lines \in Seq(Chunks)
    BY DEF ScreenType, TypeOK
  <2>2. serve[c].lines # <<>> => Head(serve[c].lines) \in Chunks /\ Tail(serve[c].lines) \in Seq(Chunks)
    BY <2>1, HeadTailProperties
  <2>3. serve' \in [Clients -> [pc : Steps, lines : Seq(Chunks)]]
    <3>1. CASE serve[c].lines # <<>> /\ serve' = [serve EXCEPT ![c].lines = Tail(@)]
      BY <2>2, <3>1, ServeGoes DEF Steps
    <3>2. <<>> \in Seq(Chunks)
      OBVIOUS
    <3>3. CASE serve' = [serve EXCEPT ![c] = [pc |-> "end", lines |-> <<>>]]
      BY <3>2, <3>3, ServeGoes DEF Steps
    <3>4. CASE serve' = [serve EXCEPT ![c].pc = "read"]
      BY <3>2, <3>4, ServeGoes DEF Steps
    <3> QED
      BY <1>3, <3>1, <3>3, <3>4 DEF AttachSends
  <2>4. conn' \in [Clients -> Seq(Chunks)] /\ \A d \in Clients : Len(conn'[d]) <= ConnCap
    BY <1>3, <2>2, ConnType DEF ScreenType, TypeOK, AttachSends
  <2>5. UNCHANGED <<inq, reg, typed, client, got>> /\ UNCHANGED restOfVars
    BY <1>3 DEF AttachSends, ServeOnly, process, daemon, users, restOfVars
  <2> QED
    BY <1>0, <2>3, <2>4, <2>5 DEF ClientVarsType
<1>4. CASE ReadFromClient(c)
  <2>1. inq' \in Seq({"text", "stop"}) /\ Len(inq') <= InCap
    <3>1. inq \in Seq({"text", "stop"}) /\ Len(inq) \in Nat /\ Len(inq) <= InCap /\ InCap \in Nat
      BY BoundsOK DEF ScreenType, TypeOK
    <3>2. Append(inq, "text") \in Seq({"text", "stop"}) /\ Len(Append(inq, "text")) = Len(inq) + 1
      BY <3>1
    <3>3. inq' = inq \/ (Len(inq) < InCap /\ inq' = Append(inq, "text"))
      BY <1>4 DEF ReadFromClient
    <3> QED
      BY <3>1, <3>2, <3>3
  <2>2. /\ typed' \in [Clients -> [total : 0 .. MaxTyped, queue : 0 .. MaxTyped]]
        /\ \A d \in Clients : typed'[d].queue <= typed'[d].total
    <3>1. /\ typed[c] = [total |-> typed[c].total, queue |-> typed[c].queue]
          /\ typed[c].total \in 0 .. MaxTyped /\ typed[c].queue \in 0 .. MaxTyped /\ typed[c].queue <= typed[c].total
      BY DEF ScreenType, TypeOK, Below
    <3>2. PICK q : q = IF typed[c].queue > 0 THEN typed[c].queue - 1 ELSE 0
      OBVIOUS
    <3>3. q \in 0 .. MaxTyped /\ q <= typed[c].total
      BY <3>1, <3>2, BoundsOK
    <3>4. typed' = [typed EXCEPT ![c] = [total |-> typed[c].total, queue |-> q]]
      <4>1. typed' = [typed EXCEPT ![c].queue = q]
        BY <1>4, <3>2 DEF ReadFromClient
      <4>2. [typed[c] EXCEPT !.queue = q] = [total |-> typed[c].total, queue |-> q]
        BY <3>1
      <4> QED
        BY <4>1, <4>2
    <3> QED
      BY <3>1, <3>3, <3>4, TypedGoes
  <2>3. serve' \in [Clients -> [pc : Steps, lines : Seq(Chunks)]]
    <3>1. CASE serve' = serve
      BY <3>1 DEF ScreenType, TypeOK, Steps
    <3>2. <<>> \in Seq(Chunks)
      OBVIOUS
    <3>3. CASE serve' = [serve EXCEPT ![c].pc = "unregister"]
      BY <3>2, <3>3, ServeGoes DEF Steps
    <3> QED
      BY <1>4, <3>1, <3>3 DEF ReadFromClient
  <2>4. UNCHANGED <<reg, conn, client, got>> /\ UNCHANGED restOfVars
    BY <1>4 DEF ReadFromClient, ServeOnly, process, daemon, restOfVars
  <2> QED
    BY <1>0, <2>1, <2>2, <2>3, <2>4 DEF ClientVarsType
<1>5. CASE Unregister(c)
  <2>1. serve' \in [Clients -> [pc : Steps, lines : Seq(Chunks)]]
    <3>1. <<>> \in Seq(Chunks) /\ serve' = [serve EXCEPT ![c].pc = "end"]
      BY <1>5 DEF Unregister
    <3> QED
      BY <3>1, ServeGoes DEF Steps
  <2>2. reg' \subseteq Clients /\ client' \in [Clients -> States]
    BY <1>0, <1>5 DEF ClientVarsType, States, Unregister
  <2>3. UNCHANGED <<inq, conn, typed, got>> /\ UNCHANGED restOfVars
    BY <1>5 DEF Unregister, ServeOnly, process, daemon, restOfVars
  <2> QED
    BY <1>0, <2>1, <2>2, <2>3 DEF ClientVarsType
<1> QED
  BY <1>1, <1>2, <1>3, <1>4, <1>5

(* What a client takes from its connection, and what it leaves there.      *)
LEMMA Taken ==
    ASSUME NEW X, NEW s \in Seq(X), NEW n \in 0 .. Len(s)
    PROVE  /\ SubSeq(s, n + 1, Len(s)) \in Seq(X) /\ Len(SubSeq(s, n + 1, Len(s))) = Len(s) - n
           /\ Range(SubSeq(s, 1, n)) \subseteq X
           /\ Range(s) = Range(SubSeq(s, 1, n)) \cup Range(SubSeq(s, n + 1, Len(s)))
<1>1. PICK k \in Nat : k = Len(s)
  BY LenProperties
<1>2. n \in 0 .. k /\ DOMAIN s = 1 .. k /\ \A i \in 1 .. k : s[i] \in X
  BY <1>1, LenProperties, ElementOfSeq
<1>3. PICK a, b : a = SubSeq(s, 1, n) /\ b = SubSeq(s, n + 1, k)
  OBVIOUS
<1>4. a \in Seq(X) /\ DOMAIN a = 1 .. n /\ \A i \in 1 .. n : a[i] = s[i]
  BY <1>2, <1>3
<1>5. b \in Seq(X) /\ Len(b) = k - n /\ DOMAIN b = 1 .. k - n /\ \A i \in 1 .. k - n : b[i] = s[n + i]
  BY <1>2, <1>3
<1>6. ASSUME NEW y \in Range(s) PROVE y \in Range(a) \cup Range(b)
  <2>1. PICK i \in 1 .. k : y = s[i]
    BY <1>2 DEF Range
  <2>2. CASE i <= n
    BY <1>2, <1>4, <2>1, <2>2 DEF Range
  <2>3. CASE i > n
    <3>1. i - n \in 1 .. k - n /\ n + (i - n) = i
      BY <1>2, <2>3
    <3> QED
      BY <1>5, <2>1, <3>1 DEF Range
  <2> QED
    BY <1>2, <2>2, <2>3
<1>7. Range(a) \subseteq Range(s) /\ Range(b) \subseteq Range(s)
  <2>1. \A i \in 1 .. n : i \in 1 .. k
    BY <1>2
  <2>2. \A i \in 1 .. k - n : n + i \in 1 .. k
    BY <1>2
  <2>3. Range(a) \subseteq Range(s)
    BY <1>2, <1>4, <2>1 DEF Range
  <2>4. ASSUME NEW y \in Range(b) PROVE y \in Range(s)
    <3>1. PICK i \in 1 .. k - n : y = b[i]
      BY <1>5 DEF Range
    <3>2. n + i \in 1 .. k /\ y = s[n + i]
      BY <1>5, <2>2, <3>1
    <3> QED
      BY <1>2, <3>2 DEF Range
  <2> QED
    BY <2>3, <2>4
<1>8. Range(a) \subseteq X
  BY <1>2, <1>7 DEF Range
<1> QED
  BY <1>1, <1>3, <1>5, <1>6, <1>7, <1>8

(* The steps of a client process take from its connection only.            *)
LEMMA ClientType ==
    ASSUME ScreenType, NEW c \in Clients, Decode(c) \/ Show(c) \/ Type(c) \/ Stall(c) \/ Detach(c)
    PROVE  ScreenType'
<1>0. ClientVarsType
  BY ClientVarsTyped
<1> SUFFICES ClientVarsType' /\ UNCHANGED restOfVars
  BY ClientVarsOnly
<1>1. conn[c] \in Seq(Chunks) /\ Len(conn[c]) \in Nat /\ Len(conn[c]) <= ConnCap /\ ConnCap \in Nat
  BY BoundsOK, LenProperties DEF ScreenType, TypeOK
<1>2. CASE Decode(c)
  <2>1. PICK n \in 0 .. Len(conn[c]) :
            /\ conn' = [conn EXCEPT ![c] = SubSeq(@, n + 1, Len(@))]
            /\ got' = [got EXCEPT ![c] = @ \cup Range(SubSeq(conn[c], 1, n))]
    BY <1>2 DEF Decode
  <2>2. /\ SubSeq(conn[c], n + 1, Len(conn[c])) \in Seq(Chunks)
        /\ Len(SubSeq(conn[c], n + 1, Len(conn[c]))) = Len(conn[c]) - n
        /\ Range(SubSeq(conn[c], 1, n)) \subseteq Chunks
    BY <1>1, Taken
  <2>3. Len(conn[c]) - n <= ConnCap
    BY <1>1
  <2>4. conn' \in [Clients -> Seq(Chunks)] /\ (\A d \in Clients : Len(conn'[d]) <= ConnCap) /\ got' \in [Clients -> SUBSET Chunks]
    BY <1>0, <2>1, <2>2, <2>3 DEF ClientVarsType
  <2>5. client' \in [Clients -> States]
    BY <1>0, <1>2 DEF Decode, ClientVarsType, States
  <2>6. UNCHANGED <<inq, reg, serve, typed>> /\ UNCHANGED restOfVars
    BY <1>2 DEF Decode, ClientOnly, process, daemon, restOfVars
  <2> QED
    BY <1>0, <2>4, <2>5, <2>6 DEF ClientVarsType
<1>3. CASE Show(c)
  <2>1. Head(conn[c]) \in Chunks /\ Tail(conn[c]) \in Seq(Chunks) /\ Len(Tail(conn[c])) = Len(conn[c]) - 1
    BY <1>1, <1>3, HeadTailProperties DEF Show
  <2>2. Len(conn[c]) - 1 <= ConnCap
    BY <1>1
  <2>3. conn' \in [Clients -> Seq(Chunks)] /\ (\A d \in Clients : Len(conn'[d]) <= ConnCap) /\ got' \in [Clients -> SUBSET Chunks]
    BY <1>0, <1>3, <2>1, <2>2 DEF ClientVarsType, Show
  <2>4. UNCHANGED <<inq, reg, serve, typed, client>> /\ UNCHANGED restOfVars
    BY <1>3 DEF Show, ClientOnly, process, daemon, restOfVars
  <2> QED
    BY <1>0, <2>3, <2>4 DEF ClientVarsType
<1>4. CASE Type(c)
  <2>1. /\ typed' \in [Clients -> [total : 0 .. MaxTyped, queue : 0 .. MaxTyped]]
        /\ \A d \in Clients : typed'[d].queue <= typed'[d].total
    <3>1. /\ typed[c].total \in 0 .. MaxTyped /\ typed[c].queue \in 0 .. MaxTyped /\ typed[c].queue <= typed[c].total
          /\ typed[c].total < MaxTyped
      BY <1>4 DEF ScreenType, TypeOK, Below, Type
    <3>2. /\ typed[c].total + 1 \in 0 .. MaxTyped /\ typed[c].queue + 1 \in 0 .. MaxTyped
          /\ typed[c].queue + 1 <= typed[c].total + 1
      BY <3>1, BoundsOK
    <3>3. typed' = [typed EXCEPT ![c] = [total |-> typed[c].total + 1, queue |-> typed[c].queue + 1]]
      BY <1>4 DEF Type
    <3> QED
      BY <3>2, <3>3, TypedGoes
  <2>2. UNCHANGED <<inq, reg, serve, conn, client, got>> /\ UNCHANGED restOfVars
    BY <1>4 DEF Type, ClientOnly, process, daemon, restOfVars
  <2> QED
    BY <1>0, <2>1, <2>2 DEF ClientVarsType
<1>5. CASE Stall(c) \/ Detach(c)
  <2>1. client' \in [Clients -> States]
    <3>1. client' = [client EXCEPT ![c] = "stalled"] \/ client' = [client EXCEPT ![c] = "closed"]
      BY <1>5 DEF Stall, Detach
    <3> QED
      BY <1>0, <3>1 DEF ClientVarsType, States
  <2>2. UNCHANGED <<inq, reg, serve, conn, typed, got>> /\ UNCHANGED restOfVars
    BY <1>5 DEF Stall, Detach, ClientOnly, process, daemon, restOfVars
  <2> QED
    BY <1>0, <2>1, <2>2 DEF ClientVarsType
<1> QED
  BY <1>2, <1>3, <1>4, <1>5

(* A STOP writes to the terminal while there is room.                      *)
LEMMA StopType ==
    ASSUME ScreenType, StopLocks \/ StopWrites
    PROVE  ScreenType'
<1>1. CASE StopLocks
  <2>1. stops' \in 0 .. MaxStops
    BY <1>1, BoundsOK DEF ScreenType, TypeOK, StopLocks
  <2> QED
    BY <1>1, <2>1 DEF ScreenType, TypeOK, Below, StopLocks, process, daemon, users
<1>2. CASE StopWrites
  <2>1. inq' \in Seq({"text", "stop"}) /\ Len(inq') <= InCap
    <3>1. inq \in Seq({"text", "stop"}) /\ Len(inq) \in Nat /\ Len(inq) <= InCap /\ InCap \in Nat
      BY BoundsOK DEF ScreenType, TypeOK
    <3>2. Append(inq, "stop") \in Seq({"text", "stop"}) /\ Len(Append(inq, "stop")) = Len(inq) + 1
      BY <3>1
    <3>3. inq' = inq \/ (Len(inq) < InCap /\ inq' = Append(inq, "stop"))
      BY <1>2 DEF StopWrites
    <3> QED
      BY <3>1, <3>2, <3>3
  <2> QED
    BY <1>2, <2>1 DEF ScreenType, TypeOK, Below, StopWrites, process, daemon, users
<1> QED
  BY <1>1, <1>2

(* Every step keeps the types.                                             *)
LEMMA TypeStep == ASSUME ScreenType, ScreenInv, [Next]_vars PROVE ScreenType'
<1>1. ScreenInv'
  BY EveryStep
<1>2. CASE UNCHANGED vars
  BY <1>2 DEF ScreenType, TypeOK, Below, vars
<1>3. CASE WantsOutput \/ Output \/ Input \/ Exit \/ StopLocks \/ StopWrites
  BY <1>3, ProcessType, StopType
<1>4. CASE Read \/ Add \/ ReaderLocks \/ ReaderUnlocks \/ WaiterLocks \/ WaiterUnlocks \/ Wait
  BY <1>1, <1>4, ReaderType, LockType
<1>5. CASE \E c \in Clients : \/ ReaderSends(c) \/ WaiterSends(c) \/ Attach(c) \/ AttachSends(c)
                              \/ ReadFromClient(c) \/ Unregister(c) \/ HandleScreenConn(c)
  BY <1>5, SendType, ServeType
<1>6. CASE \E c \in Clients : Decode(c) \/ Show(c) \/ Type(c) \/ Stall(c) \/ Detach(c)
  BY <1>6, ClientType
<1> QED
  BY <1>2, <1>3, <1>4, <1>5, <1>6 DEF Next, Goroutines

(* Every queue of the screen session stays within its capacity, and every  *)
(* variable keeps its type.                                                *)
THEOREM TypeCorrect == Spec => []TypeOK
<1>1. Spec => []ScreenType
  BY InitType, TypeStep, Invariance, PTL DEF Spec
<1>2. ScreenType => TypeOK
  BY DEF ScreenType
<1> QED
  BY <1>1, <1>2, PTL

-----------------------------------------------------------------------------
(* NoGap.  Up to which chunk the broadcasts have reached a client.         *)
Upto(c) == IF reader.pc = "lock" \/ (reader.pc = "send" /\ c \in reader.todo) THEN cnt - 1 ELSE cnt

(* The log was copied when n chunks had been added, and was sent up to     *)
(* chunk m; the broadcasts to the client started after chunk b.            *)
Oldest(n) == IF n > Capacity THEN n - Capacity ELSE 0
Sending(c, b, m, n) ==
    /\ Oldest(n) <= m /\ m <= n /\ n <= cnt /\ b <= n /\ b <= Upto(c)
    /\ serve[c].lines = [i \in 1 .. n - m |-> m + i]
    /\ Sent(c) = (Oldest(n) + 1 .. m) \cup (b + 1 .. Upto(c))

(* Before the registration nothing was sent, and no broadcast is under     *)
(* way to the client; then the broadcasts alone; then those and the log.   *)
Fresh(c) == Sent(c) = {} /\ c \notin reg \cup reader.todo
Awaits(c) == c \in reg /\ \E b \in Int : b <= Upto(c) /\ Sent(c) = b + 1 .. Upto(c)
Attached(c) == c \in reg /\ \E b, m, n \in Int : Sending(c, b, m, n)
ClientInv(c) ==
    /\ client[c] = "off" => serve[c].pc = "off"
    /\ serve[c].pc \in {"off", "register"} => Fresh(c)
    /\ serve[c].pc = "snapshot" /\ client[c] # "closed" => Awaits(c)
    /\ serve[c].pc \in {"send", "read"} /\ client[c] # "closed" => Attached(c)
    /\ serve[c].pc = "read" => serve[c].lines = <<>>

(* What is broadcast is the newest chunk of the log.                       *)
ChunkInv == reader.pc \in {"lock", "send"} => reader.chunk = cnt /\ cnt > 0
AttachInv == ChunkInv /\ \A c \in Clients : ClientInv(c)

SessionInv == ScreenType /\ ScreenInv /\ AttachInv

-----------------------------------------------------------------------------
(* The broadcasts go on where they had got to.                             *)
LEMMA RunGrows ==
    ASSUME NEW b \in Int, NEW u \in Int, NEW v \in Int, b <= u, u <= v
    PROVE  (b + 1 .. u) \cup (u + 1 .. v) = b + 1 .. v
OBVIOUS

(* What is put on a connection adds to what was sent to its client.        *)
LEMMA SentAppend ==
    ASSUME ScreenType, NEW c \in Clients, NEW x \in Chunks,
           conn' = [conn EXCEPT ![c] = Append(@, x)], UNCHANGED got
    PROVE  /\ Sent(c)' = Sent(c) \cup ({x} \ {0})
           /\ \A d \in Clients \ {c} : Sent(d)' = Sent(d)
<1>1. conn \in [Clients -> Seq(Chunks)] /\ conn[c] \in Seq(Chunks)
  BY DEF ScreenType, TypeOK
<1>2. \A d \in Clients : conn'[d] = IF d = c THEN Append(conn[c], x) ELSE conn[d]
  BY <1>1
<1>3. Range(Append(conn[c], x)) = Range(conn[c]) \cup {x}
  <2>1. PICK s, t : s \in Seq(Chunks) /\ s = conn[c] /\ t = Append(s, x)
    BY <1>1
  <2>2. PICK k \in Nat : k = Len(s)
    BY <2>1, LenProperties
  <2>3. /\ DOMAIN s = 1 .. k /\ DOMAIN t = 1 .. k + 1
        /\ \A i \in 1 .. k : t[i] = s[i]
        /\ t[k + 1] = x
    BY <2>1, <2>2, AppendProperties, LenProperties
  <2>4. 1 .. k + 1 = (1 .. k) \cup {k + 1}
    OBVIOUS
  <2>5. ASSUME NEW y \in Range(t) PROVE y \in Range(s) \cup {x}
    <3>1. PICK i \in 1 .. k + 1 : y = t[i]
      BY <2>3 DEF Range
    <3> QED
      BY <2>3, <2>4, <3>1 DEF Range
  <2>6. ASSUME NEW y \in Range(s) \cup {x} PROVE y \in Range(t)
    <3>1. CASE y = x
      BY <2>3, <2>4, <3>1 DEF Range
    <3>2. CASE y \in Range(s)
      <4>1. PICK i \in 1 .. k : y = s[i]
        BY <2>3, <3>2 DEF Range
      <4> QED
        BY <2>3, <2>4, <4>1 DEF Range
    <3> QED
      BY <2>6, <3>1, <3>2
  <2> QED
    BY <2>1, <2>5, <2>6
<1> QED
  BY <1>2, <1>3 DEF Sent

Grows(c) == /\ Upto(c) <= Upto(c)'
            /\ Sent(c)' = Sent(c) \cup (Upto(c) + 1 .. Upto(c)')

(* A step that leaves the goroutine of the client where it is, and sends   *)
(* the client nothing but the next broadcasts, keeps its part of the       *)
(* invariant.                                                              *)
LEMMA ClientKept ==
    ASSUME NEW c \in Clients, cnt \in Nat, cnt' \in Nat, cnt <= cnt', ClientInv(c),
           serve'[c] = serve[c],
           client'[c] = "off" => client[c] = "off",
           client'[c] # "closed" => client[c] # "closed",
           Fresh(c) => Fresh(c)',
           client'[c] # "closed" /\ c \in reg => c \in reg' /\ Grows(c)
    PROVE  ClientInv(c)'
<1>1. Upto(c) \in Int /\ Upto(c)' \in Int
  BY DEF Upto
<1>2. ASSUME client'[c] # "closed", Awaits(c) PROVE Awaits(c)'
  <2>1. PICK b \in Int : b <= Upto(c) /\ Sent(c) = b + 1 .. Upto(c)
    BY <1>2 DEF Awaits
  <2>2. c \in reg' /\ Grows(c)
    BY <1>2 DEF Awaits
  <2>3. b <= Upto(c)' /\ Sent(c)' = b + 1 .. Upto(c)'
    BY <1>1, <2>1, <2>2, RunGrows DEF Grows
  <2> QED
    BY <2>2, <2>3 DEF Awaits
<1>3. ASSUME client'[c] # "closed", Attached(c) PROVE Attached(c)'
  <2>1. PICK b \in Int, m \in Int, n \in Int : Sending(c, b, m, n)
    BY <1>3 DEF Attached
  <2>2. c \in reg' /\ Grows(c)
    BY <1>3 DEF Attached
  <2>3. b <= Upto(c)' /\ n <= cnt'
    BY <1>1, <2>1, <2>2 DEF Grows, Sending
  <2>4. Sent(c)' = (Oldest(n) + 1 .. m) \cup (b + 1 .. Upto(c)')
    <3>1. (b + 1 .. Upto(c)) \cup (Upto(c) + 1 .. Upto(c)') = b + 1 .. Upto(c)'
      BY <1>1, <2>1, <2>2, RunGrows DEF Grows, Sending
    <3>2. Sent(c) = (Oldest(n) + 1 .. m) \cup (b + 1 .. Upto(c))
      BY <2>1 DEF Sending
    <3>3. Sent(c)' = Sent(c) \cup (Upto(c) + 1 .. Upto(c)')
      BY <2>2 DEF Grows
    <3> QED
      BY <3>1, <3>2, <3>3, Zenon
  <2>5. Sending(c, b, m, n)'
    BY <2>1, <2>3, <2>4 DEF Sending, Oldest
  <2> QED
    BY <2>2, <2>5 DEF Attached
<1> QED
  BY <1>2, <1>3, Zenon DEF ClientInv

(* In particular a step that sends it nothing.                             *)
LEMMA ClientUnmoved ==
    ASSUME NEW c \in Clients, cnt \in Nat, cnt' \in Nat, cnt <= cnt', ClientInv(c),
           serve'[c] = serve[c],
           client'[c] = "off" => client[c] = "off",
           client'[c] # "closed" => client[c] # "closed",
           Sent(c)' = Sent(c),
           c \notin reg \cup reader.todo => c \notin reg' \cup reader'.todo,
           client'[c] # "closed" /\ c \in reg => c \in reg' /\ Upto(c)' = Upto(c)
    PROVE  ClientInv(c)'
<1>1. Fresh(c) => Fresh(c)'
  BY DEF Fresh
<1>2. Upto(c) \in Int
  BY DEF Upto
<1>3. Upto(c)' = Upto(c) => Grows(c)
  <2>1. Upto(c) + 1 .. Upto(c) = {}
    BY <1>2
  <2> QED
    BY <1>2, <2>1 DEF Grows
<1> QED
  BY <1>1, <1>3, ClientKept

(* A step of the rest of the system.                                       *)
LEMMA AttachOther ==
    ASSUME SessionInv, UNCHANGED <<cnt, reader, reg, serve, conn, client, got>>
    PROVE  AttachInv'
<1>1. cnt \in Nat /\ ChunkInv'
  BY DEF SessionInv, ScreenInv, RingInv, AttachInv, ChunkInv
<1>2. ASSUME NEW c \in Clients PROVE ClientInv(c)'
  <2>1. Sent(c)' = Sent(c) /\ Upto(c)' = Upto(c) /\ ClientInv(c)
    BY DEF Sent, Upto, SessionInv, AttachInv
  <2> QED
    BY <1>1, <2>1, ClientUnmoved
<1> QED
  BY <1>1, <1>2 DEF AttachInv

(* The reader makes the chunk it adds to the log the next to be broadcast, *)
(* to the clients that are registered when it takes the mutex.             *)
LEMMA AttachReader ==
    ASSUME SessionInv, ScreenInv', Read \/ Add \/ ReaderLocks \/ ReaderUnlocks
    PROVE  AttachInv'
<1>1. /\ cnt \in Nat /\ cnt' \in Nat /\ cnt <= cnt'
      /\ UNCHANGED <<reg, serve, conn, client, got>>
      /\ reader = [pc |-> reader.pc, chunk |-> reader.chunk, todo |-> reader.todo]
  <2>1. cnt \in Nat /\ reader = [pc |-> reader.pc, chunk |-> reader.chunk, todo |-> reader.todo]
    BY DEF SessionInv, ScreenInv, RingInv, OrderInv
  <2> QED
    BY <2>1 DEF Read, Add, ReaderLocks, ReaderUnlocks, users
<1>2. \/ reader.pc = "read" /\ reader'.pc \in {"add", "end"} /\ reader'.todo = reader.todo /\ cnt' = cnt
      \/ /\ reader.pc = "add" /\ reader'.pc = "lock" /\ reader'.todo = reader.todo
         /\ cnt' = cnt + 1 /\ reader'.chunk = reader.chunk
      \/ /\ reader.pc = "lock" /\ reader'.pc = "send" /\ reader'.todo = reg
         /\ cnt' = cnt /\ reader'.chunk = reader.chunk
      \/ /\ reader.pc = "send" /\ reader'.pc = "read" /\ reader.todo = {} /\ reader'.todo = {}
         /\ cnt' = cnt
  <2>1. CASE Read
    BY <1>1, <2>1 DEF Read
  <2>2. CASE Add
    BY <1>1, <2>2 DEF Add
  <2>3. CASE ReaderLocks
    BY <1>1, <2>3 DEF ReaderLocks
  <2>4. CASE ReaderUnlocks
    BY <1>1, <2>4 DEF ReaderUnlocks
  <2> QED
    BY <2>1, <2>2, <2>3, <2>4
<1>3. ChunkInv'
  <2>1. ChunkInv /\ (reader.pc = "add" => reader.chunk = cnt + 1)
    BY DEF SessionInv, AttachInv, ScreenInv, OrderInv
  <2> QED
    BY <1>2, <1>1, <2>1 DEF ChunkInv
<1>4. ASSUME NEW c \in Clients PROVE ClientInv(c)'
  <2>1. Sent(c)' = Sent(c) /\ ClientInv(c)
    BY <1>1 DEF Sent, SessionInv, AttachInv
  <2>2. c \notin reg \cup reader.todo => c \notin reg' \cup reader'.todo
    BY <1>2, <1>1
  <2>3. c \in reg => Upto(c)' = Upto(c)
    BY <1>2, <1>1 DEF Upto
  <2> QED
    BY <1>1, <2>1, <2>2, <2>3, ClientUnmoved
<1> QED
  BY <1>3, <1>4 DEF AttachInv

(* A client drops out of the broadcasts only when it is closed.            *)
LEMMA AttachReaderSends ==
    ASSUME SessionInv, NEW c \in Clients, ReaderSends(c)
    PROVE  AttachInv'
<1>1. /\ cnt \in Nat /\ UNCHANGED <<cnt, serve, client, got>>
      /\ reader.pc = "send" /\ reader'.pc = "send" /\ reader'.chunk = reader.chunk
      /\ c \in reader.todo /\ reader'.todo = reader.todo \ {c}
      /\ reader.chunk = cnt /\ cnt > 0 /\ Deliver(c, cnt)
  <2>1. cnt \in Nat /\ reader = [pc |-> reader.pc, chunk |-> reader.chunk, todo |-> reader.todo] /\ ChunkInv
    BY DEF SessionInv, ScreenInv, RingInv, OrderInv, AttachInv
  <2> QED
    BY <2>1 DEF ReaderSends, users, ChunkInv
<1>2. ChunkInv'
  BY <1>1 DEF ChunkInv
<1>3. cnt \in Chunks /\ ScreenType /\ \A d \in Clients : ClientInv(d)
  BY DEF SessionInv, ScreenType, TypeOK, AttachInv
<1>4. \/ client[c] # "closed" /\ conn' = [conn EXCEPT ![c] = Append(@, cnt)] /\ reg' = reg
      \/ client[c] = "closed" /\ reg' = reg \ {c} /\ conn' = conn
  BY <1>1 DEF Deliver
<1>5. ASSUME NEW d \in Clients \ {c} PROVE ClientInv(d)'
  <2>1. Sent(d)' = Sent(d)
    <3>1. CASE conn' = [conn EXCEPT ![c] = Append(@, cnt)]
      BY <1>1, <1>3, <3>1, SentAppend
    <3>2. CASE conn' = conn
      BY <1>1, <3>2 DEF Sent
    <3> QED
      BY <1>4, <3>1, <3>2
  <2>2. /\ Upto(d)' = Upto(d) /\ (d \in reg => d \in reg')
        /\ d \notin reg \cup reader.todo => d \notin reg' \cup reader'.todo
    BY <1>1, <1>4 DEF Upto
  <2> QED
    BY <1>1, <1>3, <2>1, <2>2, ClientUnmoved
<1>6. ClientInv(c)'
  <2>1. ~Fresh(c)
    BY <1>1 DEF Fresh
  <2>2. ASSUME client'[c] # "closed", c \in reg PROVE c \in reg' /\ Grows(c)
    <3>1. conn' = [conn EXCEPT ![c] = Append(@, cnt)] /\ reg' = reg
      BY <1>1, <1>4, <2>2
    <3>2. Sent(c)' = Sent(c) \cup ({cnt} \ {0})
      BY <1>1, <1>3, <3>1, SentAppend
    <3>3. Upto(c) = cnt - 1 /\ Upto(c)' = cnt
      BY <1>1 DEF Upto
    <3>4. {cnt} \ {0} = cnt - 1 + 1 .. cnt /\ cnt - 1 <= cnt
      BY <1>1
    <3> QED
      BY <2>2, <3>1, <3>2, <3>3, <3>4 DEF Grows
  <2> QED
    BY <1>1, <1>3, <2>1, <2>2, ClientKept
<1> QED
  BY <1>2, <1>5, <1>6 DEF AttachInv

(* The exit notice is none of the chunks.                                  *)
LEMMA NoticeIsNoChunk ==
    ASSUME ScreenType, NEW c \in Clients, WaiterSends(c)
    PROVE  \A d \in Clients : Sent(d)' = Sent(d)
<1>1. Deliver(c, 0) /\ UNCHANGED got
  BY DEF WaiterSends, users
<1>2. CASE conn' = [conn EXCEPT ![c] = Append(@, 0)]
  <2>1. 0 \in Chunks
    BY BoundsOK DEF Chunks
  <2>2. Sent(c)' = Sent(c) \cup ({0} \ {0}) /\ \A e \in Clients \ {c} : Sent(e)' = Sent(e)
    BY <1>1, <1>2, <2>1, SentAppend
  <2>3. {0} \ {0} = {}
    OBVIOUS
  <2> QED
    BY <2>2, <2>3
<1>3. CASE conn' = conn
  BY <1>1, <1>3 DEF Sent
<1> QED
  BY <1>1, <1>2, <1>3 DEF Deliver

(* So it adds nothing to what a client was sent.                           *)
LEMMA AttachWaiterSends ==
    ASSUME SessionInv, NEW c \in Clients, WaiterSends(c)
    PROVE  AttachInv'
<1>1. cnt \in Nat /\ UNCHANGED <<cnt, reader, serve, client, got>> /\ Deliver(c, 0) /\ ScreenType
  BY DEF SessionInv, ScreenInv, RingInv, WaiterSends, daemon, users
<1>2. ChunkInv' /\ \A d \in Clients : ClientInv(d)
  BY <1>1 DEF SessionInv, AttachInv, ChunkInv
<1>3. ASSUME NEW d \in Clients PROVE ClientInv(d)'
  <2>1. Sent(d)' = Sent(d)
    BY <1>1, NoticeIsNoChunk
  <2>2. /\ Upto(d)' = Upto(d) /\ (client'[d] # "closed" /\ d \in reg => d \in reg')
        /\ d \notin reg \cup reader.todo => d \notin reg' \cup reader'.todo
    BY <1>1 DEF Upto, Deliver
  <2> QED
    BY <1>1, <1>2, <2>1, <2>2, ClientUnmoved
<1> QED
  BY <1>2, <1>3 DEF AttachInv

(* The goroutine of a client starts, and registers it: nothing was sent.   *)
LEMMA AttachRegisters ==
    ASSUME SessionInv, NEW c \in Clients,
           \/ HandleScreenConn(c)
           \/ Attach(c) /\ serve[c].pc = "register"
    PROVE  AttachInv'
<1>1. /\ cnt \in Nat /\ UNCHANGED <<cnt, reader, conn, got>> /\ ScreenType
      /\ serve \in [Clients -> [pc : Steps, lines : Seq(Chunks)]]
  BY DEF SessionInv, ScreenInv, RingInv, ScreenType, TypeOK, Steps, HandleScreenConn, Attach, ServeOnly, daemon, users
<1>2. ChunkInv' /\ \A d \in Clients : ClientInv(d) /\ Sent(d)' = Sent(d) /\ Upto(d)' = Upto(d)
  BY <1>1 DEF SessionInv, AttachInv, ChunkInv, Sent, Upto
<1>3. ASSUME NEW d \in Clients \ {c} PROVE ClientInv(d)'
  <2>1. serve'[d] = serve[d] /\ client'[d] = client[d] /\ (d \in reg' <=> d \in reg)
    BY <1>1 DEF HandleScreenConn, Attach, ScreenType, TypeOK, users
  <2> QED
    BY <1>1, <1>2, <2>1, ClientUnmoved
<1>4. CASE HandleScreenConn(c)
  <2>1. serve'[c].pc = "register" /\ client'[c] = "decode" /\ reg' = reg /\ client[c] = "off"
    BY <1>1, <1>4 DEF HandleScreenConn, ScreenType, TypeOK
  <2>2. Fresh(c)
    BY <1>2, <2>1 DEF ClientInv
  <2>3. ClientInv(c)'
    BY <1>1, <1>2, <2>1, <2>2 DEF ClientInv, Fresh
  <2> QED
    BY <1>2, <1>3, <2>3 DEF AttachInv
<1>5. CASE Attach(c) /\ serve[c].pc = "register"
  <2>1. serve'[c].pc = "snapshot" /\ client'[c] = client[c] /\ c \in reg'
    BY <1>1, <1>5 DEF Attach, Serves, users
  <2>2. Sent(c) = {} /\ client[c] # "off"
    BY <1>2, <1>5 DEF ClientInv, Fresh
  <2>3. Upto(c) \in Int /\ Upto(c) + 1 .. Upto(c) = {}
    BY <1>1 DEF Upto
  <2>4. Awaits(c)'
    <3>1. Sent(c)' = {} /\ Upto(c)' = Upto(c)
      BY <1>2, <2>2
    <3>2. PICK b : b = Upto(c)
      OBVIOUS
    <3>3. b \in Int /\ b <= b /\ b + 1 .. b = {}
      BY <2>3, <3>2
    <3>4. b \in Int /\ b <= Upto(c)' /\ Sent(c)' = b + 1 .. Upto(c)'
      BY <3>1, <3>2, <3>3, Zenon
    <3> QED
      BY <2>1, <3>4, Zenon DEF Awaits
  <2>5. ClientInv(c)'
    BY <2>1, <2>2, <2>4 DEF ClientInv
  <2> QED
    BY <1>2, <1>3, <2>5 DEF AttachInv
<1> QED
  BY <1>4, <1>5

(* It copies the log, which ends with the newest chunk.                    *)
LEMMA AttachCopies ==
    ASSUME SessionInv, NEW c \in Clients, Attach(c), serve[c].pc = "snapshot"
    PROVE  AttachInv'
<1>1. /\ cnt \in Nat /\ UNCHANGED <<cnt, reader, reg, conn, got, client>> /\ ScreenType /\ RingInv
      /\ serve \in [Clients -> [pc : Steps, lines : Seq(Chunks)]]
      /\ serve' = [serve EXCEPT ![c] = [pc |-> "send", lines |-> Snapshot(log)]]
  BY DEF SessionInv, ScreenInv, RingInv, ScreenType, TypeOK, Steps, Attach, Serves, ServeOnly, daemon, users
<1>2. ChunkInv' /\ \A d \in Clients : ClientInv(d) /\ Sent(d)' = Sent(d) /\ Upto(d)' = Upto(d)
  BY <1>1 DEF SessionInv, AttachInv, ChunkInv, Sent, Upto
<1>3. ASSUME NEW d \in Clients \ {c} PROVE ClientInv(d)'
  <2>1. serve'[d] = serve[d]
    BY <1>1
  <2> QED
    BY <1>1, <1>2, <2>1, ClientUnmoved
<1>4. serve'[c].pc = "send" /\ serve'[c].lines = Snapshot(log) /\ client[c] # "off"
  BY <1>1, <1>2 DEF ClientInv
<1>5. ASSUME client[c] # "closed" PROVE Attached(c)'
  <2>1. Awaits(c)
    BY <1>2, <1>5 DEF ClientInv
  <2>2. PICK b \in Int : b <= Upto(c) /\ Sent(c) = b + 1 .. Upto(c)
    BY <2>1 DEF Awaits
  <2>3. Upto(c) <= cnt
    BY <1>1 DEF Upto
  <2>4. PICK o \in Int, n \in Int : n = cnt /\ o = Oldest(n) /\ o <= n
    <3>1. cnt \in Int /\ Oldest(cnt) \in Int /\ Oldest(cnt) <= cnt
      BY <1>1, CapacityOK DEF Oldest
    <3> QED
      BY <3>1, Zenon
  <2>5. Snapshot(log) = [i \in 1 .. n - o |-> o + i]
    BY <1>1, <2>4, SnapshotOfRing DEF SnapshotIsTail, Oldest
  <2>6. Sent(c)' = (o + 1 .. o) \cup (b + 1 .. Upto(c)')
    <3>1. o + 1 .. o = {}
      BY <2>4
    <3> QED
      BY <1>2, <2>2, <3>1
  <2>7. b <= n /\ n <= cnt' /\ b <= Upto(c)'
    BY <1>1, <1>2, <2>2, <2>3, <2>4 DEF Upto
  <2>8. Sending(c, b, o, n)'
    <3>1. Oldest(n)' = o /\ serve'[c].lines = [i \in 1 .. n - o |-> o + i]
      BY <1>4, <2>4, <2>5 DEF Oldest
    <3> QED
      BY <2>4, <2>6, <2>7, <3>1 DEF Sending, Oldest
  <2> QED
    BY <1>1, <2>1, <2>8 DEF Attached, Awaits
<1>6. ClientInv(c)'
  BY <1>1, <1>4, <1>5 DEF ClientInv
<1> QED
  BY <1>2, <1>3, <1>6 DEF AttachInv

(* A sequence without its head.                                            *)
LEMMA TailAt ==
    ASSUME NEW X, NEW s \in Seq(X), s # <<>>
    PROVE  /\ Tail(s) \in Seq(X) /\ Len(Tail(s)) = Len(s) - 1
           /\ \A i \in 1 .. Len(s) - 1 : Tail(s)[i] = s[i + 1]
BY EmptySeq, LenProperties, HeadTailProperties

(* The log without its next line.                                          *)
LEMMA RunTail ==
    ASSUME NEW m \in Int, NEW n \in Int, NEW s, m <= n, s = [i \in 1 .. n - m |-> m + i], s # <<>>
    PROVE  m < n /\ Head(s) = m + 1 /\ Tail(s) = [i \in 1 .. n - (m + 1) |-> m + 1 + i]
<1>1. PICK k \in Nat : k = n - m
  OBVIOUS
<1>2. s \in Seq(Int) /\ Len(s) = k /\ \A i \in 1 .. k : s[i] = m + i
  BY <1>1
<1>3. k > 0
  BY <1>2, EmptySeq
<1>4. Head(s) = m + 1
  BY <1>2, <1>3
<1>5. PICK t : t = Tail(s)
  OBVIOUS
<1>6. t \in Seq(Int) /\ Len(t) = k - 1 /\ \A i \in 1 .. k - 1 : t[i] = s[i + 1]
  BY <1>2, <1>5, TailAt
<1>7. t = [i \in 1 .. k - 1 |-> m + 1 + i]
  <2>1. \A i \in 1 .. k - 1 : i + 1 \in 1 .. k /\ m + (i + 1) = m + 1 + i
    BY <1>3
  <2>2. ASSUME NEW i \in 1 .. k - 1 PROVE t[i] = m + 1 + i
    <3>1. i + 1 \in 1 .. k /\ t[i] = s[i + 1] /\ m + (i + 1) = m + 1 + i
      BY <1>6, <2>1
    <3> QED
      BY <1>2, <3>1
  <2>3. DOMAIN t = 1 .. k - 1 /\ t = [i \in DOMAIN t |-> t[i]]
    BY <1>6
  <2> QED
    BY <2>2, <2>3
<1>8. k - 1 = n - (m + 1)
  BY <1>1
<1> QED
  BY <1>1, <1>3, <1>4, <1>5, <1>7, <1>8

(* What is shown and what is still on the connection.                      *)
LEMMA RangeTail ==
    ASSUME NEW X, NEW s \in Seq(X), s # <<>>
    PROVE  Range(s) = {Head(s)} \cup Range(Tail(s))
<1>1. PICK k, t : k \in Nat /\ k = Len(s) /\ t = Tail(s)
  BY LenProperties
<1>2. /\ k > 0 /\ DOMAIN s = 1 .. k /\ DOMAIN t = 1 .. k - 1 /\ Head(s) = s[1]
      /\ \A i \in 1 .. k - 1 : t[i] = s[i + 1]
  BY <1>1, EmptySeq, LenProperties, HeadTailProperties
<1>3. ASSUME NEW y \in Range(s) PROVE y \in {s[1]} \cup Range(t)
  <2>1. PICK i \in 1 .. k : y = s[i]
    BY <1>2 DEF Range
  <2>2. CASE i # 1
    <3>1. i - 1 \in 1 .. k - 1 /\ i - 1 + 1 = i
      BY <1>1, <2>2
    <3> QED
      BY <1>2, <2>1, <3>1 DEF Range
  <2> QED
    BY <2>1, <2>2
<1>4. ASSUME NEW y \in {s[1]} \cup Range(t) PROVE y \in Range(s)
  <2>1. 1 \in 1 .. k /\ \A i \in 1 .. k - 1 : i + 1 \in 1 .. k
    BY <1>1, <1>2
  <2> QED
    BY <1>2, <1>4, <2>1 DEF Range
<1> QED
  BY <1>1, <1>2, <1>3, <1>4

(* It sends the next line of the log, gives up on a closed client, or has  *)
(* sent them all.                                                          *)
LEMMA AttachSendsLine ==
    ASSUME SessionInv, NEW c \in Clients, AttachSends(c)
    PROVE  AttachInv'
<1>1. /\ cnt \in Nat /\ UNCHANGED <<cnt, reader, reg, got, client>> /\ ScreenType /\ serve[c].pc = "send"
      /\ serve \in [Clients -> [pc : Steps, lines : Seq(Chunks)]]
  BY DEF SessionInv, ScreenInv, RingInv, ScreenType, TypeOK, Steps, AttachSends, Serves, ServeOnly, daemon, users
<1>2. ChunkInv' /\ \A d \in Clients : ClientInv(d) /\ Upto(d)' = Upto(d)
  BY <1>1 DEF SessionInv, AttachInv, ChunkInv, Upto
<1>3. serve[c].lines \in Seq(Chunks) /\ client[c] # "off"
  BY <1>1, <1>2 DEF ClientInv
<1>4. serve[c].lines # <<>> => Head(serve[c].lines) \in Chunks /\ Tail(serve[c].lines) \in Seq(Chunks)
  BY <1>3, HeadTailProperties
<1>5. \A d \in Clients \ {c} : serve'[d] = serve[d] /\ Sent(d)' = Sent(d)
  <2>1. CASE conn' = [conn EXCEPT ![c] = Append(@, Head(serve[c].lines))] /\ serve[c].lines # <<>>
    BY <1>1, <1>4, <2>1, SentAppend DEF AttachSends
  <2>2. CASE conn' = conn
    BY <1>1, <2>2 DEF AttachSends, Sent
  <2> QED
    BY <2>1, <2>2 DEF AttachSends
<1>6. ASSUME NEW d \in Clients \ {c} PROVE ClientInv(d)'
  BY <1>1, <1>2, <1>5, ClientUnmoved
<1>7. CASE /\ serve[c].lines # <<>> /\ client[c] # "closed"
           /\ conn' = [conn EXCEPT ![c] = Append(@, Head(serve[c].lines))]
           /\ serve' = [serve EXCEPT ![c].lines = Tail(@)]
  <2>1. serve'[c].pc = "send" /\ serve'[c].lines = Tail(serve[c].lines)
    BY <1>1, <1>7
  <2>2. Attached(c)
    BY <1>1, <1>2, <1>7 DEF ClientInv
  <2>3. PICK b \in Int, m \in Int, n \in Int : Sending(c, b, m, n)
    BY <2>2 DEF Attached
  <2>4. Oldest(n) \in Nat /\ Oldest(n) <= m /\ m <= n
    BY <2>3, CapacityOK DEF Sending, Oldest
  <2>5. m < n /\ Head(serve[c].lines) = m + 1 /\ Tail(serve[c].lines) = [i \in 1 .. n - (m + 1) |-> m + 1 + i]
    BY <1>7, <2>3, <2>4, RunTail DEF Sending
  <2>6. Sent(c)' = (Oldest(n) + 1 .. m + 1) \cup (b + 1 .. Upto(c)')
    <3>1. Sent(c)' = Sent(c) \cup ({m + 1} \ {0})
      BY <1>1, <1>4, <1>7, <2>5, SentAppend
    <3>2. (Oldest(n) + 1 .. m) \cup ({m + 1} \ {0}) = Oldest(n) + 1 .. m + 1
      BY <2>4
    <3>3. Sent(c) = (Oldest(n) + 1 .. m) \cup (b + 1 .. Upto(c)')
      BY <1>2, <2>3 DEF Sending
    <3> QED
      BY <3>1, <3>2, <3>3, Zenon
  <2>7. Sending(c, b, m + 1, n)'
    <3>1. n <= cnt' /\ b <= n /\ b <= Upto(c)'
      BY <1>1, <1>2, <2>3 DEF Sending
    <3>2. serve'[c].lines = [i \in 1 .. n - (m + 1) |-> m + 1 + i]
      BY <2>1, <2>5
    <3>3. Oldest(n) <= m + 1 /\ m + 1 <= n
      BY <2>4, <2>5
    <3>4. Oldest(n)' = Oldest(n)
      BY DEF Oldest
    <3> QED
      BY <2>6, <3>1, <3>2, <3>3, <3>4, Zenon DEF Sending
  <2>8. Attached(c)'
    <3>1. m + 1 \in Int /\ c \in reg'
      BY <1>1, <2>2 DEF Attached
    <3> QED
      BY <2>7, <3>1 DEF Attached
  <2>9. ClientInv(c)'
    BY <1>1, <1>3, <2>1, <2>8 DEF ClientInv
  <2> QED
    BY <1>2, <1>6, <2>9 DEF AttachInv
<1>8. CASE client[c] = "closed" /\ serve' = [serve EXCEPT ![c] = [pc |-> "end", lines |-> <<>>]]
  <2>1. serve'[c].pc = "end" /\ client'[c] = "closed"
    BY <1>1, <1>8
  <2>2. ClientInv(c)'
    BY <2>1 DEF ClientInv
  <2> QED
    BY <1>2, <1>6, <2>2 DEF AttachInv
<1>9. CASE serve[c].lines = <<>> /\ serve' = [serve EXCEPT ![c].pc = "read"] /\ UNCHANGED conn
  <2>1. serve'[c].pc = "read" /\ serve'[c].lines = serve[c].lines /\ Sent(c)' = Sent(c)
    BY <1>1, <1>9 DEF Sent
  <2>2. ASSUME client[c] # "closed" PROVE Attached(c)'
    <3>1. Attached(c)
      BY <1>1, <1>2, <2>2 DEF ClientInv
    <3>2. PICK b \in Int, m \in Int, n \in Int : Sending(c, b, m, n)
      BY <3>1 DEF Attached
    <3>3. Sending(c, b, m, n)'
      BY <1>1, <1>2, <2>1, <3>2 DEF Sending, Oldest
    <3> QED
      BY <1>1, <3>1, <3>3 DEF Attached
  <2>3. ClientInv(c)'
    BY <1>1, <1>3, <1>9, <2>1, <2>2 DEF ClientInv
  <2> QED
    BY <1>2, <1>6, <2>3 DEF AttachInv
<1> QED
  BY <1>7, <1>8, <1>9 DEF AttachSends

(* A client that types ahead, leaves or has left keeps what it was sent.   *)
LEMMA AttachEnds ==
    ASSUME SessionInv, NEW c \in Clients, ReadFromClient(c) \/ Unregister(c) \/ Stall(c) \/ Detach(c)
    PROVE  AttachInv'
<1>1. /\ cnt \in Nat /\ UNCHANGED <<cnt, reader, conn, got>>
      /\ serve \in [Clients -> [pc : Steps, lines : Seq(Chunks)]]
      /\ client \in [Clients -> {"off", "decode", "attached", "stalled", "closed"}]
  BY DEF SessionInv, ScreenInv, RingInv, ScreenType, TypeOK, Steps, ReadFromClient, Unregister, Stall, Detach,
         ServeOnly, ClientOnly, daemon
<1>2. ChunkInv' /\ \A d \in Clients : ClientInv(d) /\ Sent(d)' = Sent(d) /\ Upto(d)' = Upto(d)
  BY <1>1 DEF SessionInv, AttachInv, ChunkInv, Sent, Upto
<1>3. ASSUME NEW d \in Clients \ {c} PROVE ClientInv(d)'
  <2>1. serve'[d] = serve[d] /\ client'[d] = client[d] /\ (d \in reg' <=> d \in reg)
    BY <1>1 DEF ReadFromClient, Unregister, Stall, Detach, ClientOnly
  <2> QED
    BY <1>1, <1>2, <2>1, ClientUnmoved
<1>4. CASE ReadFromClient(c) \/ Unregister(c)
  <2>1. serve[c].pc \in {"read", "unregister"} /\ (serve'[c] = serve[c] \/ serve'[c].pc \in {"unregister", "end"})
    BY <1>1, <1>4 DEF ReadFromClient, Unregister, Serves
  <2>2. (client'[c] = client[c] /\ reg' = reg) \/ (client'[c] = "closed" /\ serve'[c].pc = "end")
    BY <1>1, <1>4 DEF ReadFromClient, Unregister
  <2>3. ASSUME serve'[c] = serve[c], client'[c] = client[c], reg' = reg PROVE ClientInv(c)'
    BY <1>1, <1>2, <2>3, ClientUnmoved
  <2>4. ASSUME serve'[c].pc \in {"unregister", "end"} PROVE ClientInv(c)'
    <3>1. client[c] # "off"
      BY <1>2, <2>1 DEF ClientInv
    <3>2. client'[c] # "off"
      BY <2>2, <3>1
    <3>3. serve'[c].pc \notin {"off", "register", "snapshot", "send", "read"}
      BY <2>4
    <3> QED
      BY <3>2, <3>3 DEF ClientInv
  <2>5. ClientInv(c)'
    BY <2>1, <2>2, <2>3, <2>4
  <2> QED
    BY <1>2, <1>3, <2>5 DEF AttachInv
<1>5. CASE Stall(c) \/ Detach(c)
  <2>1. /\ serve' = serve /\ reg' = reg /\ client[c] \notin {"off", "closed"}
        /\ client'[c] \in {"stalled", "closed"}
    BY <1>1, <1>5 DEF Stall, Detach, ClientOnly
  <2>2. ClientInv(c)'
    BY <1>1, <1>2, <2>1, ClientUnmoved
  <2> QED
    BY <1>2, <1>3, <2>2 DEF AttachInv
<1> QED
  BY <1>4, <1>5

(* What a client shows or swallows was sent to it.                         *)
LEMMA ShownWasSent ==
    ASSUME ScreenType, NEW c \in Clients, Decode(c) \/ Show(c)
    PROVE  \A d \in Clients : Sent(d)' = Sent(d)
<1>1. conn \in [Clients -> Seq(Chunks)] /\ conn[c] \in Seq(Chunks) /\ got \in [Clients -> SUBSET Chunks]
  BY DEF ScreenType, TypeOK
<1>2. Sent(c)' = Sent(c)
  <2>1. CASE Decode(c)
    <3>1. PICK n \in 0 .. Len(conn[c]) :
              /\ conn' = [conn EXCEPT ![c] = SubSeq(@, n + 1, Len(@))]
              /\ got' = [got EXCEPT ![c] = @ \cup Range(SubSeq(conn[c], 1, n))]
      BY <2>1 DEF Decode
    <3>2. Range(conn[c]) = Range(SubSeq(conn[c], 1, n)) \cup Range(SubSeq(conn[c], n + 1, Len(conn[c])))
      BY <1>1, Taken
    <3>3. conn'[c] = SubSeq(conn[c], n + 1, Len(conn[c])) /\ got'[c] = got[c] \cup Range(SubSeq(conn[c], 1, n))
      BY <1>1, <3>1
    <3> QED
      BY <3>2, <3>3 DEF Sent
  <2>2. CASE Show(c)
    <3>1. Range(conn[c]) = {Head(conn[c])} \cup Range(Tail(conn[c]))
      BY <1>1, <2>2, RangeTail DEF Show
    <3>2. conn'[c] = Tail(conn[c]) /\ got'[c] = got[c] \cup {Head(conn[c])}
      BY <1>1, <2>2 DEF Show
    <3> QED
      BY <3>1, <3>2 DEF Sent
  <2> QED
    BY <2>1, <2>2
<1>3. ASSUME NEW d \in Clients \ {c} PROVE Sent(d)' = Sent(d)
  <2>1. conn'[d] = conn[d] /\ got'[d] = got[d]
    BY <1>1 DEF Decode, Show
  <2> QED
    BY <2>1 DEF Sent
<1> QED
  BY <1>2, <1>3

(* So it moves nothing in or out of what a client was sent.                *)
LEMMA AttachShows ==
    ASSUME SessionInv, NEW c \in Clients, Decode(c) \/ Show(c)
    PROVE  AttachInv'
<1>1. /\ cnt \in Nat /\ UNCHANGED <<cnt, reader, reg, serve>> /\ ScreenType
      /\ client \in [Clients -> {"off", "decode", "attached", "stalled", "closed"}]
  BY DEF SessionInv, ScreenInv, RingInv, ScreenType, TypeOK, Decode, Show, ClientOnly, daemon
<1>2. ChunkInv' /\ \A d \in Clients : ClientInv(d) /\ Upto(d)' = Upto(d)
  BY <1>1 DEF SessionInv, AttachInv, ChunkInv, Upto
<1>3. ASSUME NEW d \in Clients PROVE ClientInv(d)'
  <2>1. client'[d] = client[d] \/ (client[d] \in {"decode", "attached"} /\ client'[d] = "attached")
    BY <1>1 DEF Decode, Show
  <2>2. Sent(d)' = Sent(d)
    BY <1>1, ShownWasSent
  <2> QED
    BY <1>1, <1>2, <2>1, <2>2, ClientUnmoved
<1> QED
  BY <1>2, <1>3 DEF AttachInv

-----------------------------------------------------------------------------
(* Nothing is sent before the first client has asked.                      *)
LEMMA AttachStarts == ASSUME Init PROVE AttachInv
<1>1. ChunkInv
  BY DEF Init, ChunkInv
<1>2. ASSUME NEW c \in Clients PROVE ClientInv(c)
  <2>1. serve[c].pc = "off" /\ conn[c] = <<>> /\ got[c] = {} /\ reg = {} /\ reader.todo = {}
    BY DEF Init
  <2>2. Range(<<>>) = {}
    BY DEF Range
  <2> QED
    BY <2>1, <2>2 DEF ClientInv, Fresh, Sent
<1> QED
  BY <1>1, <1>2 DEF AttachInv

(* Every step keeps the three parts of the invariant.                      *)
LEMMA SessionStep == ASSUME SessionInv, [Next]_vars PROVE SessionInv'
<1>1. ScreenInv' /\ ScreenType'
  BY EveryStep, TypeStep DEF SessionInv
<1> SUFFICES AttachInv'
  BY <1>1 DEF SessionInv
<1>2. CASE UNCHANGED vars
  BY <1>2, AttachOther DEF vars
<1>3. CASE WantsOutput \/ Output \/ Input \/ Exit \/ StopLocks \/ StopWrites
  <2>1. UNCHANGED <<cnt, reader, reg, serve, conn, client, got>>
    BY <1>3 DEF WantsOutput, Output, Input, Exit, StopLocks, StopWrites, daemon, users
  <2> QED
    BY <2>1, AttachOther
<1>4. CASE WaiterLocks \/ WaiterUnlocks \/ Wait
  <2>1. UNCHANGED <<cnt, reader, reg, serve, conn, client, got>>
    BY <1>4 DEF WaiterLocks, WaiterUnlocks, Wait, daemon, users
  <2> QED
    BY <2>1, AttachOther
<1>5. CASE Read \/ Add \/ ReaderLocks \/ ReaderUnlocks
  BY <1>1, <1>5, AttachReader
<1>6. CASE \E c \in Clients : ReaderSends(c) \/ WaiterSends(c)
  BY <1>6, AttachReaderSends, AttachWaiterSends
<1>7. CASE \E c \in Clients : HandleScreenConn(c) \/ Attach(c)
  <2>1. PICK c \in Clients : HandleScreenConn(c) \/ Attach(c)
    BY <1>7
  <2>2. Attach(c) => serve[c].pc \in {"register", "snapshot"}
    BY DEF Attach, Serves
  <2> QED
    BY <2>1, <2>2, AttachRegisters, AttachCopies
<1>8. CASE \E c \in Clients : \/ AttachSends(c) \/ ReadFromClient(c) \/ Unregister(c)
                              \/ Decode(c) \/ Show(c) \/ Stall(c) \/ Detach(c)
  BY <1>8, AttachSendsLine, AttachEnds, AttachShows
<1>9. CASE \E c \in Clients : Type(c)
  <2>1. UNCHANGED <<cnt, reader, reg, serve, conn, client, got>>
    BY <1>9 DEF Type, ClientOnly, daemon
  <2> QED
    BY <2>1, AttachOther
<1> QED
  BY <1>2, <1>3, <1>4, <1>5, <1>6, <1>7, <1>8, <1>9 DEF Next, Goroutines

Joined(o, n, b, last) ==
    \E f \in Int : f <= o /\ f <= b /\ (o + 1 .. n) \cup (b + 1 .. last) = f + 1 .. last

(* Two overlapping runs up to the newest chunk are one.                    *)
LEMMA OneRun ==
    ASSUME NEW o \in Int, NEW n \in Int, NEW b \in Int, NEW last \in Int, b <= n, n <= last, o <= n
    PROVE  Joined(o, n, b, last)
<1>1. CASE o <= b
  <2>1. (o + 1 .. n) \cup (b + 1 .. last) = o + 1 .. last
    BY <1>1
  <2> QED
    BY <1>1, <2>1 DEF Joined
<1>2. CASE b < o
  <2>1. (o + 1 .. n) \cup (b + 1 .. last) = b + 1 .. last
    BY <1>2
  <2> QED
    BY <1>2, <2>1 DEF Joined
<1> QED
  BY <1>1, <1>2

(* The least of an interval.                                               *)
LEMMA LeastOfRun ==
    ASSUME NEW f \in Int, NEW last \in Int, f < last
    PROVE  Min(f + 1 .. last) = f + 1
<1>1. f + 1 \in f + 1 .. last /\ \A y \in f + 1 .. last : f + 1 <= y
  OBVIOUS
<1>2. \A x \in f + 1 .. last : (\A y \in f + 1 .. last : x <= y) => x = f + 1
  BY <1>1
<1> QED
  BY <1>1, <1>2 DEF Min

(* The least of two numbers.                                               *)
LEMMA LeastOfTwo ==
    ASSUME NEW a \in Int, NEW b \in Int
    PROVE  Min({a, b}) \in {a, b} /\ Min({a, b}) <= a /\ Min({a, b}) <= b
<1>1. \E x \in {a, b} : \A y \in {a, b} : x <= y
  OBVIOUS
<1>2. Min({a, b}) \in {a, b} /\ \A y \in {a, b} : Min({a, b}) <= y
  BY <1>1 DEF Min
<1> QED
  BY <1>2

(* What an attached client was sent is one run: up to the newest chunk, or *)
(* to the one before while that one is being broadcast.                    *)
Stream(c, first, last) ==
    /\ first \in 1 .. cnt + 1 /\ last \in {cnt, cnt - 1} \cap Nat
    /\ IF last > Capacity THEN first <= last - Capacity + 1 ELSE first = 1
    /\ Upto(c) = cnt => last = cnt
    /\ Sent(c) = first .. last
Streams(c) == \E first, last \in Int : Stream(c, first, last)

(* The log and the broadcasts overlap or touch.                            *)
LEMMA OneStream ==
    ASSUME SessionInv, NEW c \in Clients,
           serve[c].pc \in {"send", "read"}, serve[c].lines = <<>>, client[c] # "closed"
    PROVE  Streams(c)
<1>1. /\ cnt \in Nat /\ Capacity \in Nat \ {0} /\ Upto(c) \in {cnt, cnt - 1} \cap Nat
      /\ \A x \in Sent(c) : x \in Int /\ x >= 1
  <2>1. cnt \in Nat /\ conn \in [Clients -> Seq(Chunks)] /\ got \in [Clients -> SUBSET Chunks] /\ MaxOut \in Nat
    BY BoundsOK DEF SessionInv, ScreenInv, RingInv, ScreenType, TypeOK
  <2>2. conn[c] \in Seq(Chunks) /\ got[c] \subseteq Chunks
    BY <2>1
  <2>3. Range(conn[c]) \subseteq Chunks
    BY <2>2, LenProperties DEF Range
  <2>4. Upto(c) \in {cnt, cnt - 1} \cap Nat
    BY <2>1 DEF Upto, SessionInv, AttachInv, ChunkInv
  <2> QED
    BY <2>1, <2>2, <2>3, <2>4, CapacityOK DEF Sent, Chunks
<1>2. Attached(c)
  BY DEF SessionInv, AttachInv, ClientInv
<1>3. PICK b \in Int, m \in Int, n \in Int : Sending(c, b, m, n)
  BY <1>2 DEF Attached
<1>4. m = n
  <2>1. m <= n /\ [i \in 1 .. n - m |-> m + i] = <<>>
    BY <1>3 DEF Sending
  <2>2. CASE m < n
    <3>1. PICK s : s = [i \in 1 .. n - m |-> m + i]
      OBVIOUS
    <3>2. DOMAIN s = 1 .. n - m /\ 1 \in 1 .. n - m
      BY <2>2, <3>1
    <3>3. s = <<>>
      BY <2>1, <3>1
    <3> QED
      BY <3>2, <3>3
  <2> QED
    BY <2>1, <2>2
<1>5. PICK o \in Int, u \in Int :
          /\ o = Oldest(n) /\ o <= n /\ b <= n /\ n <= cnt /\ u = Upto(c) /\ b <= u
          /\ Sent(c) = (o + 1 .. n) \cup (b + 1 .. u)
  <2>1. Oldest(n) \in Int /\ Upto(c) \in Int
    BY <1>1 DEF Oldest
  <2> QED
    BY <1>1, <1>3, <1>4, <2>1 DEF Sending
<1>6. PICK f \in Int, last \in Int :
          f <= o /\ n <= last /\ last \in {cnt, cnt - 1} \cap Nat /\ (u = cnt => last = cnt) /\ Sent(c) = f + 1 .. last
  <2>1. CASE n <= u
    <3>1. Joined(o, n, b, u)
      BY <1>5, <2>1, OneRun
    <3>2. PICK f \in Int : f <= o /\ (o + 1 .. n) \cup (b + 1 .. u) = f + 1 .. u
      BY <3>1 DEF Joined
    <3>3. Sent(c) = f + 1 .. u
      BY <1>5, <3>2, Zenon
    <3> QED
      BY <1>1, <1>5, <2>1, <3>2, <3>3
  <2>2. CASE u < n
    <3>1. n = cnt /\ u = cnt - 1 /\ cnt \in Int /\ o <= u
      BY <1>1, <1>5, <2>2 DEF Oldest
    <3>2. Joined(b, u, o, cnt)
      BY <1>5, <3>1, OneRun
    <3>3. PICK f \in Int : f <= o /\ (b + 1 .. u) \cup (o + 1 .. cnt) = f + 1 .. cnt
      BY <3>2 DEF Joined
    <3>4. (o + 1 .. cnt) \cup (b + 1 .. u) = (b + 1 .. u) \cup (o + 1 .. cnt)
      OBVIOUS
    <3>5. Sent(c) = f + 1 .. cnt
      BY <1>5, <3>1, <3>3, <3>4, Zenon
    <3> QED
      BY <1>1, <3>1, <3>3, <3>5
  <2>3. n <= u \/ u < n
    OBVIOUS
  <2> QED
    BY <2>1, <2>2, <2>3, Zenon
<1>7. o <= IF last > Capacity THEN last - Capacity ELSE 0
  BY <1>1, <1>5, <1>6 DEF Oldest
<1>8. f >= 0
  <2>1. CASE f < last
    <3>1. f + 1 \in Sent(c)
      BY <1>6, <2>1
    <3> QED
      BY <1>1, <3>1
  <2>2. CASE f >= last
    BY <1>6, <2>2
  <2> QED
    BY <1>6, <2>1, <2>2
<1>9. Stream(c, f + 1, last)
  <2>1. f + 1 \in 1 .. cnt + 1 /\ IF last > Capacity THEN f + 1 <= last - Capacity + 1 ELSE f + 1 = 1
    BY <1>1, <1>6, <1>7, <1>8
  <2> QED
    BY <1>5, <1>6, <2>1 DEF Stream
<1>10. f + 1 \in Int /\ last \in Int
  BY <1>6
<1> QED
  BY <1>9, <1>10, Zenon DEF Streams

(* Once the reader is at rest the run ends with the newest chunk, and goes *)
(* back as far as the log that was given.                                  *)
LEMMA SessionHasNoGap == SessionInv => NoGap
<1> SUFFICES ASSUME SessionInv, NEW c \in reg, serve[c].pc = "read", client[c] # "closed", reader.pc = "read"
             PROVE  /\ Sent(c) = {} => cnt = 0
                    /\ Sent(c) # {} => Sent(c) = Min(Sent(c)) .. cnt /\ Cardinality(Sent(c)) >= Min({cnt, Capacity})
  BY DEF NoGap, Sent
<1>1. cnt \in Nat /\ Capacity \in Nat \ {0} /\ c \in Clients /\ Upto(c) = cnt
  BY CapacityOK DEF SessionInv, ScreenInv, RingInv, ScreenType, TypeOK, Upto
<1>2. Streams(c)
  <2>1. serve[c].lines = <<>>
    BY <1>1 DEF SessionInv, AttachInv, ClientInv
  <2> QED
    BY <1>1, <2>1, OneStream
<1>3. PICK f \in Int : /\ f + 1 \in 1 .. cnt + 1 /\ Sent(c) = f + 1 .. cnt
                       /\ IF cnt > Capacity THEN f <= cnt - Capacity ELSE f = 0
  <2>1. PICK first \in Int, last \in Int : Stream(c, first, last)
    BY <1>2 DEF Streams
  <2>2. first - 1 \in Int /\ first - 1 + 1 = first
    BY <2>1
  <2> QED
    BY <1>1, <2>1, <2>2 DEF Stream
<1>4. ASSUME Sent(c) = {} PROVE cnt = 0
  <2>1. cnt > 0 => cnt \in f + 1 .. cnt
    BY <1>1, <1>3
  <2> QED
    BY <1>1, <1>3, <1>4, <2>1
<1>5. ASSUME Sent(c) # {}
      PROVE  Sent(c) = Min(Sent(c)) .. cnt /\ Cardinality(Sent(c)) >= Min({cnt, Capacity})
  <2>1. f < cnt
    BY <1>1, <1>3, <1>5
  <2>2. Min(Sent(c)) = f + 1
    BY <1>1, <1>3, <2>1, LeastOfRun
  <2>3. Cardinality(Sent(c)) = cnt - f
    <3>1. f + 1 \in Int /\ cnt \in Int /\ ~(f + 1 > cnt) /\ cnt - (f + 1) + 1 = cnt - f
      BY <1>1, <2>1
    <3> QED
      BY <1>3, <3>1, FS_Interval
  <2>4. Min({cnt, Capacity}) \in Int /\ Min({cnt, Capacity}) <= cnt /\ Min({cnt, Capacity}) <= Capacity
    BY <1>1, LeastOfTwo
  <2>5. cnt - f >= Min({cnt, Capacity})
    BY <1>1, <1>3, <2>4
  <2> QED
    BY <1>3, <2>2, <2>3, <2>5
<1> QED
  BY <1>4, <1>5

(* An attached client misses nothing from the oldest line of its log to    *)
(* the newest output, however Attach interleaves with the broadcasts       *)
(* (manager.go:391).                                                       *)
THEOREM NothingMissed == Spec => []NoGap
<1>1. Init => SessionInv
  BY InitType, InitInv, AttachStarts DEF SessionInv
<1>2. Spec => []SessionInv
  BY <1>1, SessionStep, PTL DEF Spec
<1> QED
  BY <1>2, SessionHasNoGap, PTL

-----------------------------------------------------------------------------
(* The console.  A view is what its stage and what was sent make it.       *)
LEMMA SameView ==
    ASSUME NEW d \in Clients, Stage(d)' = Stage(d), Stage(d) = "on" => Sent(d)' = Sent(d)
    PROVE  ViewOf(d)' = ViewOf(d)
BY DEF ViewOf

(* The console does not move.                                              *)
LEMMA Stutters ==
    ASSUME cnt' = cnt, \A d \in Clients : ViewOf(d)' = ViewOf(d)
    PROVE  UNCHANGED Console!vars
BY DEF Console!vars

(* A chunk enters the log.                                                 *)
LEMMA Logs ==
    ASSUME cnt' = cnt + 1,
           \A d \in Clients : ViewOf(d)' = ViewOf(d),
           \A d \in Clients : Stage(d) = "on" /\ cnt > 0 => cnt \in Sent(d)
    PROVE  Console!Next
<1>1. \A d \in Clients : Console!UpToDate(d)
  BY DEF Console!UpToDate, ViewOf
<1> QED
  BY <1>1 DEF Console!Next, Console!Log

(* A client is attached with a part of the log that is long enough.        *)
LEMMA Opens ==
    ASSUME cnt' = cnt, NEW c \in Clients,
           NEW first \in 1 .. cnt + 1, NEW last \in {cnt, cnt - 1},
           IF last > Capacity THEN first <= last - Capacity + 1 ELSE first = 1,
           Stage(c) = "away", Stage(c)' = "on", Sent(c)' = first .. last,
           \A d \in Clients \ {c} : ViewOf(d)' = ViewOf(d)
    PROVE  Console!Next
<1>1. Console!Open(c)
  BY DEF Console!Open, Console!Away, Console!On, ViewOf
<1> QED
  BY <1>1 DEF Console!Next

(* An attached client is sent the newest chunk.                            *)
LEMMA Gets ==
    ASSUME cnt' = cnt, NEW c \in Clients,
           Stage(c) = "on", Stage(c)' = "on", cnt > 1 => cnt - 1 \in Sent(c),
           Sent(c)' = Sent(c) \cup {cnt},
           \A d \in Clients \ {c} : ViewOf(d)' = ViewOf(d)
    PROVE  Console!Next
<1>1. Console!Get(c)
  BY DEF Console!Get, Console!On, ViewOf
<1> QED
  BY <1>1 DEF Console!Next

(* A client goes.                                                          *)
LEMMA Leaves ==
    ASSUME cnt' = cnt, NEW c \in Clients, Stage(c)' = "gone",
           \A d \in Clients \ {c} : ViewOf(d)' = ViewOf(d)
    PROVE  Console!Next
<1>1. Console!Leave(c)
  BY DEF Console!Leave, Console!Gone, ViewOf
<1> QED
  BY <1>1 DEF Console!Next

-----------------------------------------------------------------------------
(* The steps.  The process, the terminals and what is typed are invisible. *)
LEMMA OtherMaps ==
    ASSUME UNCHANGED <<cnt, serve, conn, got>>,
           \A d \in Clients : client'[d] = "closed" <=> client[d] = "closed"
    PROVE  UNCHANGED Console!vars
<1>1. \A d \in Clients : Stage(d)' = Stage(d) /\ Sent(d)' = Sent(d)
  BY DEF Stage, Sent
<1> QED
  BY <1>1, SameView, Stutters

(* Whoever is attached has the newest chunk when the next is logged.       *)
LEMMA AddMaps == ASSUME SessionInv, Add PROVE Console!Next
<1>1. UNCHANGED <<serve, conn, client, got>> /\ cnt' = cnt + 1 /\ reader.pc = "add"
  BY DEF Add, users
<1>2. \A d \in Clients : Stage(d)' = Stage(d) /\ Sent(d)' = Sent(d)
  BY <1>1 DEF Stage, Sent
<1>3. ASSUME NEW d \in Clients, Stage(d) = "on", cnt > 0 PROVE cnt \in Sent(d)
  <2>1. serve[d].pc = "read" /\ client[d] # "closed"
    BY <1>3 DEF Stage
  <2>2. serve[d].lines = <<>>
    BY <2>1 DEF SessionInv, AttachInv, ClientInv
  <2>3. PICK first \in Int, last \in Int : Stream(d, first, last)
    BY <2>1, <2>2, OneStream DEF Streams
  <2>4. last = cnt /\ Capacity \in Nat \ {0}
    BY <1>1, <2>3, CapacityOK DEF Stream, Upto
  <2> QED
    BY <1>3, <2>3, <2>4 DEF Stream
<1> QED
  BY <1>1, <1>2, <1>3, SameView, Logs

(* An attached client gets the chunk, or has had it from the log.          *)
LEMMA ReaderSendsMaps ==
    ASSUME SessionInv, NEW c \in Clients, ReaderSends(c)
    PROVE  Console!Next \/ UNCHANGED Console!vars
<1>1. /\ cnt \in Chunks /\ cnt \in Nat /\ UNCHANGED <<cnt, serve, client, got>> /\ ScreenType
      /\ reader.pc = "send" /\ c \in reader.todo /\ cnt > 0 /\ Deliver(c, cnt)
  BY DEF SessionInv, AttachInv, ChunkInv, ScreenType, TypeOK, ScreenInv, RingInv, ReaderSends, users
<1>2. \A d \in Clients : Stage(d)' = Stage(d)
  BY <1>1 DEF Stage
<1>3. CASE conn' = conn
  BY <1>1, <1>3, OtherMaps
<1>4. CASE conn' = [conn EXCEPT ![c] = Append(@, cnt)]
  <2>1. Sent(c)' = Sent(c) \cup ({cnt} \ {0}) /\ \A d \in Clients \ {c} : Sent(d)' = Sent(d)
    BY <1>1, <1>4, SentAppend
  <2>2. Sent(c)' = Sent(c) \cup {cnt} /\ \A d \in Clients \ {c} : ViewOf(d)' = ViewOf(d)
    BY <1>1, <1>2, <2>1, SameView
  <2>3. ASSUME Stage(c) # "on" \/ cnt \in Sent(c) PROVE UNCHANGED Console!vars
    <3>1. ViewOf(c)' = ViewOf(c)
      BY <1>2, <2>2, <2>3, SameView
    <3> QED
      BY <1>1, <2>2, <3>1, Stutters
  <2>4. ASSUME Stage(c) = "on", cnt \notin Sent(c) PROVE Console!Next
    <3>1. serve[c].pc = "read" /\ client[c] # "closed"
      BY <2>4 DEF Stage
    <3>2. serve[c].lines = <<>>
      BY <3>1 DEF SessionInv, AttachInv, ClientInv
    <3>3. PICK first \in Int, last \in Int : Stream(c, first, last)
      BY <3>1, <3>2, OneStream DEF Streams
    <3>4. cnt > 1 => cnt - 1 \in Sent(c)
      BY <1>1, <2>4, <3>3, CapacityOK DEF Stream
    <3> QED
      BY <1>1, <1>2, <2>2, <2>4, <3>4, Gets
  <2> QED
    BY <2>3, <2>4
<1> QED
  BY <1>1, <1>3, <1>4 DEF Deliver

(* The exit notice, and what a client does with what it got.               *)
LEMMA InvisibleMaps ==
    ASSUME SessionInv, NEW c \in Clients, WaiterSends(c) \/ Decode(c) \/ Show(c)
    PROVE  UNCHANGED Console!vars
<1>1. /\ UNCHANGED <<cnt, serve>> /\ ScreenType
      /\ client \in [Clients -> {"off", "decode", "attached", "stalled", "closed"}]
  BY DEF SessionInv, ScreenType, TypeOK, WaiterSends, Decode, Show, daemon, users, ClientOnly
<1>2. \A d \in Clients : client'[d] = "closed" <=> client[d] = "closed"
  BY <1>1 DEF WaiterSends, Decode, Show, users
<1>3. \A d \in Clients : Sent(d)' = Sent(d)
  BY <1>1, NoticeIsNoChunk, ShownWasSent
<1>4. \A d \in Clients : Stage(d)' = Stage(d)
  BY <1>1, <1>2 DEF Stage
<1> QED
  BY <1>1, <1>3, <1>4, SameView, Stutters

(* A client that is not served yet, or types, is where it was.             *)
LEMMA BeforeMaps ==
    ASSUME SessionInv, NEW c \in Clients, HandleScreenConn(c) \/ Attach(c) \/ Type(c) \/ Stall(c)
    PROVE  UNCHANGED Console!vars
<1>1. /\ UNCHANGED <<cnt, conn, got>>
      /\ serve \in [Clients -> [pc : Steps, lines : Seq(Chunks)]]
      /\ client \in [Clients -> {"off", "decode", "attached", "stalled", "closed"}]
  BY DEF SessionInv, ScreenType, TypeOK, Steps, HandleScreenConn, Attach, Type, Stall, ServeOnly, ClientOnly, daemon, users
<1>2. client[c] = "off" => serve[c].pc = "off"
  BY DEF SessionInv, AttachInv, ClientInv
<1>3. ASSUME NEW d \in Clients PROVE Stage(d)' = Stage(d)
  <2>1. client'[d] = "closed" <=> client[d] = "closed"
    BY <1>1 DEF HandleScreenConn, Attach, Type, Stall, users
  <2>2. \/ serve'[d] = serve[d]
        \/ serve[d].pc \in {"off", "register", "snapshot"} /\ serve'[d].pc \in {"register", "snapshot", "send"}
    <3>1. CASE HandleScreenConn(c)
      BY <1>1, <1>2, <3>1 DEF HandleScreenConn
    <3>2. CASE Attach(c)
      BY <1>1, <3>2 DEF Attach, Serves
    <3>3. CASE Type(c) \/ Stall(c)
      BY <3>3 DEF Type, Stall, ClientOnly
    <3> QED
      BY <3>1, <3>2, <3>3
  <2> QED
    BY <2>1, <2>2 DEF Stage
<1>4. \A d \in Clients : Sent(d)' = Sent(d)
  BY <1>1 DEF Sent
<1> QED
  BY <1>1, <1>3, <1>4, SameView, Stutters

(* The end of Attach opens the view of a client that is still there.       *)
LEMMA AttachSendsMaps ==
    ASSUME SessionInv, NEW c \in Clients, AttachSends(c)
    PROVE  Console!Next \/ UNCHANGED Console!vars
<1>1. /\ cnt \in Nat /\ UNCHANGED <<cnt, reader, reg, got, client>> /\ ScreenType /\ serve[c].pc = "send"
      /\ serve \in [Clients -> [pc : Steps, lines : Seq(Chunks)]] /\ serve[c].lines \in Seq(Chunks)
  BY DEF SessionInv, ScreenInv, RingInv, ScreenType, TypeOK, Steps, AttachSends, Serves, ServeOnly, daemon, users
<1>2. \A d \in Clients \ {c} : ViewOf(d)' = ViewOf(d)
  <2>1. \A d \in Clients \ {c} : serve'[d] = serve[d] /\ Sent(d)' = Sent(d)
    <3>1. CASE conn' = [conn EXCEPT ![c] = Append(@, Head(serve[c].lines))] /\ serve[c].lines # <<>>
      <4>1. Head(serve[c].lines) \in Chunks
        BY <1>1, <3>1, HeadTailProperties
      <4> QED
        BY <1>1, <3>1, <4>1, SentAppend DEF AttachSends
    <3>2. CASE conn' = conn
      BY <1>1, <3>2 DEF AttachSends, Sent
    <3> QED
      BY <3>1, <3>2 DEF AttachSends
  <2>2. \A d \in Clients \ {c} : Stage(d)' = Stage(d)
    BY <1>1, <2>1 DEF Stage
  <2> QED
    BY <2>1, <2>2, SameView
<1>3. ASSUME Stage(c)' = Stage(c), Stage(c) # "on" PROVE UNCHANGED Console!vars
  <2>1. ViewOf(c)' = ViewOf(c)
    BY <1>3, SameView
  <2> QED
    BY <1>1, <1>2, <2>1, Stutters
<1>4. CASE client[c] = "closed"
  <2>1. Stage(c) = "gone" /\ Stage(c)' = "gone"
    BY <1>1, <1>4 DEF Stage
  <2> QED
    BY <1>3, <2>1
<1>5. CASE client[c] # "closed" /\ serve[c].lines # <<>>
  <2>1. serve'[c].pc = "send"
    BY <1>1, <1>5 DEF AttachSends
  <2>2. Stage(c) = "away" /\ Stage(c)' = "away"
    BY <1>1, <1>5, <2>1 DEF Stage
  <2> QED
    BY <1>3, <2>2
<1>6. CASE client[c] # "closed" /\ serve[c].lines = <<>>
  <2>1. serve'[c].pc = "read" /\ conn' = conn
    BY <1>1, <1>6 DEF AttachSends
  <2>2. Stage(c) = "away" /\ Stage(c)' = "on" /\ Sent(c)' = Sent(c)
    BY <1>1, <1>6, <2>1 DEF Stage, Sent
  <2>3. PICK first \in Int, last \in Int : Stream(c, first, last)
    BY <1>1, <1>6, OneStream DEF Streams
  <2>4. Sent(c)' = first .. last
    BY <2>2, <2>3 DEF Stream
  <2> QED
    BY <1>1, <1>2, <2>2, <2>3, <2>4, Opens DEF Stream
<1> QED
  BY <1>4, <1>5, <1>6

(* The end of the goroutine, or of the client, ends the view.              *)
LEMMA EndsMap ==
    ASSUME SessionInv, NEW c \in Clients, ReadFromClient(c) \/ Unregister(c) \/ Detach(c)
    PROVE  Console!Next \/ UNCHANGED Console!vars
<1>1. /\ UNCHANGED <<cnt, conn, got>>
      /\ serve \in [Clients -> [pc : Steps, lines : Seq(Chunks)]]
      /\ client \in [Clients -> {"off", "decode", "attached", "stalled", "closed"}]
  BY DEF SessionInv, ScreenType, TypeOK, Steps, ReadFromClient, Unregister, Detach, ServeOnly, ClientOnly, daemon
<1>2. \A d \in Clients \ {c} : ViewOf(d)' = ViewOf(d)
  <2>1. \A d \in Clients \ {c} : serve'[d] = serve[d] /\ client'[d] = client[d]
    BY <1>1 DEF ReadFromClient, Unregister, Detach, ClientOnly
  <2>2. \A d \in Clients \ {c} : Stage(d)' = Stage(d) /\ Sent(d)' = Sent(d)
    BY <1>1, <2>1 DEF Stage, Sent
  <2> QED
    BY <2>2, SameView
<1>3. (serve'[c] = serve[c] /\ client'[c] = client[c]) \/ Stage(c)' = "gone"
  BY <1>1 DEF ReadFromClient, Unregister, Detach, ClientOnly, Stage
<1>4. CASE Stage(c)' = "gone"
  BY <1>1, <1>2, <1>4, Leaves
<1>5. CASE serve'[c] = serve[c] /\ client'[c] = client[c]
  <2>1. Stage(c)' = Stage(c) /\ Sent(c)' = Sent(c)
    BY <1>1, <1>5 DEF Stage, Sent
  <2> QED
    BY <1>1, <1>2, <2>1, SameView, Stutters
<1> QED
  BY <1>3, <1>4, <1>5

(* Nobody is attached at the beginning.                                    *)
LEMMA ConsoleStarts == ASSUME Init PROVE Console!Init
<1>1. \A d \in Clients : ViewOf(d) = [state |-> "away", seen |-> {}]
  BY DEF Init, ViewOf, Stage
<1> QED
  BY <1>1 DEF Console!Init, Console!Away, Init

(* Every step is a step of the console, or invisible to it.                *)
LEMMA EveryStepMaps == ASSUME SessionInv, [Next]_vars PROVE [Console!Next]_(Console!vars)
<1>1. CASE UNCHANGED vars
  BY <1>1, OtherMaps DEF vars
<1>2. CASE \/ WantsOutput \/ Output \/ Input \/ Exit \/ StopLocks \/ StopWrites
           \/ WaiterLocks \/ WaiterUnlocks \/ Wait \/ Read \/ ReaderLocks \/ ReaderUnlocks
  <2>1. UNCHANGED <<cnt, serve, conn, client, got>>
    BY <1>2 DEF WantsOutput, Output, Input, Exit, StopLocks, StopWrites, WaiterLocks, WaiterUnlocks, Wait,
                Read, ReaderLocks, ReaderUnlocks, daemon, users
  <2> QED
    BY <2>1, OtherMaps
<1>3. CASE Add
  BY <1>3, AddMaps
<1>4. CASE \E c \in Clients : ReaderSends(c)
  BY <1>4, ReaderSendsMaps
<1>5. CASE \E c \in Clients : WaiterSends(c) \/ Decode(c) \/ Show(c)
  BY <1>5, InvisibleMaps
<1>6. CASE \E c \in Clients : HandleScreenConn(c) \/ Attach(c) \/ Type(c) \/ Stall(c)
  BY <1>6, BeforeMaps
<1>7. CASE \E c \in Clients : AttachSends(c)
  BY <1>7, AttachSendsMaps
<1>8. CASE \E c \in Clients : ReadFromClient(c) \/ Unregister(c) \/ Detach(c)
  BY <1>8, EndsMap
<1> QED
  BY <1>1, <1>2, <1>3, <1>4, <1>5, <1>6, <1>7, <1>8 DEF Next, Goroutines

(* The screen sessions implement the console: an attached client has no    *)
(* gap at any moment, gets each chunk after the one before, and Broadcast  *)
(* holds the output back until every one of them was sent it               *)
(* (manager.go:403).                                                       *)
THEOREM ScreenImplementsConsole == Spec => RefinesConsole
<1>1. Init => SessionInv
  BY InitType, InitInv, AttachStarts DEF SessionInv
<1>2. Spec => []SessionInv
  BY <1>1, SessionStep, PTL DEF Spec
<1>3. Init => Console!Init
  BY ConsoleStarts
<1>4. SessionInv /\ [Next]_vars => [Console!Next]_(Console!vars)
  BY EveryStepMaps
<1> QED
  BY <1>2, <1>3, <1>4, PTL DEF Spec, RefinesConsole, Console!Spec
=============================================================================
