------------------------- MODULE DeviceControlProofs -------------------------
(***************************************************************************)
(* Proofs about DeviceControl: a reply is never taken for the answer to    *)
(* another write (ReplyIsOwn), and host and device agree on whether, and   *)
(* with which values, a capture runs (CaptureAgreed).                      *)
(***************************************************************************)
EXTENDS DeviceControl, TLAPS

-----------------------------------------------------------------------------
(* Types. *)

Names == {"rate", "c", "enabled", "split"}
RegNames == Names \cup {"capture"}
Values == {TRUE} \cup {0, 1, 3, 8} \cup {{}, Channels}

Statuses == {"started", "not allowed", "start check", "accepted"}

\* What the device says and what it hears.
Says ==
    [type : {"hello"}, n : Nat] \cup [type : {"reply"}, n : Int, reg : RegNames, status : Statuses]
Hears ==
    [type : {"none", "empty", "garbled"}]
      \cup [type : {"config"}, n : Int, reg : RegNames, v : Values]

DevSet ==
    {d \in [state : {"off", "config", "capture"}, boot : Nat, queue : Seq(Says),
            regs : [Names -> Values], on : BOOLEAN, pass : BOOLEAN, full : BOOLEAN] :
        Len(d.queue) <= QueueSize}

SpisSet ==
    [owner : {"cpu", "free"}, event : BOOLEAN, refusing : BOOLEAN, rx : Hears,
     tx : Says \cup {NoMsg}, whole : BOOLEAN]

HostSet ==
    [op : {"idle", "hello", "config", "stop"}, at : {"idle", "wait", "poll", "transfer"},
     reg : 0 .. Len(Regs), tries : 0 .. Retries, starts : Nat, n : Nat,
     got : Says \cup {NoMsg}]

Types ==
    /\ dev \in DevSet
    /\ spis \in SpisSet
    /\ host \in HostSet
    /\ irq \in BOOLEAN
    /\ capturing \in BOOLEAN
    /\ plan \in [Names -> Values]
    /\ faults \in [noise : Nat, slow : Nat]

\* Where the host can be, and that a device in reset has nothing to say.
HostInv ==
    /\ host.op = "config" => host.reg \in 1 .. Len(Regs)
    /\ host.at = "transfer" => host.op = "config"
    /\ host.at = "idle" <=> host.op = "idle"
    /\ capturing => host.op = "idle"
    /\ dev.pass => dev.state = "config"
    /\ dev.state = "config" => spis.tx = Prepared(dev.queue)
    /\ dev.state = "off" =>
          /\ host.at \in {"wait", "idle"} /\ host.op # "config" /\ ~capturing /\ ~irq
          /\ dev.queue = <<>> /\ ~dev.pass /\ spis.rx = NoMsg /\ spis.tx = NoMsg

\* The registers by their place in the order of the writes.
LEMMA RegsOrder ==
    /\ Len(Regs) = 5
    /\ Regs[1] = "rate" /\ Regs[2] = "c" /\ Regs[3] = "enabled" /\ Regs[4] = "split"
    /\ Regs[5] = "capture"
    /\ \A i \in 1 .. Len(Regs) : Regs[i] \in RegNames
    /\ \A i, j \in 1 .. Len(Regs) : Regs[i] = Regs[j] => i = j
    /\ \A r \in Names : \E i \in 1 .. Len(Regs) - 1 : Regs[i] = r
    /\ \A i \in 1 .. Len(Regs) - 1 : Regs[i] # "capture"
<1>1. /\ Len(Regs) = 5
      /\ Regs[1] = "rate" /\ Regs[2] = "c" /\ Regs[3] = "enabled" /\ Regs[4] = "split"
      /\ Regs[5] = "capture"
  BY DEF Regs
<1>2. \A i \in 1 .. 5 : i = 1 \/ i = 2 \/ i = 3 \/ i = 4 \/ i = 5
  OBVIOUS
<1>. QED
  BY <1>1, <1>2 DEF RegNames, Names

LEMMA MsgTypes ==
    /\ NoMsg \notin Says /\ NoMsg \in Hears /\ NoMsg.type = "none"
    /\ \A n \in Nat : Hello(n) \in Says /\ Hello(n).type = "hello"
    /\ \A n \in Int, reg \in RegNames, s \in Statuses :
          /\ ConfigReply(n, reg, s) \in Says
          /\ ConfigReply(n, reg, s).type = "reply"
          /\ ConfigReply(n, reg, s).n = n
          /\ ConfigReply(n, reg, s).reg = reg
          /\ ConfigReply(n, reg, s).status = s
    /\ \A n \in Int, reg \in RegNames, v \in Values :
          /\ Config(n, reg, v) \in Hears
          /\ Config(n, reg, v).type = "config"
          /\ Config(n, reg, v).n = n
          /\ Config(n, reg, v).reg = reg
          /\ Config(n, reg, v).v = v
    /\ \A m \in Says : m.type \in {"hello", "reply"}
    /\ \A m \in Says : m.type = "reply" => m.n \in Int /\ m.reg \in RegNames /\ m.status \in Statuses
    /\ \A m \in Hears : m.type \in {"none", "empty", "garbled", "config"}
    /\ \A m \in Hears : m.type = "config" => m.n \in Int /\ m.reg \in RegNames /\ m.v \in Values
BY DEF NoMsg, Says, Hears, Hello, Config, ConfigReply

LEMMA PlanTypes ==
    /\ Defaults \in [Names -> Values]
    /\ \A p \in Plans : p \in [Names -> Values]
<1>1. Defaults \in [Names -> Values]
  <2>1. 1 \in Values /\ 8 \in Values /\ {} \in Values /\ Channels \in Values
    BY DEF Values
  <2>2. \A a, b, c, d \in Values :
           [rate |-> a, c |-> b, enabled |-> c, split |-> d] \in [Names -> Values]
    BY DEF Names
  <2>. QED
    BY <2>1, <2>2, Zenon DEF Defaults
<1>2. ASSUME NEW p \in Plans
      PROVE  p \in [Names -> Values]
  <2>1. p = [rate |-> p.rate, c |-> p.c, enabled |-> p.enabled, split |-> p.split]
    BY DEF Plans
  <2>2. /\ p.rate \in {0, 1} /\ p.c \in {3, 8}
        /\ p.enabled \in {{}, Channels} /\ p.split \in {{}, Channels}
    BY DEF Plans
  <2>3. /\ p.rate \in Values /\ p.c \in Values /\ p.enabled \in Values /\ p.split \in Values
    BY <2>2 DEF Values
  <2>4. [rate |-> p.rate, c |-> p.c, enabled |-> p.enabled, split |-> p.split]
           \in [Names -> Values]
    BY <2>3 DEF Names
  <2>. QED
    BY <2>1, <2>4, Zenon
<1>. QED
  BY <1>1, <1>2

LEMMA ValueType ==
    ASSUME plan \in [Names -> Values], NEW reg \in RegNames
    PROVE  Value(reg) \in Values
BY DEF Value, RegNames, Values

-----------------------------------------------------------------------------
(* What a pass of the device does. *)

Answer == ConfigReply(spis.rx.n, spis.rx.reg, WriteStatus(dev, spis.rx))

\* What is queued after the pass was queued before or is the answer to what was heard.
QueueFrom(q) ==
    \A i \in 1 .. Len(q) :
        \/ \E k \in 1 .. Len(dev.queue) : q[i] = dev.queue[k]
        \/ spis.rx.type = "config" /\ q[i] = Answer

Unwritten(d) == d.on = dev.on /\ d.regs = dev.regs

\* The device took the write it heard.
Takes(d) ==
    /\ spis.rx.type = "config" /\ ~dev.on
    /\ \/ spis.rx.reg = "capture" /\ d.on /\ d.regs = dev.regs
       \/ /\ spis.rx.reg # "capture" /\ ~d.on
          /\ d.regs = [dev.regs EXCEPT ![spis.rx.reg] = spis.rx.v]

Answered(q) == \E i \in 1 .. Len(q) : q[i] = Answer

LEMMA SentType ==
    ASSUME Types, HostInv, dev.pass
    PROVE  LET d == Sent(dev)
           IN  /\ d \in DevSet
               /\ d.state = "config" /\ d.on = dev.on /\ d.regs = dev.regs
               /\ \A i \in 1 .. Len(d.queue) : \E k \in 1 .. Len(dev.queue) : d.queue[i] = dev.queue[k]
<1>1. dev \in DevSet /\ dev.state = "config" /\ spis.tx = Prepared(dev.queue)
  BY DEF Types, HostInv
<1>2. CASE ~(spis.tx # NoMsg /\ spis.whole)
  BY <1>1, <1>2 DEF Sent
<1>3. CASE spis.tx # NoMsg /\ spis.whole
  <2>1. Sent(dev) = [dev EXCEPT !.queue = Tail(dev.queue)]
    BY <1>3 DEF Sent
  <2>2. dev.queue \in Seq(Says) /\ dev.queue # <<>> /\ Len(dev.queue) <= QueueSize
    BY <1>1, <1>3 DEF DevSet, Prepared
  <2> DEFINE q == Tail(dev.queue)
  <2>3. /\ q \in Seq(Says) /\ Len(q) = Len(dev.queue) - 1 /\ Len(dev.queue) \in Nat
        /\ \A i \in 1 .. Len(q) : q[i] = dev.queue[i + 1]
    BY <2>2
  <2>4. Len(q) <= QueueSize
    BY <2>2, <2>3, DeviceControlAssumption
  <2>5. \A i \in 1 .. Len(q) : \E k \in 1 .. Len(dev.queue) : q[i] = dev.queue[k]
    <3> SUFFICES ASSUME NEW i \in 1 .. Len(q)
                 PROVE  \E k \in 1 .. Len(dev.queue) : q[i] = dev.queue[k]
      OBVIOUS
    <3>1. i + 1 \in 1 .. Len(dev.queue)
      BY <2>3
    <3>. QED
      BY <2>3, <3>1
  <2> HIDE DEF q
  <2>6. /\ [dev EXCEPT !.queue = q] \in DevSet
        /\ [dev EXCEPT !.queue = q].queue = q
        /\ [dev EXCEPT !.queue = q].state = "config"
        /\ [dev EXCEPT !.queue = q].on = dev.on
        /\ [dev EXCEPT !.queue = q].regs = dev.regs
    BY <1>1, <2>3, <2>4 DEF DevSet
  <2>. QED
    BY <2>1, <2>5, <2>6 DEF q
<1>. QED
  BY <1>2, <1>3

LEMMA WrittenType ==
    ASSUME Types, NEW d \in DevSet, d.on = dev.on, d.regs = dev.regs, spis.rx.type = "config"
    PROVE  LET w == Written(d, spis.rx)
           IN  /\ WriteStatus(d, spis.rx) = WriteStatus(dev, spis.rx)
               /\ WriteStatus(dev, spis.rx) \in Statuses
               /\ w \in DevSet /\ w.queue = d.queue /\ w.state = d.state
               /\ WriteStatus(dev, spis.rx) # "accepted" => Unwritten(w)
               /\ WriteStatus(dev, spis.rx) = "accepted" => Takes(w)
<1> DEFINE m == spis.rx
<1>1. m.reg \in RegNames /\ m.v \in Values
  BY MsgTypes DEF Types, SpisSet
<1>2. WriteStatus(d, m) = WriteStatus(dev, m) /\ WriteStatus(dev, m) \in Statuses
  <2>1. WriteStatus(d, m) = WriteStatus(dev, m)
    BY Zenon DEF WriteStatus
  <2>2. "started" \in Statuses /\ "not allowed" \in Statuses /\ "start check" \in Statuses
        /\ "accepted" \in Statuses
    BY DEF Statuses
  <2>3. WriteStatus(dev, m) \in Statuses
    <3>1. CASE dev.on
      BY <2>2, <3>1, Zenon DEF WriteStatus
    <3>2. CASE ~dev.on /\ ~Allowed(m.reg, m.v)
      BY <2>2, <3>2, Zenon DEF WriteStatus
    <3>3. CASE ~dev.on /\ Allowed(m.reg, m.v) /\ (m.reg = "capture" /\ ~StartCheck(dev.regs))
      BY <2>2, <3>3, Zenon DEF WriteStatus
    <3>4. CASE ~dev.on /\ Allowed(m.reg, m.v) /\ ~(m.reg = "capture" /\ ~StartCheck(dev.regs))
      BY <2>2, <3>4, Zenon DEF WriteStatus
    <3>. QED
      BY <3>1, <3>2, <3>3, <3>4, Zenon
  <2>. QED
    BY <2>1, <2>3
<1>3. CASE WriteStatus(dev, m) # "accepted"
  <2>1. Written(d, m) = d
    BY <1>2, <1>3 DEF Written
  <2>. QED
    BY <1>2, <1>3, <2>1 DEF Unwritten
<1>4. CASE WriteStatus(dev, m) = "accepted"
  <2>1. ~dev.on
    BY <1>4 DEF WriteStatus
  <2>2. CASE m.reg = "capture"
    <3>1. Written(d, m) = [d EXCEPT !.on = TRUE]
      BY <1>2, <1>4, <2>2 DEF Written
    <3>. QED
      BY <1>2, <1>4, <2>1, <2>2, <3>1 DEF DevSet, Takes
  <2>3. CASE m.reg # "capture"
    <3>1. m.reg \in Names
      BY <1>1, <2>3 DEF RegNames
    <3> DEFINE regs == [dev.regs EXCEPT ![m.reg] = m.v]
    <3>2. Written(d, m) = [d EXCEPT !.regs = regs]
      BY <1>2, <1>4, <2>3 DEF Written
    <3>3. regs \in [Names -> Values]
      BY <1>1, <3>1 DEF Types, DevSet
    <3> HIDE DEF regs
    <3>4. /\ [d EXCEPT !.regs = regs] \in DevSet
          /\ [d EXCEPT !.regs = regs].queue = d.queue
          /\ [d EXCEPT !.regs = regs].state = d.state
          /\ [d EXCEPT !.regs = regs].on = d.on
          /\ [d EXCEPT !.regs = regs].regs = regs
      BY <3>3 DEF DevSet
    <3>. QED
      BY <1>2, <1>4, <2>1, <2>3, <3>2, <3>4 DEF Takes, regs
  <2>. QED
    BY <2>2, <2>3
<1>. QED
  BY <1>3, <1>4

\* Nothing new is queued, or the answer to what was heard, which says whether it was taken.
OldQueue(q) == \A i \in 1 .. Len(q) : \E k \in 1 .. Len(dev.queue) : q[i] = dev.queue[k]

LEMMA PassEffect ==
    ASSUME Types, HostInv, dev.pass
    PROVE  LET d == AfterPass
           IN  /\ d \in DevSet /\ d.state = "config" /\ ~d.pass
               /\ \/ Unwritten(d) /\ OldQueue(d.queue)
                  \/ /\ spis.rx.type = "config" /\ WriteStatus(dev, spis.rx) # "accepted"
                     /\ Unwritten(d) /\ QueueFrom(d.queue)
                  \/ /\ spis.rx.type = "config" /\ WriteStatus(dev, spis.rx) = "accepted"
                     /\ Takes(d) /\ QueueFrom(d.queue)
<1> DEFINE m == spis.rx
           s == Sent(dev)
           d == AfterPass
<1>1. /\ s \in DevSet /\ s.state = "config" /\ s.on = dev.on /\ s.regs = dev.regs
      /\ OldQueue(s.queue)
  BY SentType DEF OldQueue
<1>2. dev \in DevSet /\ dev.state = "config" /\ m \in Hears
  BY DEF Types, SpisSet, HostInv
<1>3. ASSUME NEW e \in DevSet, d = [e EXCEPT !.pass = FALSE]
      PROVE  /\ d \in DevSet /\ d.state = e.state /\ ~d.pass
             /\ d.queue = e.queue /\ d.on = e.on /\ d.regs = e.regs
  <2> HIDE DEF d
  <2>. QED
    BY <1>3 DEF DevSet
<1>4. CASE ~TookPlace
  <2>1. d = [dev EXCEPT !.pass = FALSE]
    BY <1>4 DEF AfterPass
  <2>2. OldQueue(dev.queue)
    BY DEF OldQueue
  <2>. QED
    BY <1>2, <1>3, <2>1, <2>2 DEF Unwritten
<1>5. CASE TookPlace /\ (m.type # "config" \/ Len(s.queue) >= QueueSize)
  <2> DEFINE e == RxHandle(s, m)
  <2>1. d = [e EXCEPT !.pass = FALSE]
    BY <1>5 DEF AfterPass
  <2>2. e = s \/ e = [s EXCEPT !.full = TRUE]
    BY <1>5 DEF RxHandle, Handled
  <2>3. /\ e \in DevSet /\ e.state = "config" /\ e.on = dev.on /\ e.regs = dev.regs
        /\ e.queue = s.queue
    <3> HIDE DEF s, e
    <3>. QED
      BY <1>1, <2>2 DEF DevSet
  <2> HIDE DEF d, e, s
  <2>. QED
    BY <1>1, <1>3, <2>1, <2>3 DEF Unwritten, d
<1>6. CASE TookPlace /\ m.type = "config" /\ ~(Len(s.queue) >= QueueSize)
  <2> DEFINE w == Written(s, m)
             q == Append(s.queue, Answer)
             e == [w EXCEPT !.queue = q]
  <2>1. /\ WriteStatus(s, m) = WriteStatus(dev, m) /\ WriteStatus(dev, m) \in Statuses
        /\ w \in DevSet /\ w.queue = s.queue /\ w.state = "config"
        /\ WriteStatus(dev, m) # "accepted" => Unwritten(w)
        /\ WriteStatus(dev, m) = "accepted" => Takes(w)
    BY <1>1, <1>6, WrittenType
  <2>2. d = [e EXCEPT !.pass = FALSE]
    BY <1>6, <2>1 DEF AfterPass, RxHandle, Handled, Answer
  <2>3. Answer \in Says
    BY <1>2, <1>6, <2>1, MsgTypes DEF Answer
  <2>4. s.queue \in Seq(Says) /\ Len(s.queue) < QueueSize
    BY <1>1, <1>6, DeviceControlAssumption DEF DevSet
  <2> HIDE DEF s, w, d
  <2>5. /\ q \in Seq(Says) /\ Len(q) = Len(s.queue) + 1 /\ Len(q) <= QueueSize
        /\ q[Len(q)] = Answer /\ \A i \in 1 .. Len(s.queue) : q[i] = s.queue[i]
    BY <2>3, <2>4, DeviceControlAssumption
  <2>6. QueueFrom(q)
    <3> SUFFICES ASSUME NEW i \in 1 .. Len(q)
                 PROVE  \/ \E k \in 1 .. Len(dev.queue) : q[i] = dev.queue[k]
                        \/ spis.rx.type = "config" /\ q[i] = Answer
      BY DEF QueueFrom
    <3>1. CASE i = Len(q)
      BY <1>6, <2>5, <3>1
    <3>2. CASE i # Len(q)
      <4>1. i \in 1 .. Len(s.queue)
        BY <2>4, <2>5, <3>2
      <4>2. q[i] = s.queue[i]
        BY <2>5, <4>1
      <4>. QED
        BY <1>1, <4>1, <4>2 DEF OldQueue
    <3>. QED
      BY <3>1, <3>2
  <2> HIDE DEF q
  <2>7. e \in DevSet /\ e.queue = q /\ e.state = "config" /\ e.on = w.on /\ e.regs = w.regs
    BY <2>1, <2>5 DEF DevSet
  <2> HIDE DEF e
  <2>8. d \in DevSet /\ d.state = "config" /\ ~d.pass /\ d.queue = q /\ d.on = w.on /\ d.regs = w.regs
    BY <1>3, <2>2, <2>7 DEF d
  <2>9. (Unwritten(w) => Unwritten(d)) /\ (Takes(w) => Takes(d))
    BY <2>8 DEF Unwritten, Takes
  <2>. QED
    BY <1>6, <2>1, <2>6, <2>8, <2>9 DEF d
<1>. QED
  BY <1>4, <1>5, <1>6

-----------------------------------------------------------------------------
(* What a message does to the host. *)

KeepsWaiting ==
    /\ host' \in HostSet /\ host'.op = host.op /\ host'.at = "wait"
    /\ host'.reg = host.reg /\ host'.n = host.n /\ host'.got = host.got
    /\ capturing' = capturing

Gives(m) ==
    /\ host' \in HostSet /\ host'.op = "idle" /\ host'.at = "idle"
    /\ host'.reg = host.reg /\ host'.n = host.n /\ host'.got = m

GoesOn(m, reg) ==
    /\ host' \in HostSet /\ host'.op = "config" /\ host'.at = "transfer"
    /\ host'.reg = reg + 1 /\ host'.n = host.n + 1 /\ host'.got = m
    /\ capturing' = capturing

\* The answer to the write under way.
IsAnswer(m) == host.op = "config" /\ m.type = "reply" /\ m.reg = Regs[host.reg]

LEMMA HostFields ==
    ASSUME Types, NEW h \in HostSet
    PROVE  /\ \A m \in Says : /\ [h EXCEPT !.got = m] \in HostSet
                              /\ [h EXCEPT !.got = m].got = m
                              /\ [h EXCEPT !.got = m].op = h.op
                              /\ [h EXCEPT !.got = m].at = h.at
                              /\ [h EXCEPT !.got = m].reg = h.reg
                              /\ [h EXCEPT !.got = m].n = h.n
           /\ LET w == WaitFor(h) IN
                 /\ w \in HostSet /\ w.op = h.op /\ w.at = "wait" /\ w.reg = h.reg /\ w.n = h.n
                 /\ w.got = h.got
           /\ LET w == Done(h) IN
                 /\ w \in HostSet /\ w.op = "idle" /\ w.at = "idle" /\ w.reg = h.reg /\ w.n = h.n
                 /\ w.got = h.got
           /\ h.reg < Len(Regs) =>
                 LET w == NextWrite(h) IN
                 /\ w \in HostSet /\ w.op = "config" /\ w.at = "transfer" /\ w.reg = h.reg + 1
                 /\ w.n = h.n + 1 /\ w.got = h.got
<1>1. 0 \in 0 .. Retries /\ Len(Regs) \in Nat
  BY DeviceControlAssumption, RegsOrder
<1>2. \A m \in Says : /\ [h EXCEPT !.got = m] \in HostSet
                      /\ [h EXCEPT !.got = m].got = m
                      /\ [h EXCEPT !.got = m].op = h.op
                      /\ [h EXCEPT !.got = m].at = h.at
                      /\ [h EXCEPT !.got = m].reg = h.reg
                      /\ [h EXCEPT !.got = m].n = h.n
  BY DEF HostSet
<1>3. LET w == WaitFor(h) IN
      /\ w \in HostSet /\ w.op = h.op /\ w.at = "wait" /\ w.reg = h.reg /\ w.n = h.n
      /\ w.got = h.got
  BY <1>1 DEF HostSet, WaitFor
<1>4. LET w == Done(h) IN
      /\ w \in HostSet /\ w.op = "idle" /\ w.at = "idle" /\ w.reg = h.reg /\ w.n = h.n
      /\ w.got = h.got
  BY DEF HostSet, Done
<1>5. ASSUME h.reg < Len(Regs)
      PROVE  LET w == NextWrite(h) IN
             /\ w \in HostSet /\ w.op = "config" /\ w.at = "transfer" /\ w.reg = h.reg + 1
             /\ w.n = h.n + 1 /\ w.got = h.got
  <2>1. h.reg \in 0 .. Len(Regs) /\ h.n \in Nat
    BY DEF HostSet
  <2>2. h.reg + 1 \in 0 .. Len(Regs) /\ h.n + 1 \in Nat
    BY <1>1, <1>5, <2>1
  <2> DEFINE reg == h.reg + 1
             n == h.n + 1
             w == [h EXCEPT !.op = "config", !.at = "transfer", !.tries = 0, !.reg = reg, !.n = n]
  <2>3. NextWrite(h) = w
    BY DEF NextWrite
  <2> HIDE DEF reg, n
  <2>4. /\ w \in HostSet /\ w.op = "config" /\ w.at = "transfer" /\ w.reg = reg
        /\ w.n = n /\ w.got = h.got
    BY <1>1, <2>2 DEF HostSet, reg, n
  <2> HIDE DEF w
  <2>. QED
    BY <2>3, <2>4 DEF reg, n
<1>. QED
  BY <1>2, <1>3, <1>4, <1>5

LEMMA TookEffect ==
    ASSUME Types, HostInv, host.at \in {"transfer", "poll"},
           NEW m \in Says \cup {NoMsg}, Took(m)
    PROVE  \/ KeepsWaiting
           \/ host.op = "stop" /\ Gives(host.got) /\ capturing' = capturing
           \/ host.op = "hello" /\ m.type = "hello" /\ GoesOn(m, 0)
           \/ IsAnswer(m) /\ m.status # "accepted" /\ Gives(m) /\ capturing' = capturing
           \/ /\ IsAnswer(m) /\ m.status = "accepted" /\ host.reg = Len(Regs)
              /\ Gives(m) /\ capturing' = TRUE
           \/ /\ IsAnswer(m) /\ m.status = "accepted" /\ host.reg # Len(Regs)
              /\ GoesOn(m, host.reg)
<1>1. host \in HostSet /\ host.op \in {"hello", "config", "stop"} /\ Len(Regs) = 5
  BY RegsOrder DEF Types, HostInv, HostSet
<1>2. CASE m.type = "none" \/ ~Wanted(m)
  <2>1. host' = WaitFor(host) /\ capturing' = capturing
    BY <1>2 DEF Took
  <2>. QED
    BY <1>1, <2>1, HostFields DEF KeepsWaiting
<1>3. CASE m.type # "none" /\ Wanted(m)
  <2>0. m \in Says
    BY <1>3, MsgTypes
  <2>1. CASE host.op = "stop"
    <3>1. host' = Done(host) /\ capturing' = capturing
      BY <1>3, <2>1 DEF Took
    <3>. QED
      BY <1>1, <2>1, <3>1, HostFields DEF Gives
  <2>2. CASE host.op = "hello"
    <3> DEFINE h == [host EXCEPT !.reg = 0, !.got = m]
    <3>1. host' = NextWrite(h) /\ capturing' = capturing
      BY <1>3, <2>2 DEF Took
    <3>2. m.type = "hello"
      BY <1>3, <2>2 DEF Wanted
    <3>3. h \in HostSet /\ h.reg = 0 /\ h.n = host.n /\ h.got = m
      <4> DEFINE g == [host EXCEPT !.reg = 0]
      <4>1. g \in HostSet /\ g.reg = 0 /\ g.n = host.n
        BY <1>1 DEF HostSet
      <4> HIDE DEF g
      <4>2. h = [g EXCEPT !.got = m]
        BY DEF g
      <4>. QED
        BY <2>0, <4>1, <4>2, HostFields
    <3> HIDE DEF h
    <3>. QED
      BY <1>1, <2>2, <3>1, <3>2, <3>3, HostFields DEF GoesOn
  <2>3. CASE host.op = "config"
    <3> DEFINE h == [host EXCEPT !.got = m]
    <3>1. IsAnswer(m) /\ host.reg \in 1 .. 5
      BY <1>1, <1>3, <2>3 DEF Wanted, IsAnswer, HostInv
    <3>2. h \in HostSet /\ h.reg = host.reg /\ h.n = host.n /\ h.got = m
      BY <1>1, <2>0, HostFields
    <3>3. CASE m.status # "accepted"
      <4>1. host' = Done(h) /\ capturing' = capturing
        BY <1>3, <2>3, <3>3 DEF Took, Rejected
      <4> HIDE DEF h
      <4>. QED
        BY <3>1, <3>2, <3>3, <4>1, HostFields DEF Gives
    <3>4. CASE m.status = "accepted" /\ host.reg = Len(Regs)
      <4>1. host' = Done(h) /\ capturing' = TRUE
        BY <1>3, <2>3, <3>4 DEF Took, Rejected
      <4> HIDE DEF h
      <4>. QED
        BY <3>1, <3>2, <3>4, <4>1, HostFields DEF Gives
    <3>5. CASE m.status = "accepted" /\ host.reg # Len(Regs)
      <4>1. host' = NextWrite(h) /\ capturing' = capturing
        BY <1>3, <2>3, <3>5 DEF Took, Rejected
      <4>2. h.reg < Len(Regs)
        BY <1>1, <3>1, <3>2, <3>5
      <4> HIDE DEF h
      <4>. QED
        BY <3>1, <3>2, <3>5, <4>1, <4>2, HostFields DEF GoesOn
    <3>. QED
      BY <3>3, <3>4, <3>5
  <2>. QED
    BY <1>1, <2>1, <2>2, <2>3
<1>. QED
  BY <1>2, <1>3

-----------------------------------------------------------------------------
(* The steps by what they do to what the invariants speak of. *)

SaidAsBefore ==
    /\ dev'.queue = dev.queue /\ spis'.tx = spis.tx
    /\ dev'.on = dev.on /\ dev'.regs = dev.regs /\ plan' = plan

\* Nothing is said, heard or written.
Quiet ==
    /\ SaidAsBefore /\ spis'.rx = spis.rx /\ capturing' = capturing /\ faults' = faults
    /\ host'.op = host.op /\ host'.reg = host.reg /\ host'.n = host.n /\ host'.got = host.got
    /\ host'.at = host.at \/ host'.at = "poll"

\* The host gives its operation up, which it does only after a fault.
HostStops ==
    /\ host'.op = "idle" /\ host'.at = "idle" /\ host'.got = host.got
    /\ capturing' = capturing /\ ~Good'

GivesUp == SaidAsBefore /\ spis'.rx = spis.rx /\ HostStops

StartsOver ==
    /\ dev'.queue = <<>> /\ spis'.tx = NoMsg /\ spis'.rx = NoMsg /\ ~dev'.on
    /\ host'.op \in {"hello", "stop"} /\ host'.at = "wait" /\ host'.got = host.got /\ ~capturing'

Boots ==
    /\ dev.state = "off"
    /\ \E n \in Nat : dev'.queue = <<Hello(n)>> /\ spis'.tx = Hello(n)
    /\ spis'.rx = NoMsg /\ ~dev'.on
    /\ UNCHANGED <<host, capturing, plan, faults>>

Passes ==
    /\ dev.pass
    /\ dev'.queue = AfterPass.queue /\ dev'.on = AfterPass.on /\ dev'.regs = AfterPass.regs
    /\ spis'.rx = NoMsg /\ spis'.tx \in {spis.tx, Prepared(AfterPass.queue)}
    /\ UNCHANGED <<host, capturing, plan, faults>>

Transacts ==
    /\ SaidAsBefore
    /\ host.at \in {"transfer", "poll"}
    /\ spis'.rx = Outgoing \/ spis'.rx = [type |-> "garbled"]
    /\ Good' => faults' = faults
    /\ \/ HostStops
       \/ \E m \in {spis.tx, NoMsg} : Took(m)

LEMMA BootStep ==
    ASSUME Types, HostInv, Boot
    PROVE  Types' /\ HostInv' /\ Boots
<1> DEFINE h == Hello(dev.boot + 1)
           q == <<h>>
<1>1. dev.boot \in Nat /\ dev.boot + 1 \in Nat /\ dev \in DevSet
  BY DEF Types, DevSet
<1>2. h \in Says /\ h # NoMsg
  BY <1>1, MsgTypes
<1>3. /\ dev' = [Off EXCEPT !.state = "config", !.boot = dev.boot + 1, !.queue = q]
      /\ spis' = [IdleSpis EXCEPT !.owner = "free", !.tx = h]
  BY DEF Boot
<1>4. dev.state = "off" /\ irq' = TRUE /\ UNCHANGED <<host, pending, capturing, plan, faults>>
  BY DEF Boot
<1> HIDE DEF h
<1>5. q \in Seq(Says) /\ Len(q) = 1 /\ q # <<>> /\ Head(q) = h
  BY <1>2
<1> HIDE DEF q
<1>6. /\ dev' \in DevSet /\ dev'.state = "config" /\ dev'.queue = q /\ ~dev'.on /\ ~dev'.pass
  <2> DEFINE b == dev.boot + 1
  <2>1. dev' = [state |-> "config", boot |-> b, queue |-> q, regs |-> Defaults, on |-> FALSE,
                pass |-> FALSE, full |-> FALSE]
    BY <1>3 DEF Off
  <2>2. b \in Nat /\ Len(q) <= QueueSize /\ Defaults \in [Names -> Values]
    BY <1>1, <1>5, PlanTypes, DeviceControlAssumption
  <2> HIDE DEF b
  <2>. QED
    BY <1>5, <2>1, <2>2 DEF DevSet
<1>7. spis' \in SpisSet /\ spis'.tx = h /\ spis'.rx = NoMsg
  BY <1>2, <1>3, MsgTypes DEF IdleSpis, SpisSet
<1>8. Types'
  BY <1>4, <1>6, <1>7 DEF Types
<1>9. HostInv'
  BY <1>4, <1>5, <1>6, <1>7 DEF HostInv, Prepared
<1>10. Boots
  BY <1>1, <1>4, <1>6, <1>7 DEF Boots, h, q
<1>. QED
  BY <1>8, <1>9, <1>10

LEMMA ServiceBeginStep ==
    ASSUME Types, HostInv, ServiceBegin
    PROVE  Types' /\ HostInv' /\ Quiet
<1>1. /\ dev' \in DevSet /\ dev'.state = "config" /\ dev'.queue = dev.queue /\ dev'.on = dev.on
      /\ dev'.regs = dev.regs
  <2>1. dev' = [dev EXCEPT !.pass = (spis.owner = "cpu")] /\ dev \in DevSet /\ dev.state = "config"
    BY DEF ServiceBegin, Types
  <2> DEFINE b == (spis.owner = "cpu")
  <2>2. b \in BOOLEAN /\ dev' = [dev EXCEPT !.pass = b]
    BY <2>1
  <2> HIDE DEF b
  <2>. QED
    BY <2>1, <2>2 DEF DevSet
<1>2. spis' \in SpisSet /\ spis'.tx = spis.tx /\ spis'.rx = spis.rx
  BY DEF ServiceBegin, Types, SpisSet
<1>3. UNCHANGED <<irq, host, pending, capturing, plan, faults>> /\ dev.state = "config"
  BY DEF ServiceBegin
<1>. QED
  BY <1>1, <1>2, <1>3 DEF Types, HostInv, Prepared, Quiet, SaidAsBefore

LEMMA ServiceEndStep ==
    ASSUME Types, HostInv, ServiceEnd
    PROVE  Types' /\ HostInv' /\ Passes
<1> DEFINE d == AfterPass
<1>1. dev.pass /\ UNCHANGED <<host, pending, capturing, plan, faults>>
  BY DEF ServiceEnd
<1>2. d \in DevSet /\ d.state = "config" /\ ~d.pass
  BY <1>1, PassEffect
<1>3. dev.state = "config" /\ host \in HostSet
  BY <1>1 DEF HostInv, Types
<1>4. CASE d.on /\ d.queue = <<>>
  <2>1. /\ dev' = [d EXCEPT !.state = "capture"]
        /\ irq' = FALSE
        /\ spis' = [spis EXCEPT !.rx = NoMsg]
    BY <1>4 DEF ServiceEnd
  <2> HIDE DEF d
  <2>2. /\ dev' \in DevSet /\ dev'.state = "capture" /\ ~dev'.pass /\ dev'.queue = d.queue
        /\ dev'.on = d.on /\ dev'.regs = d.regs
    BY <1>2, <2>1 DEF DevSet
  <2>3. spis' \in SpisSet /\ spis'.rx = NoMsg /\ spis'.tx = spis.tx
    BY <2>1, MsgTypes DEF Types, SpisSet
  <2>4. Types' /\ HostInv'
    BY <1>1, <1>3, <2>1, <2>2, <2>3 DEF Types, HostInv
  <2>. QED
    BY <1>1, <2>2, <2>3, <2>4 DEF Passes, d
<1>5. CASE ~(d.on /\ d.queue = <<>>)
  <2> DEFINE t == Prepared(d.queue)
  <2>1. /\ dev' = d
        /\ irq' = (d.queue # <<>>)
        /\ spis' = [spis EXCEPT !.owner = "free", !.rx = NoMsg, !.tx = t]
    BY <1>5 DEF ServiceEnd
  <2>2. t \in Says \cup {NoMsg}
    BY <1>2 DEF Prepared, DevSet
  <2> HIDE DEF d, t
  <2>3. spis' \in SpisSet /\ spis'.rx = NoMsg /\ spis'.tx = t
    BY <2>1, <2>2, MsgTypes DEF Types, SpisSet
  <2>4. irq' \in BOOLEAN
    BY <2>1
  <2>5. Types' /\ HostInv'
    BY <1>1, <1>2, <1>3, <2>1, <2>3, <2>4 DEF Types, HostInv, t
  <2>. QED
    BY <1>1, <2>1, <2>3, <2>5 DEF Passes, d, t
<1>. QED
  BY <1>4, <1>5

LEMMA ResetEffect ==
    ASSUME Types, Reset
    PROVE  /\ dev' \in DevSet /\ dev'.state = "off" /\ dev'.queue = <<>> /\ ~dev'.on /\ ~dev'.pass
           /\ spis' \in SpisSet /\ spis'.rx = NoMsg /\ spis'.tx = NoMsg
           /\ irq' = FALSE
<1>1. <<>> \in Seq(Says) /\ Len(<<>>) <= QueueSize
  BY DeviceControlAssumption
<1>2. /\ dev' \in DevSet /\ dev'.state = "off" /\ dev'.queue = <<>> /\ ~dev'.on /\ ~dev'.pass
  BY <1>1 DEF Reset, Types, DevSet
<1>3. spis' \in SpisSet /\ spis'.rx = NoMsg /\ spis'.tx = NoMsg
  BY MsgTypes DEF Reset, IdleSpis, SpisSet
<1>. QED
  BY <1>2, <1>3 DEF Reset

LEMMA StartStep ==
    ASSUME Types, HostInv, Start \/ Stop
    PROVE  Types' /\ HostInv' /\ StartsOver
<1>1. /\ dev' \in DevSet /\ dev'.state = "off" /\ dev'.queue = <<>> /\ ~dev'.on /\ ~dev'.pass
      /\ spis' \in SpisSet /\ spis'.rx = NoMsg /\ spis'.tx = NoMsg
      /\ irq' = FALSE
  BY ResetEffect DEF Start, Stop
<1>2. /\ host' \in HostSet /\ host'.op \in {"hello", "stop"} /\ host'.at = "wait"
      /\ host'.got = host.got
  <2>1. host \in HostSet
    BY DEF Types
  <2>2. CASE Start
    <3> DEFINE n == host.starts + 1
               h == [host EXCEPT !.op = "hello", !.starts = n]
    <3>1. n \in Nat /\ host' = WaitFor(h)
      BY <2>1, <2>2 DEF Start, HostSet
    <3> HIDE DEF n
    <3>2. h \in HostSet /\ h.op = "hello" /\ h.got = host.got
      BY <2>1, <3>1 DEF HostSet
    <3> HIDE DEF h
    <3>. QED
      BY <3>1, <3>2, HostFields
  <2>3. CASE Stop
    <3> DEFINE h == [host EXCEPT !.op = "stop"]
    <3>1. host' = WaitFor(h)
      BY <2>3 DEF Stop
    <3>2. h \in HostSet /\ h.op = "stop" /\ h.got = host.got
      BY <2>1 DEF HostSet
    <3> HIDE DEF h
    <3>. QED
      BY <3>1, <3>2, HostFields
  <2>. QED
    BY <2>2, <2>3
<1>3. capturing' = FALSE /\ faults' = faults /\ plan' \in [Names -> Values]
  BY PlanTypes DEF Start, Stop, Types
<1>. QED
  BY <1>1, <1>2, <1>3 DEF Types, HostInv, StartsOver

LEMMA WaitStep ==
    ASSUME Types, HostInv, Wait
    PROVE  Types' /\ HostInv' /\ Quiet
<1>1. host.at = "wait" /\ irq /\ UNCHANGED <<dev, spis, irq, pending, capturing, plan, faults>>
  BY DEF Wait
<1>2. dev.state # "off"
  BY <1>1 DEF HostInv
<1>3. /\ host' \in HostSet /\ host'.op = host.op /\ host'.at = "poll" /\ host'.reg = host.reg
      /\ host'.n = host.n /\ host'.got = host.got
  BY DEF Wait, Types, HostSet
<1>. QED
  BY <1>1, <1>2, <1>3 DEF Types, HostInv, Quiet, SaidAsBefore

LEMMA NotGood ==
    ASSUME Types, \/ faults.noise > 0 /\ faults' = faults
                  \/ faults' = [faults EXCEPT !.slow = @ + 1]
                  \/ faults' = [faults EXCEPT !.noise = @ + 1]
    PROVE  ~Good' /\ faults' \in [noise : Nat, slow : Nat]
<1>1. faults \in [noise : Nat, slow : Nat]
  BY DEF Types
<1>2. CASE faults.noise > 0 /\ faults' = faults
  BY <1>1, <1>2 DEF Good
<1>3. CASE faults' = [faults EXCEPT !.slow = @ + 1]
  BY <1>1, <1>3 DEF Good
<1>4. CASE faults' = [faults EXCEPT !.noise = @ + 1]
  BY <1>1, <1>4 DEF Good
<1>. QED
  BY <1>2, <1>3, <1>4

LEMMA TimeoutStep ==
    ASSUME Types, HostInv, Timeout
    PROVE  Types' /\ HostInv' /\ GivesUp
<1>1. host.at = "wait" /\ UNCHANGED <<dev, spis, irq, pending, capturing, plan>>
  BY DEF Timeout
<1>2. ~Good' /\ faults' \in [noise : Nat, slow : Nat]
  BY NotGood DEF Timeout
<1>3. host' = Done(host) /\ host \in HostSet
  BY DEF Timeout, Types
<1>4. /\ host' \in HostSet /\ host'.op = "idle" /\ host'.at = "idle" /\ host'.got = host.got
  BY <1>3, HostFields
<1>. QED
  BY <1>1, <1>2, <1>4 DEF Types, HostInv, GivesUp, HostStops, SaidAsBefore

LEMMA RefuseStep ==
    ASSUME Types, HostInv, Refuse
    PROVE  Types' /\ HostInv' /\ Quiet
<1>1. UNCHANGED <<dev, irq, host, pending, capturing, plan, faults>>
  BY DEF Refuse
<1>2. spis' \in SpisSet /\ spis'.tx = spis.tx /\ spis'.rx = spis.rx
  BY DEF Refuse, Types, SpisSet
<1>. QED
  BY <1>1, <1>2 DEF Types, HostInv, Quiet, SaidAsBefore

LEMMA NotReadyStep ==
    ASSUME Types, HostInv, NotReady
    PROVE  Types' /\ HostInv' /\ (Quiet \/ GivesUp)
<1>1. UNCHANGED <<dev, irq, pending, capturing, plan>> /\ host \in HostSet
  BY DEF NotReady, Types
<1>2. spis' \in SpisSet /\ spis'.tx = spis.tx /\ spis'.rx = spis.rx
  BY DEF NotReady, Types, SpisSet
<1>3. CASE host.tries + 1 < Retries /\ host' = [host EXCEPT !.tries = @ + 1] /\ faults' = faults
  <2>1. /\ host' \in HostSet /\ host'.op = host.op /\ host'.at = host.at /\ host'.reg = host.reg
        /\ host'.n = host.n /\ host'.got = host.got
    <3> DEFINE t == host.tries + 1
    <3>1. t \in 0 .. Retries /\ host' = [host EXCEPT !.tries = t]
      BY <1>1, <1>3, DeviceControlAssumption DEF HostSet
    <3> HIDE DEF t
    <3>. QED
      BY <1>1, <3>1 DEF HostSet
  <2>. QED
    BY <1>1, <1>2, <1>3, <2>1 DEF Types, HostInv, Quiet, SaidAsBefore
<1>4. CASE faults' = [faults EXCEPT !.slow = @ + 1] /\ host' = Done(host)
  <2>1. ~Good' /\ faults' \in [noise : Nat, slow : Nat]
    BY <1>4, NotGood
  <2>2. /\ host' \in HostSet /\ host'.op = "idle" /\ host'.at = "idle" /\ host'.got = host.got
    BY <1>1, <1>4, HostFields
  <2>. QED
    BY <1>1, <1>2, <2>1, <2>2 DEF Types, HostInv, GivesUp, HostStops, SaidAsBefore
<1>. QED
  BY <1>3, <1>4 DEF NotReady

LEMMA OutgoingType ==
    ASSUME Types, HostInv
    PROVE  /\ Outgoing \in Hears
           /\ host.at = "transfer" =>
                 /\ host.reg \in 1 .. Len(Regs)
                 /\ Outgoing.type = "config" /\ Outgoing.n = host.n
                 /\ Outgoing.reg = Regs[host.reg] /\ Outgoing.v = Value(Outgoing.reg)
           /\ host.at # "transfer" => Outgoing.type = "empty"
<1>1. CASE host.at = "transfer"
  <2>1. host.reg \in 1 .. Len(Regs) /\ host.n \in Int
    BY <1>1 DEF HostInv, Types, HostSet
  <2>2. Regs[host.reg] \in RegNames
    BY <2>1, RegsOrder
  <2>3. Value(Regs[host.reg]) \in Values
    BY <2>2, ValueType DEF Types
  <2>4. Outgoing = Config(host.n, Regs[host.reg], Value(Regs[host.reg]))
    BY <1>1 DEF Outgoing
  <2>. QED
    BY <1>1, <2>1, <2>2, <2>3, <2>4, MsgTypes
<1>2. CASE host.at # "transfer"
  BY <1>2 DEF Outgoing, Hears
<1>. QED
  BY <1>1, <1>2

LEMMA TransactionStep ==
    ASSUME Types, HostInv, Transaction
    PROVE  Types' /\ HostInv' /\ Transacts
<1>1. /\ UNCHANGED <<dev, irq, plan>> /\ host.at \in {"transfer", "poll"}
      /\ host \in HostSet /\ dev.state # "off"
  BY DEF Transaction, Types, HostInv
<1>2. PICK f \in Fates :
         /\ faults' = IF f = <<"ok", "ok">> THEN faults ELSE [faults EXCEPT !.noise = @ + 1]
         /\ \E whole \in BOOLEAN :
               spis' = [spis EXCEPT
                           !.owner = "cpu", !.event = TRUE, !.whole = whole,
                           !.rx = IF f[1] = "ok" THEN Outgoing ELSE [type |-> "garbled"]]
         /\ IF f[2] = "bad" /\ spis.tx # NoMsg
            THEN host' = Done(host) /\ UNCHANGED <<pending, capturing>>
            ELSE Took(IF f[2] = "ok" THEN spis.tx ELSE NoMsg)
  BY DEF Transaction
<1>3. spis' \in SpisSet /\ spis'.tx = spis.tx /\ spis'.rx \in {Outgoing, [type |-> "garbled"]}
  <2> DEFINE rx == IF f[1] = "ok" THEN Outgoing ELSE [type |-> "garbled"]
  <2>1. rx \in Hears /\ rx \in {Outgoing, [type |-> "garbled"]}
    BY OutgoingType DEF Hears
  <2>2. PICK whole \in BOOLEAN : spis' = [spis EXCEPT !.owner = "cpu", !.event = TRUE, !.whole = whole,
                                                       !.rx = rx]
    BY <1>2
  <2> HIDE DEF rx
  <2>. QED
    BY <2>1, <2>2 DEF Types, SpisSet
<1>4. /\ faults' \in [noise : Nat, slow : Nat] /\ (f # <<"ok", "ok">> => ~Good')
      /\ Good' => faults' = faults
  BY <1>2, NotGood DEF Types
<1>5. CASE f[2] = "bad" /\ spis.tx # NoMsg
  <2>1. host' = Done(host) /\ capturing' = capturing
    BY <1>2, <1>5
  <2>2. f # <<"ok", "ok">>
    BY <1>5
  <2>3. /\ host' \in HostSet /\ host'.op = "idle" /\ host'.at = "idle" /\ host'.got = host.got
    BY <1>1, <2>1, HostFields
  <2>. QED
    BY <1>1, <1>3, <1>4, <2>1, <2>2, <2>3 DEF Types, HostInv, Transacts, HostStops, SaidAsBefore
<1>6. CASE ~(f[2] = "bad" /\ spis.tx # NoMsg)
  <2>1. PICK m \in {spis.tx, NoMsg} : Took(m)
    BY <1>2, <1>6
  <2>2. m \in Says \cup {NoMsg}
    BY DEF Types, SpisSet
  <2>3. Types' /\ HostInv'
    <3>1. /\ host' \in HostSet
          /\ host'.op = "config" => host'.reg \in 1 .. Len(Regs)
          /\ host'.at = "transfer" => host'.op = "config"
          /\ host'.at = "idle" <=> host'.op = "idle"
          /\ capturing' => host'.op = "idle"
          /\ capturing' \in BOOLEAN
      <4>1. capturing = FALSE /\ host.op # "idle"
        BY <1>1 DEF HostInv, Types
      <4>2. host.op = "config" => host.reg \in 1 .. 5
        BY RegsOrder DEF HostInv
      <4>3. CASE KeepsWaiting
        BY <4>1, <4>2, <4>3, RegsOrder DEF KeepsWaiting
      <4>4. CASE Gives(host'.got) /\ capturing' \in BOOLEAN
        BY <4>4 DEF Gives
      <4>5. CASE \E reg \in 0 .. 4 : GoesOn(m, reg)
        <5>1. PICK reg \in 0 .. 4 : GoesOn(m, reg)
          BY <4>5
        <5>2. host'.reg \in 1 .. Len(Regs) /\ ~capturing'
          BY <4>1, <5>1, RegsOrder DEF GoesOn
        <5>. QED
          BY <4>1, <5>1, <5>2 DEF GoesOn
      <4>6. KeepsWaiting \/ Gives(host'.got) \/ \E reg \in 0 .. 4 : GoesOn(m, reg)
        <5>1. \A g : Gives(g) => Gives(host'.got)
          BY DEF Gives
        <5>2. CASE IsAnswer(m) /\ host.reg # Len(Regs) /\ GoesOn(m, host.reg)
          BY <4>2, <5>2, RegsOrder DEF IsAnswer
        <5>3. GoesOn(m, 0) => \E reg \in 0 .. 4 : GoesOn(m, reg)
          OBVIOUS
        <5>4. \/ KeepsWaiting \/ Gives(host.got) \/ Gives(m) \/ GoesOn(m, 0)
              \/ IsAnswer(m) /\ host.reg # Len(Regs) /\ GoesOn(m, host.reg)
          BY <1>1, <2>1, <2>2, TookEffect, Zenon
        <5>. QED
          BY <5>1, <5>2, <5>3, <5>4, Zenon
      <4>7. capturing' \in BOOLEAN
        BY <1>1, <2>1, <2>2, <4>1, TookEffect DEF KeepsWaiting, GoesOn
      <4>. QED
        BY <4>3, <4>4, <4>5, <4>6, <4>7
    <3>. QED
      BY <1>1, <1>3, <1>4, <3>1 DEF Types, HostInv
  <2>. QED
    BY <1>1, <1>3, <1>4, <2>1, <2>3 DEF Transacts, SaidAsBefore
<1>. QED
  BY <1>5, <1>6

LEMMA Steps ==
    ASSUME Types, HostInv, [Next]_vars
    PROVE  /\ Types' /\ HostInv'
           /\ Quiet \/ GivesUp \/ StartsOver \/ Boots \/ Passes \/ Transacts
<1>1. CASE UNCHANGED vars
  BY <1>1 DEF vars, Types, HostInv, Quiet, SaidAsBefore
<1>. QED
  BY <1>1, BootStep, ServiceBeginStep, ServiceEndStep, StartStep, WaitStep, TimeoutStep,
     RefuseStep, NotReadyStep, TransactionStep DEF Next

-----------------------------------------------------------------------------
(* A reply answers the write the host waits for. *)

\* What the host may hear next, now or later.
Told == {dev.queue[i] : i \in 1 .. Len(dev.queue)} \cup {spis.tx}

\* A write or an answer is of this start: the n of its register in the order of the writes.
OwnMsg(m) ==
    m.type \in {"config", "reply"} =>
        /\ host.op \in {"config", "idle"}
        /\ host.op = "config" =>
              \E i \in 1 .. host.reg :
                 /\ m.reg = Regs[i] /\ m.n = host.n - host.reg + i
                 /\ host.at = "transfer" => i < host.reg

NumberedInv == \A m \in Told \cup {spis.rx} : OwnMsg(m)

LEMMA ToldTypes ==
    ASSUME Types
    PROVE  /\ Told \subseteq Says \cup {NoMsg} /\ spis.tx \in Told
           /\ spis.rx \in Hears
BY DEF Types, DevSet, SpisSet, Told

LEMMA ToldSame == SaidAsBefore => Told' = Told
BY DEF SaidAsBefore, Told

LEMMA ToldNothing ==
    ASSUME StartsOver \/ Boots
    PROVE  /\ \A m \in Told' : m.type \in {"none", "hello"}
           /\ spis'.rx = NoMsg /\ ~dev'.on
<1>1. CASE StartsOver
  BY <1>1, MsgTypes DEF StartsOver, Told
<1>2. CASE Boots
  <2>1. PICK n \in Nat : dev'.queue = <<Hello(n)>> /\ spis'.tx = Hello(n)
    BY <1>2 DEF Boots
  <2> DEFINE h == Hello(n)
  <2>2. h.type = "hello" /\ dev'.queue = <<h>> /\ spis'.tx = h
    BY <2>1, MsgTypes
  <2> HIDE DEF h
  <2>3. Len(dev'.queue) = 1 /\ dev'.queue[1] = h
    BY <2>2
  <2>4. \A m \in Told' : m = h
    BY <2>2, <2>3 DEF Told
  <2>. QED
    BY <1>2, <2>2, <2>4 DEF Boots
<1>. QED
  BY <1>1, <1>2

\* What is told after a pass was told before, or is the answer, which says what was done.
LEMMA ToldByPass ==
    ASSUME Types, HostInv, Passes
    PROVE  \/ /\ Unwritten(dev')
              /\ \A m \in Told' : m \in Told \/ m = NoMsg
           \/ /\ spis.rx.type = "config" /\ WriteStatus(dev, spis.rx) # "accepted"
              /\ Unwritten(dev')
              /\ \A m \in Told' : m \in Told \/ m = NoMsg \/ m = Answer
           \/ /\ spis.rx.type = "config" /\ WriteStatus(dev, spis.rx) = "accepted"
              /\ Takes(dev')
              /\ \A m \in Told' : m \in Told \/ m = NoMsg \/ m = Answer
<1> DEFINE d == AfterPass
           q == d.queue
<1>1. /\ dev'.queue = q /\ dev'.on = d.on /\ dev'.regs = d.regs
      /\ spis'.tx \in {spis.tx, Prepared(q)}
  BY DEF Passes
<1>2. /\ q \in Seq(Says)
      /\ \/ Unwritten(d) /\ OldQueue(q)
         \/ /\ spis.rx.type = "config" /\ WriteStatus(dev, spis.rx) # "accepted"
            /\ Unwritten(d) /\ QueueFrom(q)
         \/ /\ spis.rx.type = "config" /\ WriteStatus(dev, spis.rx) = "accepted"
            /\ Takes(d) /\ QueueFrom(q)
  BY PassEffect DEF Passes, DevSet
<1>3. (Unwritten(d) => Unwritten(dev')) /\ (Takes(d) => Takes(dev'))
  BY <1>1 DEF Unwritten, Takes
<1> HIDE DEF d, q
<1>4. \A m \in Told' : m \in Told \/ m = NoMsg \/ \E i \in 1 .. Len(q) : m = q[i]
  <2>1. Prepared(q) = NoMsg \/ \E i \in 1 .. Len(q) : Prepared(q) = q[i]
    BY <1>2 DEF Prepared
  <2>. QED
    BY <1>1, <2>1 DEF Told
<1>5. OldQueue(q) => \A i \in 1 .. Len(q) : q[i] \in Told
  BY DEF OldQueue, Told
<1>6. QueueFrom(q) => \A i \in 1 .. Len(q) : q[i] \in Told \/ q[i] = Answer
  BY DEF QueueFrom, Told
<1>. QED
  BY <1>2, <1>3, <1>4, <1>5, <1>6

LEMMA AnswerFields ==
    ASSUME Types, spis.rx.type = "config"
    PROVE  /\ Answer.type = "reply" /\ Answer.n = spis.rx.n /\ Answer.reg = spis.rx.reg
           /\ Answer.status = WriteStatus(dev, spis.rx)
           /\ spis.rx.reg \in RegNames
BY MsgTypes, ToldTypes DEF Answer, ConfigReply

\* An answer that comes is to the write under way, and comes only after it was sent.
LEMMA AnswerIsOwn ==
    ASSUME Types, HostInv, NumberedInv, NEW m \in Told, IsAnswer(m)
    PROVE  m.n = host.n /\ host.at # "transfer"
<1>1. host.op = "config" /\ host.reg \in 1 .. Len(Regs) /\ m.type = "reply"
      /\ m.reg = Regs[host.reg] /\ host.n \in Nat /\ Len(Regs) = 5
  BY RegsOrder DEF IsAnswer, HostInv, Types, HostSet
<1>2. PICK i \in 1 .. host.reg : /\ m.reg = Regs[i] /\ m.n = host.n - host.reg + i
                                 /\ host.at = "transfer" => i < host.reg
  BY <1>1 DEF NumberedInv, OwnMsg
<1>3. i = host.reg
  <2>1. i \in 1 .. Len(Regs) /\ Regs[i] = Regs[host.reg]
    BY <1>1, <1>2
  <2>. QED
    BY <1>1, <2>1, RegsOrder
<1>. QED
  BY <1>1, <1>2, <1>3

LEMMA NumberedInit == Init => NumberedInv
BY MsgTypes DEF Init, Off, IdleSpis, NumberedInv, Told, OwnMsg

LEMMA NumberedTransact ==
    ASSUME Types, HostInv, NumberedInv, Transacts
    PROVE  NumberedInv'
<1>1. /\ Told' = Told /\ host \in HostSet /\ host.n \in Nat /\ Len(Regs) = 5
      /\ host.op = "config" => host.reg \in 1 .. 5
      /\ host.op # "idle"
      /\ host.at = "transfer" => host.op = "config"
  BY ToldSame, RegsOrder DEF Transacts, Types, HostSet, HostInv
<1>2. spis'.rx.type \in {"config", "reply"} =>
         /\ host.at = "transfer" /\ spis'.rx.n = host.n /\ spis'.rx.reg = Regs[host.reg]
  <2>1. CASE spis'.rx = Outgoing
    BY <2>1, OutgoingType
  <2>2. CASE spis'.rx = [type |-> "garbled"]
    BY <2>2
  <2>. QED
    BY <2>1, <2>2 DEF Transacts
<1>3. \A m \in Told : OwnMsg(m)
  BY DEF NumberedInv
<1>4. CASE host'.op = "idle"
  BY <1>4 DEF NumberedInv, OwnMsg
<1>5. CASE KeepsWaiting
  <2>1. host'.op = host.op /\ host'.reg = host.reg /\ host'.n = host.n /\ host'.at = "wait"
    BY <1>5 DEF KeepsWaiting
  <2>2. \A m \in Told : OwnMsg(m)'
    BY <1>3, <2>1 DEF OwnMsg
  <2>3. OwnMsg(spis.rx)'
    BY <1>1, <1>2, <2>1 DEF OwnMsg
  <2>. QED
    BY <1>1, <2>2, <2>3 DEF NumberedInv
<1>6. ASSUME NEW m, host.op = "hello", GoesOn(m, 0)
      PROVE  NumberedInv'
  <2>1. \A k \in Told : ~(k.type \in {"config", "reply"})
    BY <1>3, <1>6 DEF OwnMsg
  <2>2. ~(spis'.rx.type \in {"config", "reply"})
    BY <1>1, <1>2, <1>6
  <2>. QED
    BY <1>1, <2>1, <2>2 DEF NumberedInv, OwnMsg
<1>7. ASSUME NEW m, host.op = "config", GoesOn(m, host.reg)
      PROVE  NumberedInv'
  <2>1. /\ host'.op = "config" /\ host'.reg = host.reg + 1 /\ host'.n = host.n + 1
        /\ host.reg \in 1 .. 5
    BY <1>1, <1>7 DEF GoesOn
  <2>2. ASSUME NEW k \in Told, k.type \in {"config", "reply"}
        PROVE  OwnMsg(k)'
    <3>1. PICK i \in 1 .. host.reg : k.reg = Regs[i] /\ k.n = host.n - host.reg + i
      BY <1>3, <1>7, <2>2 DEF OwnMsg
    <3>2. i \in 1 .. host'.reg /\ i < host'.reg /\ k.n = host'.n - host'.reg + i
      BY <1>1, <2>1, <3>1
    <3>. QED
      BY <2>1, <3>1, <3>2 DEF OwnMsg
  <2>3. ASSUME spis'.rx.type \in {"config", "reply"}
        PROVE  OwnMsg(spis.rx)'
    <3> DEFINE i == host.reg
    <3>1. i \in 1 .. host'.reg /\ i < host'.reg /\ host.n = host'.n - host'.reg + i
      BY <1>1, <2>1
    <3>. QED
      BY <1>2, <2>1, <2>3, <3>1 DEF OwnMsg
  <2>. QED
    BY <1>1, <2>2, <2>3 DEF NumberedInv, OwnMsg
<1>8. CASE HostStops
  BY <1>4, <1>8 DEF HostStops
<1>9. CASE \E m \in {spis.tx, NoMsg} : Took(m)
  <2>1. PICK m \in {spis.tx, NoMsg} : Took(m)
    BY <1>9
  <2>2. m \in Says \cup {NoMsg} /\ host.at \in {"transfer", "poll"}
    BY ToldTypes DEF Transacts
  <2>3. \/ KeepsWaiting \/ Gives(host.got) \/ Gives(m)
        \/ host.op = "hello" /\ GoesOn(m, 0)
        \/ host.op = "config" /\ GoesOn(m, host.reg)
    BY <2>1, <2>2, TookEffect, Zenon DEF IsAnswer
  <2>4. \A g : Gives(g) => host'.op = "idle"
    BY DEF Gives
  <2>. QED
    BY <1>4, <1>5, <1>6, <1>7, <2>3, <2>4
<1>. QED
  BY <1>8, <1>9 DEF Transacts

LEMMA NumberedStep ==
    ASSUME Types, HostInv, NumberedInv, [Next]_vars
    PROVE  NumberedInv'
<1>1. CASE Quiet
  <2>1. Told' = Told /\ spis'.rx = spis.rx
    BY <1>1, ToldSame DEF Quiet
  <2>2. \A m \in Told \cup {spis.rx} : OwnMsg(m)'
    BY <1>1 DEF Quiet, NumberedInv, OwnMsg
  <2>. QED
    BY <2>1, <2>2 DEF NumberedInv
<1>2. CASE GivesUp
  BY <1>2 DEF GivesUp, HostStops, NumberedInv, OwnMsg
<1>3. CASE StartsOver \/ Boots
  BY <1>3, ToldNothing, MsgTypes DEF NumberedInv, OwnMsg
<1>4. CASE Passes
  <2>1. host' = host /\ spis'.rx = NoMsg
    BY <1>4 DEF Passes
  <2>2. \A m \in Told' : \/ m \in Told \/ m = NoMsg
                         \/ spis.rx.type = "config" /\ m = Answer
    BY <1>4, ToldByPass
  <2>3. \A m \in Told \cup {spis.rx, NoMsg} : OwnMsg(m)'
    BY <2>1, MsgTypes DEF NumberedInv, OwnMsg
  <2>4. ASSUME NEW m, spis.rx.type = "config", m = Answer
        PROVE  OwnMsg(m)'
    <3>1. OwnMsg(spis.rx)
      BY DEF NumberedInv
    <3>2. /\ m.type = "reply" /\ m.n = spis.rx.n /\ m.reg = spis.rx.reg
      BY <2>4, AnswerFields
    <3>. QED
      BY <2>1, <2>4, <3>1, <3>2 DEF OwnMsg
  <2>. QED
    BY <2>1, <2>2, <2>3, <2>4 DEF NumberedInv
<1>. QED
  BY <1>1, <1>2, <1>3, <1>4, Steps, NumberedTransact

LEMMA InitTypes == Init => Types /\ HostInv
<1> SUFFICES ASSUME Init PROVE Types /\ HostInv
  OBVIOUS
<1>1. dev \in DevSet
  <2>1. <<>> \in Seq(Says) /\ Len(<<>>) <= QueueSize
    BY DeviceControlAssumption
  <2>. QED
    BY <2>1, PlanTypes DEF Init, Off, DevSet
<1>2. spis \in SpisSet
  BY MsgTypes DEF Init, IdleSpis, SpisSet
<1>3. host \in HostSet
  <2>1. 0 \in 0 .. Retries /\ 0 \in 0 .. Len(Regs)
    BY DeviceControlAssumption, RegsOrder
  <2>. QED
    BY <2>1 DEF Init, Idle, HostSet
<1>4. irq = FALSE /\ capturing = FALSE /\ plan \in [Names -> Values]
      /\ faults \in [noise : Nat, slow : Nat]
  BY PlanTypes DEF Init
<1>5. HostInv
  BY <1>4 DEF Init, Idle, Off, IdleSpis, HostInv
<1>. QED
  BY <1>1, <1>2, <1>3, <1>4, <1>5 DEF Types

\* Every variable keeps its type, the device's queue its limit and the retries theirs.
THEOREM TypeCorrect == Spec => []TypeOK
<1>1. Types => TypeOK
  BY DEF Types, DevSet, HostSet, TypeOK
<1>2. Types /\ HostInv /\ [Next]_vars => (Types /\ HostInv)'
  BY Steps
<1>. QED
  BY <1>1, <1>2, InitTypes, PTL DEF Spec

\* A reply the host takes for the answer to a write is the device's to that very write, for any
\* queue size and retries, and any number of starts, missed deadlines and frames lost to noise:
\* a reset before each start and an end at the first write that fails leave no other reply.
THEOREM RepliesAreOwn == Spec => ReplyIsOwn
<1>1. ASSUME Types, HostInv, NumberedInv, [Next]_vars,
             host'.got # host.got, host'.got.type = "reply"
      PROVE  host'.got.n = host.n
  <2>1. Transacts
    BY <1>1, Steps DEF Quiet, GivesUp, HostStops, StartsOver, Boots, Passes
  <2>2. PICK m \in {spis.tx, NoMsg} : Took(m)
    BY <1>1, <2>1 DEF Transacts, HostStops
  <2>3. m \in Says \cup {NoMsg} /\ host.at \in {"transfer", "poll"}
    BY <1>1, <2>1, ToldTypes DEF Transacts
  <2>4. \/ host'.got = m /\ m.type = "hello"
        \/ host'.got = m /\ IsAnswer(m)
    BY <1>1, <2>2, <2>3, TookEffect DEF KeepsWaiting, Gives, GoesOn
  <2>5. m.type = "reply" => m \in Told
    BY <1>1, <2>3, ToldTypes, MsgTypes
  <2>. QED
    BY <1>1, <2>4, <2>5, AnswerIsOwn DEF IsAnswer
<1>2. Types /\ HostInv /\ NumberedInv /\ [Next]_vars => (Types /\ HostInv /\ NumberedInv)'
  BY Steps, NumberedStep
<1>3. Types /\ HostInv /\ NumberedInv /\ [Next]_vars =>
         [host'.got # host.got /\ host'.got.type = "reply" => host'.got.n = host.n]_vars
  BY <1>1
<1>. QED
  BY <1>2, <1>3, InitTypes, NumberedInit, PTL DEF Spec, ReplyIsOwn

-----------------------------------------------------------------------------
(* What was accepted is in the device. *)

Effect(reg) == IF reg = "capture" THEN dev.on ELSE dev.regs[reg] = plan[reg]

\* A write carries the value planned, a reply that accepts it tells the truth, and so do the host's
\* progress through the registers and a capture it has started.
EffectInv ==
    /\ spis.rx.type = "config" => spis.rx.v = Value(spis.rx.reg)
    /\ \A m \in Told : m.type = "reply" /\ m.status = "accepted" => Effect(m.reg)
    /\ host.op = "config" => \A j \in 1 .. host.reg - 1 : Effect(Regs[j])
    /\ capturing => \A j \in 1 .. Len(Regs) : Effect(Regs[j])

\* The write that starts the capture was sent, and its answer is awaited; the device has heard it.
Starting == host.op = "config" /\ host.reg = Len(Regs) /\ host.at # "transfer"
Asked == spis.rx.type = "config" /\ spis.rx.reg = "capture"

StartRefused(m) == m.type = "reply" /\ m.reg = "capture" /\ m.status # "accepted"

\* Without a fault the device is on only if the host knows, or is about to.
StartInv ==
    Good =>
        /\ dev.on => capturing \/ Starting
        /\ Asked => /\ Starting /\ ~dev.on
                    /\ \A m \in Told : m.type = "reply" => m.reg # "capture"
        /\ \A m \in Told : StartRefused(m) => ~dev.on

LEMMA EffectsKept ==
    ASSUME Types, HostInv, EffectInv, Passes
    PROVE  \A reg \in RegNames :
              Effect(reg) \/ (Takes(dev') /\ reg = spis.rx.reg) => Effect(reg)'
<1>1. /\ Unwritten(dev') \/ Takes(dev')
      /\ plan' = plan /\ dev.regs \in [Names -> Values]
  BY ToldByPass DEF Passes, Types, DevSet
<1>2. SUFFICES ASSUME NEW reg \in RegNames, Effect(reg) \/ (Takes(dev') /\ reg = spis.rx.reg)
               PROVE  IF reg = "capture" THEN dev'.on ELSE dev'.regs[reg] = plan[reg]
  BY <1>1 DEF Effect
<1>3. CASE Unwritten(dev') /\ ~Takes(dev')
  BY <1>1, <1>2, <1>3 DEF Unwritten, Effect
<1>4. CASE Takes(dev')
  <2>1. spis.rx.type = "config" /\ spis.rx.reg \in RegNames /\ ~dev.on
    BY <1>4, ToldTypes, MsgTypes DEF Takes
  <2>2. CASE spis.rx.reg = "capture"
    <3>1. dev'.on /\ dev'.regs = dev.regs
      BY <1>4, <2>2 DEF Takes
    <3>. QED
      BY <1>2, <2>2, <3>1 DEF Effect
  <2>3. CASE spis.rx.reg # "capture"
    <3>1. spis.rx.reg \in Names /\ spis.rx.v = plan[spis.rx.reg]
      BY <2>1, <2>3 DEF RegNames, Value, EffectInv
    <3>2. dev'.regs = [dev.regs EXCEPT ![spis.rx.reg] = spis.rx.v]
      BY <1>4, <2>3 DEF Takes
    <3>3. \A r \in Names : dev'.regs[r] = IF r = spis.rx.reg THEN plan[r] ELSE dev.regs[r]
      BY <1>1, <3>1, <3>2
    <3>4. reg # "capture"
      BY <1>2, <2>1, <2>3 DEF Effect
    <3>5. reg \in Names
      BY <3>4 DEF RegNames
    <3>. QED
      BY <1>2, <3>3, <3>4, <3>5 DEF Effect
  <2>. QED
    BY <2>2, <2>3
<1>. QED
  BY <1>1, <1>3, <1>4

\* A step that says, hears and writes nothing in the device leaves what is in effect.
LEMMA EffectsSame ==
    ASSUME SaidAsBefore
    PROVE  \A reg : Effect(reg)' <=> Effect(reg)
BY DEF SaidAsBefore, Effect

LEMMA EffectTransact ==
    ASSUME Types, HostInv, NumberedInv, EffectInv, Transacts
    PROVE  EffectInv'
<1>1. /\ Told' = Told /\ plan' = plan /\ host.op # "idle" /\ ~capturing
      /\ host.op = "config" => host.reg \in 1 .. Len(Regs)
      /\ Len(Regs) = 5 /\ capturing = FALSE
  BY ToldSame, RegsOrder DEF Transacts, SaidAsBefore, HostInv, Types
<1>2. \A reg : Effect(reg)' <=> Effect(reg)
  BY EffectsSame DEF Transacts
<1>3. spis'.rx.type = "config" => spis'.rx.v = Value(spis'.rx.reg)
  <2>1. CASE spis'.rx = Outgoing
    BY <2>1, OutgoingType
  <2>2. CASE spis'.rx = [type |-> "garbled"]
    BY <2>2
  <2>. QED
    BY <2>1, <2>2 DEF Transacts
<1>4. (spis.rx.type = "config" => spis.rx.v = Value(spis.rx.reg))'
  BY <1>1, <1>3 DEF Value
<1>5. (\A m \in Told : m.type = "reply" /\ m.status = "accepted" => Effect(m.reg))'
  BY <1>1, <1>2 DEF EffectInv
<1>6. ASSUME NEW m \in {spis.tx, NoMsg}, IsAnswer(m), m.status = "accepted"
      PROVE  \A j \in 1 .. host.reg : Effect(Regs[j])
  <2>1. m \in Told /\ m.type = "reply" /\ m.reg = Regs[host.reg] /\ host.op = "config"
    BY <1>6, ToldTypes, MsgTypes DEF IsAnswer
  <2>2. Effect(Regs[host.reg])
    BY <1>6, <2>1 DEF EffectInv
  <2>3. \A j \in 1 .. host.reg - 1 : Effect(Regs[j])
    BY <2>1 DEF EffectInv
  <2>4. host.reg \in 1 .. 5
    BY <1>1, <2>1
  <2>5. \A j \in 1 .. host.reg : j \in 1 .. host.reg - 1 \/ j = host.reg
    BY <2>4
  <2>. QED
    BY <2>2, <2>3, <2>5
<1>7. ASSUME host'.op = "config" => \A j \in 1 .. host'.reg - 1 : Effect(Regs[j]),
             capturing' => \A j \in 1 .. Len(Regs) : Effect(Regs[j])
      PROVE  EffectInv'
  BY <1>2, <1>4, <1>5, <1>7 DEF EffectInv
<1>8. CASE HostStops
  BY <1>1, <1>7, <1>8 DEF HostStops
<1>9. CASE \E m \in {spis.tx, NoMsg} : Took(m)
  <2>1. PICK m \in {spis.tx, NoMsg} : Took(m)
    BY <1>9
  <2>2. m \in Says \cup {NoMsg} /\ host.at \in {"transfer", "poll"}
    BY ToldTypes DEF Transacts
  <2>3. CASE KeepsWaiting
    BY <1>1, <1>7, <2>3 DEF KeepsWaiting, EffectInv
  <2>4. CASE Gives(host'.got) /\ capturing' = capturing
    BY <1>1, <1>7, <2>4 DEF Gives
  <2>5. CASE GoesOn(m, 0)
    BY <1>1, <1>7, <2>5 DEF GoesOn
  <2>6. CASE /\ IsAnswer(m) /\ m.status = "accepted" /\ host.reg = Len(Regs)
             /\ Gives(m)
    BY <1>6, <1>7, <2>6 DEF Gives
  <2>7. CASE IsAnswer(m) /\ m.status = "accepted" /\ GoesOn(m, host.reg)
    <3>1. host'.reg - 1 = host.reg /\ capturing' = capturing
      BY <1>1, <2>7 DEF GoesOn, IsAnswer
    <3>. QED
      BY <1>1, <1>6, <1>7, <2>7, <3>1
  <2>8. \A g : Gives(g) => Gives(host'.got)
    BY DEF Gives
  <2>. QED
    BY <2>1, <2>2, <2>3, <2>4, <2>5, <2>6, <2>7, <2>8, TookEffect, Zenon
<1>. QED
  BY <1>8, <1>9 DEF Transacts

LEMMA EffectStep ==
    ASSUME Types, HostInv, NumberedInv, EffectInv, [Next]_vars
    PROVE  EffectInv'
<1>1. CASE Quiet \/ GivesUp
  <2>1. /\ Told' = Told /\ spis'.rx = spis.rx /\ plan' = plan
        /\ \A reg : Effect(reg)' <=> Effect(reg)
        /\ capturing' = capturing
        /\ host'.op = "config" => host.op = "config" /\ host'.reg = host.reg
    BY <1>1, ToldSame, EffectsSame DEF Quiet, GivesUp, HostStops, SaidAsBefore
  <2>. QED
    BY <2>1 DEF EffectInv, Value
<1>2. CASE StartsOver \/ Boots
  <2>1. host'.op # "config" /\ ~capturing'
    BY <1>2 DEF StartsOver, Boots, HostInv
  <2>. QED
    BY <1>2, <2>1, ToldNothing, MsgTypes DEF EffectInv
<1>3. CASE Passes
  <2>1. /\ UNCHANGED <<host, capturing, plan>> /\ spis'.rx.type # "config"
    BY <1>3, MsgTypes DEF Passes
  <2>2. \A j \in 1 .. Len(Regs) : Effect(Regs[j]) => Effect(Regs[j])'
    BY <1>3, EffectsKept, RegsOrder
  <2>3. ASSUME NEW m \in Told', m.type = "reply", m.status = "accepted"
        PROVE  Effect(m.reg)'
    <3>1. CASE m \in Told
      <4>1. m.reg \in RegNames /\ Effect(m.reg)
        BY <2>3, <3>1, ToldTypes, MsgTypes DEF EffectInv
      <4>. QED
        BY <1>3, <4>1, EffectsKept
    <3>2. CASE spis.rx.type = "config" /\ m = Answer /\ m \notin Told
      <4>1. m.reg = spis.rx.reg /\ m.reg \in RegNames /\ m.status = WriteStatus(dev, spis.rx)
        BY <3>2, AnswerFields
      <4>2. Takes(dev')
        BY <1>3, <2>3, <3>2, <4>1, ToldByPass, MsgTypes
      <4>. QED
        BY <1>3, <4>1, <4>2, EffectsKept
    <3>. QED
      BY <1>3, <2>3, <3>1, <3>2, ToldByPass, MsgTypes
  <2>4. host.op = "config" => host.reg - 1 <= Len(Regs) /\ host.reg \in Int /\ Len(Regs) = 5
    BY RegsOrder DEF HostInv
  <2>5. (host.op = "config" => \A j \in 1 .. host.reg - 1 : Effect(Regs[j]))'
    BY <2>1, <2>2, <2>4 DEF EffectInv
  <2>6. (capturing => \A j \in 1 .. Len(Regs) : Effect(Regs[j]))'
    BY <2>1, <2>2 DEF EffectInv
  <2>. QED
    BY <2>1, <2>3, <2>5, <2>6 DEF EffectInv
<1>. QED
  BY <1>1, <1>2, <1>3, Steps, EffectTransact

LEMMA StartTransact ==
    ASSUME Types, HostInv, NumberedInv, StartInv, Transacts, Good'
    PROVE  StartInv'
<1>1. /\ Told' = Told /\ dev'.on = dev.on /\ Good /\ ~HostStops
      /\ host.op # "idle" /\ ~capturing /\ Len(Regs) = 5
      /\ host.op = "config" => host.reg \in 1 .. 5
  BY ToldSame, RegsOrder DEF Transacts, SaidAsBefore, HostInv, HostStops, Good
<1>2. PICK m \in {spis.tx, NoMsg} : Took(m)
  BY <1>1 DEF Transacts
<1>3. m \in Says \cup {NoMsg} /\ host.at \in {"transfer", "poll"}
  BY ToldTypes DEF Transacts
<1>4. IsAnswer(m) => m \in Told /\ host.at # "transfer" /\ m.type = "reply"
  <2>1. IsAnswer(m) => m \in Told /\ m.type = "reply"
    BY <1>3, ToldTypes, MsgTypes DEF IsAnswer
  <2>. QED
    BY <2>1, AnswerIsOwn
<1>5. dev.on => Starting
  BY <1>1 DEF StartInv
<1>6. Asked' => /\ host.at = "transfer" /\ host.op = "config" /\ host.reg = 5
                /\ ~dev.on
                /\ \A k \in Told : k.type = "reply" => k.reg # "capture"
  <2> SUFFICES ASSUME Asked'
               PROVE  /\ host.at = "transfer" /\ host.op = "config" /\ host.reg = 5
                      /\ ~dev.on
                      /\ \A k \in Told : k.type = "reply" => k.reg # "capture"
    OBVIOUS
  <2>1. spis'.rx.type = "config" /\ spis'.rx.reg = "capture"
    BY DEF Asked
  <2>2. spis'.rx = Outgoing
    BY <2>1 DEF Transacts
  <2>3. host.at = "transfer" /\ host.op = "config" /\ Regs[host.reg] = "capture"
    BY <2>1, <2>2, OutgoingType DEF HostInv
  <2>4. host.reg = 5
    BY <1>1, <2>3, RegsOrder
  <2>5. ~dev.on
    BY <1>5, <2>3 DEF Starting
  <2>6. ASSUME NEW k \in Told, k.type = "reply", k.reg = "capture"
        PROVE  FALSE
    <3>1. PICK i \in 1 .. host.reg : k.reg = Regs[i] /\ i < host.reg
      BY <2>3, <2>6 DEF NumberedInv, OwnMsg
    <3>2. i \in 1 .. Len(Regs) - 1
      BY <1>1, <2>4, <3>1
    <3>. QED
      BY <2>6, <3>1, <3>2, RegsOrder
  <2>. QED
    BY <2>3, <2>4, <2>5, <2>6
<1>7. \A k \in Told : StartRefused(k) => ~dev.on
  BY <1>1 DEF StartInv
<1>8. ASSUME dev.on => capturing' \/ Starting',
             Asked' => Starting'
      PROVE  StartInv'
  <2>1. (dev.on => capturing \/ Starting)'
    BY <1>1, <1>8
  <2>2. (Asked => /\ Starting /\ ~dev.on
                  /\ \A k \in Told : k.type = "reply" => k.reg # "capture")'
    BY <1>1, <1>6, <1>8
  <2>3. (\A k \in Told : StartRefused(k) => ~dev.on)'
    BY <1>1, <1>7 DEF StartRefused
  <2>. QED
    BY <2>1, <2>2, <2>3 DEF StartInv
<1>9. CASE KeepsWaiting
  <2>1. host'.op = host.op /\ host'.reg = host.reg /\ host'.at = "wait"
    BY <1>9 DEF KeepsWaiting
  <2>. QED
    BY <1>1, <1>5, <1>6, <1>8, <2>1 DEF Starting
<1>10. CASE host.op = "stop" \/ host.op = "hello"
  BY <1>1, <1>5, <1>6, <1>8, <1>10 DEF Starting
<1>11. CASE IsAnswer(m) /\ m.status # "accepted"
  <2>1. dev.on => StartRefused(m)
    BY <1>1, <1>4, <1>5, <1>11, RegsOrder DEF Starting, StartRefused, IsAnswer
  <2>. QED
    BY <1>4, <1>6, <1>7, <1>8, <1>11, <2>1
<1>12. CASE IsAnswer(m) /\ capturing' = TRUE
  BY <1>4, <1>6, <1>8, <1>12
<1>13. CASE IsAnswer(m) /\ host.reg # Len(Regs)
  BY <1>4, <1>5, <1>6, <1>8, <1>13 DEF Starting
<1>. QED
  BY <1>2, <1>3, <1>9, <1>10, <1>11, <1>12, <1>13, TookEffect, Zenon

LEMMA StartStaysKnown ==
    ASSUME Types, HostInv, NumberedInv, StartInv, [Next]_vars
    PROVE  StartInv'
<1> SUFFICES ASSUME Good' PROVE StartInv'
  BY DEF StartInv
<1>1. CASE Quiet
  <2>1. /\ Told' = Told /\ spis'.rx = spis.rx /\ dev'.on = dev.on /\ capturing' = capturing
        /\ Good /\ (Starting => Starting')
    BY <1>1, ToldSame DEF Quiet, SaidAsBefore, Starting, Good
  <2>. QED
    BY <2>1 DEF StartInv, Asked, StartRefused
<1>2. CASE GivesUp
  BY <1>2 DEF GivesUp, HostStops
<1>3. CASE StartsOver \/ Boots
  BY <1>3, ToldNothing, MsgTypes DEF StartInv, Asked, StartRefused
<1>4. CASE Passes
  <2>1. /\ UNCHANGED <<host, capturing, faults>> /\ spis'.rx.type # "config"
    BY <1>4, MsgTypes DEF Passes
  <2>2. Good /\ (Starting => Starting') /\ ~Asked'
    BY <2>1 DEF Good, Starting, Asked
  <2>3. dev'.on => dev.on \/ Asked
    BY <1>4, ToldByPass DEF Unwritten, Takes, Asked
  <2>4. dev'.on => capturing' \/ Starting'
    BY <2>1, <2>2, <2>3 DEF StartInv
  <2>5. ASSUME NEW m \in Told', StartRefused(m), dev'.on
        PROVE  FALSE
    <3>1. m.type = "reply" /\ m.reg = "capture" /\ m.status # "accepted"
      BY <2>5 DEF StartRefused
    <3>2. CASE m \in Told
      BY <2>2, <2>3, <2>5, <3>1, <3>2 DEF StartInv
    <3>3. CASE spis.rx.type = "config" /\ m = Answer /\ m \notin Told
      <4>1. Asked /\ WriteStatus(dev, spis.rx) # "accepted"
        BY <3>1, <3>3, AnswerFields DEF Asked
      <4>2. dev'.on = dev.on
        BY <1>4, <3>1, <3>3, <4>1, ToldByPass, MsgTypes DEF Unwritten
      <4>. QED
        BY <2>2, <2>5, <4>1, <4>2 DEF StartInv
    <3>. QED
      BY <1>4, <2>5, <3>1, <3>2, <3>3, ToldByPass, MsgTypes
  <2>. QED
    BY <2>2, <2>4, <2>5 DEF StartInv, StartRefused
<1>. QED
  BY <1>1, <1>2, <1>3, <1>4, Steps, StartTransact

LEMMA AgreedInit == Init => EffectInv /\ StartInv
BY MsgTypes DEF Init, Idle, Off, IdleSpis, EffectInv, StartInv, Told, Asked, StartRefused

\* A capture the host has started runs on the device with the values asked for, and a device on
\* which one runs is one the host knows of unless a frame was lost or a deadline passed, for any
\* queue size and retries and any number of starts, rejected ones among them.
THEOREM CaptureStaysAgreed == Spec => []CaptureAgreed
<1>1. Types /\ HostInv /\ EffectInv /\ StartInv => CaptureAgreed
  <2> SUFFICES ASSUME Types, HostInv, EffectInv, StartInv PROVE CaptureAgreed
    OBVIOUS
  <2>1. ASSUME capturing
        PROVE  dev.on /\ dev.regs = plan
    <3>1. \A j \in 1 .. Len(Regs) : Effect(Regs[j])
      BY <2>1 DEF EffectInv
    <3>2. Effect("capture")
      BY <3>1, RegsOrder
    <3>3. \A r \in Names : \E j \in 1 .. Len(Regs) : Regs[j] = r
      BY RegsOrder
    <3>4. \A r \in Names : Effect(r) /\ r # "capture"
      BY <3>1, <3>3 DEF Names
    <3>5. \A r \in Names : dev.regs[r] = plan[r]
      BY <3>4 DEF Effect
    <3>6. dev.regs \in [Names -> Values] /\ plan \in [Names -> Values]
      BY DEF Types, DevSet
    <3>7. dev.regs = plan
      BY <3>5, <3>6
    <3>. QED
      BY <3>2, <3>7 DEF Effect
  <2>2. (Good /\ host.op = "idle" /\ dev.on) => capturing
    BY DEF StartInv, Starting
  <2>. QED
    BY <2>1, <2>2 DEF CaptureAgreed
<1>2. /\ Types /\ HostInv /\ NumberedInv /\ EffectInv /\ StartInv /\ [Next]_vars
         => (Types /\ HostInv /\ NumberedInv /\ EffectInv /\ StartInv)'
  BY Steps, NumberedStep, EffectStep, StartStaysKnown
<1>. QED
  BY <1>1, <1>2, InitTypes, NumberedInit, AgreedInit, PTL DEF Spec
=============================================================================
