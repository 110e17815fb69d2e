---------------------------- MODULE DeviceControl ----------------------------
(***************************************************************************)
(* The control channel before a capture: the device's side                 *)
(* (device/src/control.c, main.c), one SPI transaction after another       *)
(* (host/capture/spi.c), and the host that resets the device, takes its    *)
(* hello, writes its registers and starts the capture                      *)
(* (host/capture/local.c hello(), config(), stop(); host/capture/capture.c *)
(* capture_start()).                                                       *)
(*                                                                         *)
(* A transaction moves one message each way.  It is refused while the      *)
(* device's CPU holds the SPI semaphore.  Noise on the lines fails either  *)
(* side's check, or makes the host read a Length of 0.  A message is a     *)
(* record; n numbers the host's writes and the device's boots, to tell     *)
(* them apart (the code has no such number).                               *)
(***************************************************************************)
EXTENDS Integers, Sequences, FiniteSets

CONSTANTS
    QueueSize, \* QUEUE_SIZE
    Retries,   \* NOT_READY_RETRIES
    Channels,  \* the device's channels
    Splits,    \* DATA_CHANNEL_COUNT - 1
    MaxStarts, \* bound: captures the host starts
    MaxNoise,  \* bound: transactions with noise
    MaxSlow    \* bound: times a deadline passes before the device has answered

ASSUME DeviceControlAssumption ==
    /\ QueueSize \in Nat \ {0}
    /\ Retries \in Nat \ {0}
    /\ MaxStarts \in Nat /\ MaxNoise \in Nat /\ MaxSlow \in Nat

VARIABLES
    dev,      \* the device's firmware
    spis,     \* its SPI slave
    irq,      \* the IRQ line: the device has a message
    host,     \* the operation the host is in
    pending,  \* messages kept for read
    capturing,\* the host has started a capture
    plan,     \* the configuration to write
    faults    \* noise and missed deadlines so far

vars == <<dev, spis, irq, host, pending, capturing, plan, faults>>

----------------------------------------------------------------------------
(* Messages and registers. *)

NoMsg == [type |-> "none"]
Hello(boot) == [type |-> "hello", n |-> boot]
Config(n, reg, v) == [type |-> "config", n |-> n, reg |-> reg, v |-> v]
ConfigReply(n, reg, status) == [type |-> "reply", n |-> n, reg |-> reg, status |-> status]

Regs == <<"rate", "c", "enabled", "split", "capture">>

Defaults == [rate |-> 1, c |-> 8, enabled |-> Channels, split |-> {}]

\* What the host may ask for: values the device takes, and ones it rejects.
Plans ==
    [rate : {0, 1}, c : {3, 8}, enabled : {{}, Channels}, split : {{}, Channels}]

Allowed(reg, v) ==
    CASE reg = "rate"    -> v > 0
      [] reg = "c"       -> v > 2
      [] reg = "capture" -> v = TRUE
      [] OTHER           -> v \subseteq Channels

\* capture_heartbeat_size(), in sample periods at the data baud rate.
HeartbeatTime(r) == r.rate * (1 + Cardinality(r.enabled))

StartCheck(r) ==
    /\ r.enabled # {}
    /\ Cardinality(r.split) <= Splits
    /\ r.c >= 2 * HeartbeatTime(r)

----------------------------------------------------------------------------
(* The device. *)

Off == [state |-> "off", boot |-> 0, queue |-> <<>>, regs |-> Defaults, on |-> FALSE,
        pass |-> FALSE, full |-> FALSE]

IdleSpis == [owner |-> "cpu", event |-> FALSE, refusing |-> FALSE,
             rx |-> NoMsg, tx |-> NoMsg, whole |-> FALSE]

Prepared(queue) == IF queue = <<>> THEN NoMsg ELSE Head(queue)

\* control_init(), after a reset: the hello waits.
Boot ==
    /\ dev.state = "off"
    /\ dev' = [Off EXCEPT !.state = "config", !.boot = dev.boot + 1,
                          !.queue = <<Hello(dev.boot + 1)>>]
    /\ spis' = [IdleSpis EXCEPT !.owner = "free", !.tx = Hello(dev.boot + 1)]
    /\ irq' = TRUE
    /\ UNCHANGED <<host, pending, capturing, plan, faults>>

\* control_service() sees EVENTS_ACQUIRED, clears it, and goes on if the CPU has the SPIS.
ServiceBegin ==
    /\ dev.state = "config"
    /\ ~dev.pass
    /\ spis.event
    /\ spis' = [spis EXCEPT !.event = FALSE]
    /\ dev' = [dev EXCEPT !.pass = (spis.owner = "cpu")]
    /\ UNCHANGED <<irq, host, pending, capturing, plan, faults>>

\* config_write(): a message of register m.reg, on the device d.
WriteStatus(d, m) ==
    IF d.on THEN "started"
    ELSE IF ~Allowed(m.reg, m.v) THEN "not allowed"
    ELSE IF m.reg = "capture" /\ ~StartCheck(d.regs) THEN "start check"
    ELSE "accepted"

Written(d, m) ==
    IF WriteStatus(d, m) # "accepted" THEN d
    ELSE IF m.reg = "capture" THEN [d EXCEPT !.on = TRUE]
    ELSE [d EXCEPT !.regs[m.reg] = m.v]

\* config_handle(): without room for the reply nothing is written.
Handled(d, m) ==
    IF Len(d.queue) >= QueueSize THEN [d EXCEPT !.full = TRUE]
    ELSE [Written(d, m) EXCEPT
            !.queue = Append(@, ConfigReply(m.n, m.reg, WriteStatus(d, m)))]

\* rx_handle(): a message of another type, or one whose check failed, is ignored.
RxHandle(d, m) == IF m.type = "config" THEN Handled(d, m) ELSE d

\* A message counts as sent only when all of it was clocked out.
Sent(d) ==
    IF spis.tx # NoMsg /\ spis.whole THEN [d EXCEPT !.queue = Tail(@)] ELSE d

\* The buffer starts with 0xFFFF unless a transaction took place.
TookPlace == spis.rx # NoMsg

\* What the pass does with the transaction; the buffer is marked again at its end.
AfterPass ==
    LET d == IF TookPlace THEN RxHandle(Sent(dev), spis.rx) ELSE dev
    IN [d EXCEPT !.pass = FALSE]

\* Mutant: the capture loop takes over before the reply is told.
ServiceEndEarly ==
    /\ dev.pass
    /\ LET d == AfterPass IN
       IF d.on
       THEN /\ dev' = [d EXCEPT !.state = "capture"]
            /\ irq' = FALSE
            /\ spis' = [spis EXCEPT !.rx = NoMsg]
       ELSE /\ dev' = d
            /\ irq' = (d.queue # <<>>)
            /\ spis' = [spis EXCEPT !.owner = "free", !.rx = NoMsg, !.tx = Prepared(d.queue)]
    /\ UNCHANGED <<host, pending, capturing, plan, faults>>

\* The rest of the pass.  Once the accepted start was told, the capture loop takes over.
ServiceEnd ==
    /\ dev.pass
    /\ LET d == AfterPass IN
       IF d.on /\ d.queue = <<>>
       THEN /\ dev' = [d EXCEPT !.state = "capture"]
            /\ irq' = FALSE
            /\ spis' = [spis EXCEPT !.rx = NoMsg]
       ELSE /\ dev' = d
            /\ irq' = (d.queue # <<>>)
            /\ spis' = [spis EXCEPT !.owner = "free", !.rx = NoMsg, !.tx = Prepared(d.queue)]
    /\ UNCHANGED <<host, pending, capturing, plan, faults>>

----------------------------------------------------------------------------
(* The host's operations. *)

Idle == [op |-> "idle", at |-> "idle", reg |-> 0, tries |-> 0, starts |-> 0, n |-> 0,
         got |-> NoMsg]

\* The reset line's pulse: the device starts over, what it had to say is gone.
Reset ==
    /\ dev' = [dev EXCEPT !.state = "off", !.queue = <<>>, !.on = FALSE, !.pass = FALSE]
    /\ spis' = IdleSpis
    /\ irq' = FALSE

WaitFor(h) == [h EXCEPT !.at = "wait", !.tries = 0]

\* Mutant: the device is taken as it is.
StartNoReset ==
    /\ host.op = "idle"
    /\ ~capturing
    /\ host.starts < MaxStarts
    /\ plan' \in Plans
    /\ IF host.starts = 0
       THEN /\ host' = WaitFor([host EXCEPT !.op = "hello", !.starts = @ + 1])
            /\ Reset
       ELSE /\ host' = [host EXCEPT !.op = "config", !.starts = @ + 1, !.reg = 1,
                                    !.n = @ + 1, !.at = "transfer", !.tries = 0]
            /\ UNCHANGED <<dev, spis, irq>>
    /\ pending' = <<>>
    /\ UNCHANGED <<capturing, faults>>

\* capture_start(): hello() first.
Start ==
    /\ host.op = "idle"
    /\ ~capturing
    /\ host.starts < MaxStarts
    /\ plan' \in Plans
    /\ host' = WaitFor([host EXCEPT !.op = "hello", !.starts = @ + 1])
    /\ pending' = <<>>
    /\ Reset
    /\ UNCHANGED <<capturing, faults>>

Stop ==
    /\ host.op = "idle"
    /\ capturing
    /\ capturing' = FALSE
    /\ host' = WaitFor([host EXCEPT !.op = "stop"])
    /\ pending' = <<>>
    /\ Reset
    /\ UNCHANGED <<plan, faults>>

Done(h) == [h EXCEPT !.op = "idle", !.at = "idle"]

Value(reg) == IF reg = "capture" THEN TRUE ELSE plan[reg]

\* The message of a transfer: config()'s own, or none in receive().
Outgoing ==
    IF host.at = "transfer" THEN Config(host.n, Regs[host.reg], Value(Regs[host.reg]))
    ELSE [type |-> "empty"]

\* The message take_message() is to find.
Wanted(m) ==
    IF host.op = "config" THEN m.type = "reply" /\ m.reg = Regs[host.reg]
    ELSE m.type = "hello"

\* configure() for the next register; the last one starts the capture.
NextWrite(h) ==
    [h EXCEPT !.op = "config", !.at = "transfer", !.tries = 0, !.reg = @ + 1, !.n = @ + 1]

\* receive() waits for IRQ.
Wait ==
    /\ host.at = "wait"
    /\ irq
    /\ host' = [host EXCEPT !.at = "poll"]
    /\ UNCHANGED <<dev, spis, irq, pending, capturing, plan, faults>>

\* The deadline of receive(): BOOT_TIMEOUT_MS, REPLY_TIMEOUT_MS.
Timeout ==
    /\ host.at = "wait"
    /\ faults.noise > 0 \/ faults.slow < MaxSlow
    /\ faults' = IF faults.noise > 0 THEN faults ELSE [faults EXCEPT !.slow = @ + 1]
    /\ host' = Done(host)
    /\ UNCHANGED <<dev, spis, irq, pending, capturing, plan>>

\* Mutant: only a start that is rejected ends it.
RejectedOnlyStart(m) == m.status = "start check"

\* configure(): any status but accepted ends the start.
Rejected(m) == m.status # "accepted"

\* What the host's operation does with what a transaction gave it.
Took(m) ==
    \/ /\ m.type = "none"
       /\ host' = WaitFor(host)
       /\ UNCHANGED <<pending, capturing>>
    \/ /\ m.type # "none"
       /\ ~Wanted(m)
       /\ pending' = Append(pending, m)
       /\ host' = WaitFor(host)
       /\ UNCHANGED capturing
    \/ /\ m.type # "none"
       /\ Wanted(m)
       /\ \/ host.op = "stop" /\ host' = Done(host) /\ UNCHANGED capturing
          \/ /\ host.op = "hello"
             /\ host' = NextWrite([host EXCEPT !.reg = 0, !.got = m])
             /\ UNCHANGED capturing
          \/ /\ host.op = "config"
             /\ Rejected(m)
             /\ host' = Done([host EXCEPT !.got = m])
             /\ UNCHANGED capturing
          \/ /\ host.op = "config"
             /\ ~Rejected(m)
             /\ host.reg = Len(Regs)
             /\ host' = Done([host EXCEPT !.got = m])
             /\ capturing' = TRUE
          \/ /\ host.op = "config"
             /\ ~Rejected(m)
             /\ host.reg # Len(Regs)
             /\ host' = NextWrite([host EXCEPT !.got = m])
             /\ UNCHANGED capturing
       /\ UNCHANGED pending

\* Refused: Length 0xFFFF.  The device may release the SPIS before the transaction ends.
Refuse ==
    /\ host.at \in {"transfer", "poll"}
    /\ spis.owner = "cpu"
    /\ ~spis.refusing
    /\ host.tries + 1 < Retries \/ faults.slow < MaxSlow
    /\ spis' = [spis EXCEPT !.refusing = TRUE]
    /\ UNCHANGED <<dev, irq, host, pending, capturing, plan, faults>>

\* The end of a refused transaction fires the short all the same: the CPU has the SPIS.
\* The last retry is some 50 ms later: the device was slow.
NotReady ==
    /\ spis.refusing
    /\ spis' = [spis EXCEPT !.refusing = FALSE, !.owner = "cpu", !.event = TRUE]
    /\ \/ /\ host.tries + 1 < Retries
          /\ host' = [host EXCEPT !.tries = @ + 1]
          /\ UNCHANGED faults
       \/ /\ host.tries + 1 = Retries
          /\ faults.slow < MaxSlow
          /\ faults' = [faults EXCEPT !.slow = @ + 1]
          /\ host' = Done(host)
    /\ UNCHANGED <<dev, irq, pending, capturing, plan>>

\* How the two frames of a transaction arrive.
Fates == {<<"ok", "ok">>} \cup
         (IF faults.noise < MaxNoise
          THEN {<<"bad", "ok">>, <<"ok", "bad">>, <<"ok", "empty">>} ELSE {})

\* A transaction: each side's frame, the semaphore back to the CPU at its end.
Transaction ==
    /\ host.at \in {"transfer", "poll"}
    /\ spis.owner = "free"
    /\ ~spis.refusing
    /\ \E f \in Fates :
          /\ faults' = IF f = <<"ok", "ok">> THEN faults ELSE [faults EXCEPT !.noise = @ + 1]
          /\ \E whole \in IF f[2] = "empty" /\ host.at = "transfer" THEN BOOLEAN
                          ELSE {f[2] # "empty"} :
                spis' = [spis EXCEPT
                            !.owner = "cpu", !.event = TRUE, !.whole = whole,
                            !.rx = IF f[1] = "ok" THEN Outgoing ELSE [type |-> "garbled"]]
          /\ IF f[2] = "bad" /\ spis.tx # NoMsg
             THEN host' = Done(host) /\ UNCHANGED <<pending, capturing>>
             ELSE Took(IF f[2] = "ok" THEN spis.tx ELSE NoMsg)
    /\ UNCHANGED <<dev, irq, plan>>

----------------------------------------------------------------------------

Init ==
    /\ dev = Off
    /\ spis = IdleSpis
    /\ irq = FALSE
    /\ host = Idle
    /\ pending = <<>>
    /\ capturing = FALSE
    /\ plan = Defaults
    /\ faults = [noise |-> 0, slow |-> 0]

Next ==
    \/ Boot
    \/ ServiceBegin
    \/ ServiceEnd
    \/ Start
    \/ Stop
    \/ Wait
    \/ Timeout
    \/ Refuse
    \/ NotReady
    \/ Transaction

Spec == Init /\ [][Next]_vars

\* The device's loop runs on, and so does the operation the host is in.
Fairness == WF_vars(Boot) /\ SF_vars(ServiceBegin) /\ WF_vars(ServiceEnd)
            /\ WF_vars(Wait) /\ WF_vars(NotReady) /\ SF_vars(Transaction)

FairSpec == Spec /\ Fairness

----------------------------------------------------------------------------

TypeOK ==
    /\ dev.state \in {"off", "config", "capture"}
    /\ Len(dev.queue) <= QueueSize
    /\ irq \in BOOLEAN
    /\ host.tries \in 0..Retries
    /\ capturing \in BOOLEAN

\* A reply config() returns answers the very write it made, although a reply has no number
\* and one that is given up may still come (local.c config(), take_message(); every start
\* resets the device and ends at the first write that fails, capture.c capture_start()).
ReplyIsOwn ==
    [][host'.got # host.got /\ host'.got.type = "reply" => host'.got.n = host.n]_vars

Good == faults.noise = 0 /\ faults.slow = 0

\* A capture the host has started runs on the device, with the values asked for; and
\* without noise and missed deadlines, a device that captures is one the host knows of
\* (control.c config_write(), capture.c capture_start(), configure()).
CaptureAgreed ==
    /\ capturing => dev.on /\ dev.regs = plan
    /\ (Good /\ host.op = "idle" /\ dev.on) => capturing

CanStart == StartCheck(plan) /\ \A reg \in DOMAIN plan : Allowed(reg, plan[reg])

\* Without noise and missed deadlines, a start the device's limits allow succeeds
\* (control.c control_service(), start_check(); local.c receive()).
StartSucceeds == (host.op = "hello" /\ CanStart) ~> (capturing \/ ~Good)
=============================================================================
