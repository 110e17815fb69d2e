---------------------------- MODULE DecoderGroup ----------------------------
(***************************************************************************)
(* The viewer's session thread while a capture runs                        *)
(* (host/ui/session/session.c, session_main and group_step): each round it *)
(* writes what a pull brought to the store, and every decoder group takes  *)
(* a step over the store.  A group is a record; the calls it makes of its  *)
(* codec session are appended to its log.  Groups are started at any time, *)
(* one on the capture from its start.                                      *)
(***************************************************************************)
EXTENDS Store

CONSTANTS
  Captures,    \* the captures to choose from (CaptureLines)
  C,           \* ticks between grid points
  Groups,      \* the groups
  Live,        \* the group there from the start of the capture
  GroupHold,   \* ticks a group stays behind the watermark while it runs
  ReadMax,     \* READ_MAX: records read at once
  ReplayStep,  \* SESSION_REPLAY_STEP: records a group reads in one step
  FedMax,      \* FED_MAX: losses asked of the store at once, and kept as given
  KnownLines   \* KNOWN_LINES: with more lines no loss is given

VARIABLES
  cap,      \* the capture: its streams and its losses
  pos,      \* how much of each data channel's stream has been pulled
  told,     \* per loss told so far, the watermark at that time
  st,       \* the store
  reading,  \* the capture runs
  groups    \* per group, its state, NotAdded before it is added

vars == <<cap, pos, told, st, reading, groups>>

Lines == INSTANCE CaptureLines

-----------------------------------------------------------------------------
(* group_start(): decoded is kept, but have is not. *)
GroupStart(decoded) ==
  [ codec |-> TRUE, started |-> FALSE, pos |-> [ch \in Channels |-> 0], skip |-> 0,
    have |-> FALSE, decoded |-> decoded, fed |-> << >>, known |-> << >>, pend |-> << >>,
    nextLevel |-> 0, log |-> << >> ]

(* A group that has no codec session. *)
NotAdded == [GroupStart(0) EXCEPT !.codec = FALSE]

Told(g, call) == [g EXCEPT !.log = Append(@, call)]

(* losses_known(): of the oldest FedMax of the store's losses from the     *)
(* last tick on, less the late window, those not given yet.                *)
LossesKnown(s, g, upto) ==
  LET from == IF g.have /\ g.decoded > Late THEN g.decoded - Late ELSE 0
      some == IF Cardinality(Channels) > KnownLines THEN << >>
              ELSE StoreLosses(s, from, upto, FedMax)
      Seen(l) == \E i \in DOMAIN g.fed : g.fed[i].start = l.start /\ g.fed[i].end = l.end
  IN  [g EXCEPT !.known = SelectSeq(some, LAMBDA l : ~Seen(l))]

(* loss_due() *)
LossDue(g, tick) == \E i \in DOMAIN g.known : g.known[i].start < tick

(* losses_before(): known holds those not given yet. *)
LossesBefore(g, tick) ==
  LET due == SelectSeq(g.known, LAMBDA l : l.start < tick)
      Calls == [i \in DOMAIN due |-> [t |-> "loss", start |-> due[i].start, end |-> due[i].end,
                                      lost |-> due[i].lost]]
      all == g.fed \o due
  IN  [g EXCEPT !.known = SelectSeq(@, LAMBDA l : l.start >= tick),
                !.fed = SubSeq(all, Most({0, Len(all) - FedMax}) + 1, Len(all)),
                !.log = @ \o Calls]

(* levels_before(): the levels of every grid point before the tick, of the *)
(* channels whose level the store knows.                                   *)
LevelsAt(s, p) ==
  LET known == {ch \in Channels : StoreLevel(s, ch, p) \in {LOW, HIGH}}
  IN  [i \in 1..Cardinality(known) |->
         [t |-> "level", tick |-> p, ch |-> Nth(known, i - 1),
          level |-> StoreLevel(s, Nth(known, i - 1), p)]]

LevelsBefore(s, g, tick) ==
  LET points == {p \in g.nextLevel..(tick - 1) : p % C = 0}
  IN  [g EXCEPT !.log = @ \o FlattenSeq([i \in 1..Cardinality(points) |->
                                           LevelsAt(s, Nth(points, i - 1))]),
                !.nextLevel = @ + C * Cardinality(points)]

CodecAdvance(g, tick) == Told(g, [t |-> "advance", tick |-> tick])

(* Mutant: the record goes to the decoders before the loss. *)
FeedRecordFirst(s, g, r) ==
  LET g1 == LevelsBefore(s, g, r.tick)
      g2 == IF g1.skip = 0 \/ r.tick > g1.skip
            THEN Told(g1, [t |-> "record", tick |-> r.tick, ch |-> r.ch, level |-> r.level])
            ELSE g1
  IN  IF LossDue(g2, r.tick) /\ r.tick > 0
      THEN LossesBefore(CodecAdvance(g2, r.tick - 1), r.tick) ELSE g2

(* feed() *)
Feed(s, g, r) ==
  LET g1 == LevelsBefore(s, g, r.tick)
      g2 == IF LossDue(g1, r.tick) /\ r.tick > 0
            THEN LossesBefore(CodecAdvance(g1, r.tick - 1), r.tick) ELSE g1
  IN  IF g2.skip = 0 \/ r.tick > g2.skip
      THEN Told(g2, [t |-> "record", tick |-> r.tick, ch |-> r.ch, level |-> r.level])
      ELSE g2

FeedAll(s, g, recs) == FoldLeft(LAMBDA x, r : Feed(s, x, r), g, recs)

-----------------------------------------------------------------------------
(* group_step() *)

Begin(s, g) ==
  IF g.started THEN g
  ELSE [g EXCEPT !.pos = [ch \in Channels |-> s.chans[ch].first], !.skip = s.oldest,
                 !.pend = << >>, !.nextLevel = C * ((s.oldest + C - 1) \div C),
                 !.started = TRUE]

(* One store_read_merged() and what is done with its records.  a: the      *)
(* group, the records taken in the step, the tick reached, whether all has *)
(* been read, and whether the store has dropped what was still to read.    *)
ReadRound(s, target, a) ==
  IF a.all \/ a.behind \/ a.total >= ReplayStep THEN a
  ELSE IF OutOfRange(s, a.g.pos) THEN [a EXCEPT !.behind = TRUE]
  ELSE LET r == ReadMerged(s, a.g.pos, ReadMax, Watermark(s))
           due == SelectSeq(r.out, LAMBDA x : x.tick <= target)
           past == SelectSeq(r.out, LAMBDA x : x.tick > target)
           g == FeedAll(s, a.g, due)
       IN  [ g |-> [g EXCEPT !.pos = r.pos, !.pend = @ \o past], total |-> a.total + Len(r.out),
             upto |-> IF due = << >> THEN a.upto ELSE Last(due).tick,
             all |-> past # << >> \/ Len(r.out) < ReadMax, behind |-> FALSE ]

(* The losses told, and the records that waited for the target. *)
Resumed(s, target, g) ==
  LET g1 == LossesKnown(s, Begin(s, g), target)
      g2 == LossesBefore(g1, IF g1.have THEN g1.decoded + 1 ELSE 0)
      due == SelectSeq(g2.pend, LAMBDA r : r.tick <= target)
      keep == SelectSeq(g2.pend, LAMBDA r : r.tick > target)
  IN  [ g |-> [FeedAll(s, g2, due) EXCEPT !.pend = keep], total |-> Len(due),
        upto |-> IF due = << >> THEN 0 ELSE Last(due).tick, all |-> keep # << >>,
        behind |-> FALSE ]

(* Mutant: the last tick is never taken to be all in. *)
EndedTickEarly(s, target, a) ==
  LET upto == Most({0, a.upto - 1})
  IN  IF ~a.g.have \/ upto > a.g.decoded
      THEN [CodecAdvance(a.g, upto) EXCEPT !.decoded = upto, !.have = TRUE]
      ELSE a.g

(* The levels and losses up to the target, and the tick decoded up to. *)
Ended(s, target, a) ==
  LET g1 == LevelsBefore(s, a.g, target + 1)
      g2 == IF LossDue(g1, OPEN) THEN LossesBefore(CodecAdvance(g1, target), OPEN) ELSE g1
      g == IF a.all THEN g2 ELSE a.g
      upto == IF a.all THEN target ELSE Most({0, a.upto - 1})
  IN  IF ~g.have \/ upto > g.decoded
      THEN [CodecAdvance(g, upto) EXCEPT !.decoded = upto, !.have = TRUE]
      ELSE g

Target(s, runs) == Watermark(s) - (IF runs THEN GroupHold ELSE 0)

GroupStep(s, runs, g) ==
  IF ~g.codec \/ Watermark(s) = NoTick \/ Target(s, runs) < 0 THEN g
  ELSE IF g.have /\ g.decoded >= Target(s, runs) THEN g
  ELSE LET a == FoldLeft(LAMBDA x, i : ReadRound(s, Target(s, runs), x),
                         Resumed(s, Target(s, runs), g), [i \in 1..ReplayStep |-> i])
       IN  IF a.behind THEN GroupStart(g.decoded) ELSE Ended(s, Target(s, runs), a)

-----------------------------------------------------------------------------
(* The rounds of session_main(). *)

(* A stream as it is pulled: up to a heartbeat at a time. *)
Beats(stream) == {i \in DOMAIN stream : stream[i].t = "heartbeat"}
Pulled(d, n) ==
  LET ends == {i \in Beats(cap.stream[d]) : i > pos[d]}
  IN  IF n = 0 \/ ends = {} THEN pos[d]
      ELSE IF Cardinality(ends) < n THEN Most(ends) ELSE Nth(ends, n - 1)

Entries(d, n) ==
  [i \in 1..(Pulled(d, n) - pos[d]) |-> cap.stream[d][pos[d] + i] @@ [d |-> d]]

Brought(n) ==
  FlattenSeq([i \in 1..Cardinality(DataChannels) |->
                LET d == CHOOSE d \in DataChannels :
                           Cardinality({e \in DataChannels : Least(Block[e]) < Least(Block[d])})
                             = i - 1
                IN  Entries(d, n[d])])

Init ==
  /\ \E k \in Captures : cap = [stream |-> [d \in DataChannels |-> Lines!Stream(k, d)],
                                losses |-> Lines!Losses(k)]
  /\ pos = [d \in DataChannels |-> 0]
  /\ told = << >> /\ st = StoreNew /\ reading = TRUE
  /\ groups = [g \in Groups |-> IF g = Live THEN GroupStart(0) ELSE NotAdded]

LossEntry(l) == [t |-> "loss", tick |-> l.start, end |-> l.end, lost |-> l.lost]

(* Losses are told in order, each once its data channel has come to its    *)
(* start.                                                                  *)
CanTell(i) ==
  \E d \in DataChannels :
    Block[d] \intersect cap.losses[i].lost # {} /\ st.wm[d] >= cap.losses[i].start

Untold == Len(cap.losses) - Len(told)

Pull(n, tells) ==
  LET news == SubSeq(cap.losses, Len(told) + 1, Len(told) + tells)
  IN  /\ reading
      /\ \A i \in DOMAIN news : CanTell(Len(told) + i)
      /\ tells > 0 \/ \E d \in DataChannels : Pulled(d, n[d]) > pos[d]
      /\ pos' = [d \in DataChannels |-> Pulled(d, n[d])]
      /\ told' = told \o [i \in 1..tells |-> Watermark(st)]
      /\ st' = StoreWrite(st, [i \in 1..tells |-> LossEntry(news[i])] \o Brought(n))
      /\ groups' = [g \in Groups |-> GroupStep(st', TRUE, groups[g])]
      /\ UNCHANGED <<cap, reading>>

(* Rounds after the capture has ended, or with nothing pulled. *)
Rest ==
  /\ groups' = [g \in Groups |-> GroupStep(st, reading, groups[g])]
  /\ groups' # groups
  /\ UNCHANGED <<cap, pos, told, st, reading>>

(* CMD_STOP, or the end of a file: capture_ended(). *)
Stop ==
  /\ reading
  /\ reading' = FALSE
  /\ UNCHANGED <<cap, pos, told, st, groups>>

(* CMD_DECODER_ADD: a group of its own, ... *)
AddGroup(g) ==
  /\ groups[g] = NotAdded
  /\ groups' = [groups EXCEPT ![g] = GroupStart(0)]
  /\ UNCHANGED <<cap, pos, told, st, reading>>

(* ... or one stacked on a group, which decodes again from the store's     *)
(* start, also when the new decoder could not be made.                     *)
StackOn(g) ==
  /\ groups[g].codec
  /\ groups' = [groups EXCEPT ![g] = GroupStart(@.decoded)]
  /\ UNCHANGED <<cap, pos, told, st, reading>>

Next ==
  \/ \E n \in [DataChannels -> 0..2], tells \in 0..Untold : Pull(n, tells)
  \/ Rest \/ Stop
  \/ \E g \in Groups : AddGroup(g) \/ StackOn(g)

Spec == Init /\ [][Next]_vars

-----------------------------------------------------------------------------
Calls(g, t) == SelectSeq(groups[g].log, LAMBDA c : c.t = t)
(* The group has taken a step since it was started, or started again. *)
Running(g) == groups[g].codec /\ groups[g].started

(* The records pulled after tick skip, in order. *)
Due(skip) ==
  LET pulled == UNION {{cap.stream[d][i] : i \in 1..pos[d]} : d \in DataChannels}
      recs == {e \in pulled : e.t = "record" /\ (skip = 0 \/ e.tick > skip)}
  IN  Lines!Ranked(recs, Lines!Sooner)

(* Once a group has taken a step since it was started, or started again,   *)
(* its decoders are given every record after the tick it started at, in    *)
(* the order of the capture and once, and have all those up to the tick it *)
(* has decoded to: whatever is read at once, waits for the target, is      *)
(* pulled meanwhile, or was dropped before it could be read (group_step).  *)
FedInOrder ==
  \A g \in Groups : Running(g) =>
    LET due == Due(groups[g].skip)
        given == Calls(g, "record")
    IN  /\ Len(given) <= Len(due)
        /\ \A i \in DOMAIN due :
             IF i <= Len(given) THEN given[i] = due[i]
             ELSE groups[g].have => due[i].tick > groups[g].decoded

(* Loss i was told within the hold of a group that runs. *)
InTime(i) == i \in DOMAIN told /\ told[i] < cap.losses[i].start + GroupHold

(* Loss i is given once, after the records up to its start and before      *)
(* those after it, by the time the group has decoded past it, unless the   *)
(* store has dropped what it covers.                                       *)
InPlace(g, i) ==
  LET log == groups[g].log
      loss == cap.losses[i]
      given == {k \in DOMAIN log : log[k].t = "loss" /\ log[k].start = loss.start}
  IN  /\ Cardinality(given) <= 1
      /\ \A k \in given, j \in DOMAIN log :
           log[j].t = "record" => (j < k <=> log[j].tick <= loss.start)
      /\ given = {} /\ groups[g].have /\ loss.end >= st.oldest
         => groups[g].decoded < loss.start

(* "While the capture runs, a group decodes up to the watermark less its   *)
(* hold, so the losses up to there are known, and each is given just       *)
(* before the first record after its start" (session.h).  With more than   *)
(* FedMax losses in reach it is not so: losses_known() asks the store for  *)
(* the oldest FedMax, whether or not they were given before.               *)
EveryLossInPlace ==
  \A g \in Groups, i \in DOMAIN cap.losses : Running(g) /\ InTime(i) => InPlace(g, i)

(* It is so for a loss with fewer than FedMax before it, however many come *)
(* after, and whether the group follows the capture, catches up with it or *)
(* is started again (losses_known, losses_before, feed).                   *)
LossInPlace ==
  \A g \in Groups, i \in DOMAIN cap.losses :
    Running(g) /\ InTime(i) /\ i <= FedMax /\ Cardinality(Channels) <= KnownLines
    => InPlace(g, i)

(* What decoders are given is the capture, in order and once, with the     *)
(* losses told within a group's hold in their places, as far as the two    *)
(* conditions above say.                                                   *)
FedRight == FedInOrder /\ LossInPlace

(* "How far it has decoded" (session.h, struct session_decoder): what the  *)
(* session says of a group at the end of a round (groups_publish) is true  *)
(* of its decoders: they have every record up to there that the store      *)
(* holds.  It is not so for a group started again, whose decoded is kept   *)
(* while its decoders have been given nothing.                             *)
DecodedIsFed ==
  \A g \in Groups : groups[g].codec =>
    LET given == Range(Calls(g, "record"))
        held == SelectSeq(Due(0), LAMBDA r : r.tick > st.oldest)
    IN  \A r \in Range(held) : r.tick <= groups[g].decoded => r \in given

(* A group with no step left to take has decoded to the end of what there  *)
(* is: no read, target or dropped block leaves it waiting for more         *)
(* (group_step, "one step of a group, up to its target").                  *)
NoneStuck ==
  \A g \in Groups :
    groups[g].codec /\ Watermark(st) # NoTick /\ GroupStep(st, reading, groups[g]) = groups[g]
    => \/ groups[g].have /\ groups[g].decoded >= Target(st, reading)
       \/ Target(st, reading) < 0
=============================================================================
