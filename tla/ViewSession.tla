---------------------------- MODULE ViewSession ----------------------------
(***************************************************************************)
(* The viewer's session (host/ui/session/session.c): a thread that owns a  *)
(* capture and runs the UI's commands in order, and the views the UI reads *)
(* the capture's store through.  One step of the thread is what it does    *)
(* between two sections under the session's lock.  What a pull brings and  *)
(* how a group decodes it are DecoderGroup's: here a store has a           *)
(* watermark, and a group decodes up to it or not yet.                     *)
(***************************************************************************)
EXTENDS Integers, Sequences, FiniteSets, SequencesExt

CONSTANTS
  Backends,   \* of "device" (and the dummy), "file" and "link"
  Commands,   \* the commands the UI may queue
  MaxGroups,  \* SESSION_DECODERS_MAX
  MaxStack,   \* STACKED_MAX
  MaxCmds,    \* bound: commands queued
  MaxTick,    \* bound: the watermark of a store
  MaxHolds    \* bound: holds of the UI on a view

ASSUME SessionAssumption ==
  /\ Backends \subseteq {"device", "file", "link"}
  /\ MaxGroups \in Nat /\ MaxStack \in Nat \ {0}

VARIABLES
  \* Under the session's lock.
  queue, nextId,  \* the commands queued, and the next one's id
  running,        \* the command that runs, as a sequence of at most one
  quit,
  st,             \* session_status: state, decoded, done, result
  decs,           \* session_decoders: per group its label, how far it has decoded
  gen, cur,       \* the views made so far, and the current one or None
  refs,           \* per view, its holds
  \* The session thread's.
  pc,
  cap,            \* the capture session: "none", "ready", "armed" or "used"
  backend,
  reading,
  batch, info,    \* the view the batch is for, the one whose store and info are used
  record,         \* whether the next capture is recorded
  groups,         \* the decoder groups: label, specs, codec's view, have, decoded
  error,          \* the result of the command that runs
  \* The rest.
  wm,             \* per view, its store's watermark, None before a capture
  held            \* per view, the UI's holds on it

locked == <<queue, nextId, running, quit>>
shown == <<st, decs>>
views == <<gen, cur, refs>>
device == <<cap, backend, reading, record>>
vars == <<locked, shown, views, pc, device, batch, info, groups, error, wm, held>>

None == 0
NoData == -1
Command == running[1]

-----------------------------------------------------------------------------
(* Views. *)

Views == 1..gen

(* Mutant: the groups keep their codec sessions. *)
StoppedNot(gs) == gs

(* group_stop() *)
Stopped(gs) == [i \in DOMAIN gs |-> [gs[i] EXCEPT !.codec = None]]

(* Mutant: the old view goes with readers still there. *)
SwappedFrees ==
  [v \in 1..(gen + 1) |-> IF v = gen + 1 THEN 1 ELSE IF v = cur THEN 0 ELSE refs[v]]

(* The session's hold goes from the old current view (view_put) to the new. *)
Swapped ==
  [v \in 1..(gen + 1) |-> IF v = gen + 1 THEN 1 ELSE IF v = cur THEN refs[v] - 1 ELSE refs[v]]

(* view_new(): the new current view, with or without a capture. *)
ViewNew(withCapture) ==
  /\ gen' = gen + 1
  /\ cur' = gen + 1
  /\ refs' = Swapped
  /\ wm' = [v \in 1..(gen + 1) |-> IF v = gen + 1 THEN NoData ELSE wm[v]]
  /\ held' = [v \in 1..(gen + 1) |-> IF v = gen + 1 THEN 0 ELSE held[v]]
  /\ info' = IF withCapture THEN gen + 1 ELSE None
  /\ groups' = Stopped(groups)

(* session_acquire() *)
Acquire ==
  /\ ~quit /\ cur # None /\ held[cur] < MaxHolds
  /\ held' = [held EXCEPT ![cur] = @ + 1]
  /\ refs' = [refs EXCEPT ![cur] = @ + 1]
  /\ UNCHANGED <<locked, shown, gen, cur, pc, device, batch, info, groups, error, wm>>

(* session_release() *)
Release(v) ==
  /\ held[v] > 0
  /\ held' = [held EXCEPT ![v] = @ - 1]
  /\ refs' = [refs EXCEPT ![v] = @ - 1]
  /\ UNCHANGED <<locked, shown, gen, cur, pc, device, batch, info, groups, error, wm>>

-----------------------------------------------------------------------------
(* Commands. *)

(* queue() *)
Queue ==
  /\ ~quit /\ nextId <= MaxCmds
  /\ \E c \in Commands : queue' = Append(queue, c @@ [id |-> nextId])
  /\ nextId' = nextId + 1
  /\ UNCHANGED <<running, quit, shown, views, pc, device, batch, info, groups, error, wm, held>>

(* session_main() takes a command. *)
Take ==
  /\ pc = "idle" /\ ~quit /\ queue # << >>
  /\ running' = <<Head(queue)>> /\ queue' = Tail(queue)
  /\ pc' = "run" /\ error' = FALSE
  /\ UNCHANGED <<nextId, quit, shown, views, device, batch, info, groups, wm, held>>

(* What follows a step of run(): the command's next, or with an error its end. *)
Goes(next, failed) ==
  /\ error' = failed
  /\ pc' = IF failed THEN "publish" ELSE next

(* backend_close(): a running capture is stopped and has ended. *)
BackendClose == cap' = "none" /\ reading' = FALSE

RunOpen ==
  /\ Command.type = "open"
  /\ BackendClose /\ backend' = Command.backend
  /\ Goes("open", FALSE)
  /\ UNCHANGED <<record, groups>>

RunHello ==
  /\ Command.type = "hello"
  /\ IF backend = "none" THEN UNCHANGED <<cap, reading>> ELSE BackendClose
  /\ Goes("open", backend = "none")
  /\ UNCHANGED <<backend, record, groups>>

(* A session runs one capture: the next one is on a session opened again. *)
Reopens == reading \/ cap = "used"

RunStart ==
  /\ Command.type = "start"
  /\ IF cap # "none" /\ Reopens THEN BackendClose ELSE UNCHANGED <<cap, reading>>
  /\ Goes(IF Reopens THEN "open" ELSE "start", cap = "none")
  /\ UNCHANGED <<backend, record, groups>>

(* CMD_STOP: capture_stop() may fail, and the capture has ended all the same. *)
RunStop ==
  /\ Command.type = "stop"
  /\ \E failed \in BOOLEAN :
       Goes("publish", failed /\ reading /\ backend # "file")
  /\ reading' = FALSE
  /\ UNCHANGED <<cap, backend, record, groups>>

RunRecord ==
  /\ Command.type = "record"
  /\ record' = Command.set
  /\ Goes("publish", FALSE)
  /\ UNCHANGED <<cap, backend, reading, groups>>

RunClose ==
  /\ Command.type = "close"
  /\ BackendClose /\ backend' = "none"
  /\ Goes("publish", FALSE)
  /\ UNCHANGED <<record, groups>>

(* group_start(): the arguments may be wrong for the capture. *)
Started(g, made) == [g EXCEPT !.codec = IF made THEN info ELSE None,
                              !.have = IF made THEN FALSE ELSE @]

NewGroup(label) == [label |-> label, specs |-> 1, codec |-> None, have |-> FALSE, decoded |-> 0]

(* group_add(): a new group, or a decoder stacked on one, which goes back  *)
(* to what it was when the decoders cannot be made, or is left with none   *)
(* when there is no memory for that either.                                *)
RunAdd ==
  /\ Command.type = "add"
  /\ \E made, again \in BOOLEAN :
       LET at == {i \in DOMAIN groups : groups[i].label = Command.label}
           i == CHOOSE i \in at : TRUE
           more == [groups[i] EXCEPT !.specs = @ + 1]
           bad == info # None /\ ~made
           refused == IF Command.stacked THEN at = {} \/ more.specs > MaxStack
                      ELSE at # {} \/ Len(groups) = MaxGroups
       IN  /\ Goes("publish", refused \/ bad)
           /\ groups' = IF refused THEN groups
                        ELSE IF Command.stacked
                        THEN [groups EXCEPT ![i] = IF info = None THEN more
                                                   ELSE IF bad THEN Started(@, again)
                                                   ELSE Started(more, TRUE)]
                        ELSE IF bad THEN groups
                        ELSE Append(groups, IF info = None THEN NewGroup(Command.label)
                                            ELSE Started(NewGroup(Command.label), TRUE))
  /\ UNCHANGED device

(* group_remove() *)
RunRemove ==
  /\ Command.type = "remove"
  /\ LET at == {i \in DOMAIN groups : groups[i].label = Command.label}
     IN  /\ Goes("publish", at = {})
         /\ groups' = IF at = {} THEN groups ELSE RemoveAt(groups, CHOOSE i \in at : TRUE)
  /\ UNCHANGED device

Run ==
  /\ pc = "run"
  /\ RunOpen \/ RunHello \/ RunStart \/ RunStop \/ RunRecord \/ RunClose \/ RunAdd \/ RunRemove
  /\ UNCHANGED <<locked, shown, views, batch, info, wm, held>>

(* A file's capture is the file's, and needs no start. *)
Openable == IF backend = "file" THEN "used" ELSE "ready"

(* backend_open(): it fails, a link's capture is joined or cannot be, or   *)
(* there is a new view for the hello.                                      *)
OpenFails ==
  /\ pc = "open"
  /\ cap' \in {"none", Openable}  \* the latter with no memory for the view
  /\ Goes("publish", TRUE)
  /\ UNCHANGED <<locked, shown, views, backend, reading, record, batch, info, groups, wm, held>>

Join ==
  /\ pc = "open" /\ backend = "link"
  /\ \E joined \in BOOLEAN :
       /\ Goes("begin", ~joined)
       /\ cap' = IF joined THEN "used" ELSE "ready"
  /\ UNCHANGED <<locked, shown, views, backend, reading, record, batch, info, groups, wm, held>>

Opened ==
  /\ pc = "open"
  /\ cap' = Openable
  /\ ViewNew(FALSE)
  /\ Goes(IF Command.type = "start" THEN "start" ELSE "publish", FALSE)
  /\ UNCHANGED <<locked, shown, backend, reading, record, batch>>

(* The recording is set up, once for a capture session, and the capture    *)
(* started; a file is ready as it is.                                      *)
StartFile ==
  /\ pc = "start" /\ backend = "file"
  /\ Goes("begin", FALSE)
  /\ UNCHANGED <<locked, shown, views, device, batch, info, groups, wm, held>>

Start ==
  /\ pc = "start" /\ backend # "file"
  /\ \E arms, starts \in BOOLEAN :
       LET records == record /\ backend = "device"
           armed == IF records THEN cap # "armed" /\ arms ELSE TRUE
       IN  /\ Goes("begin", ~(armed /\ starts))
           /\ cap' = IF ~armed THEN cap ELSE IF starts THEN "used"
                     ELSE IF records THEN "armed" ELSE cap
  /\ UNCHANGED <<locked, shown, views, backend, reading, record, batch, info, groups, wm, held>>

(* capture_begin(): no memory for a view, or a new view ... *)
BeginFails ==
  /\ pc = "begin"
  /\ Goes("publish", TRUE)
  /\ groups' \in {groups, Stopped(groups)}
  /\ UNCHANGED <<locked, shown, views, device, batch, info, wm, held>>

Begin ==
  /\ pc = "begin"
  /\ ViewNew(TRUE)
  /\ Goes("begun", FALSE)
  /\ UNCHANGED <<locked, shown, device, batch>>

(* ... with a batch, and the groups on it, each if it can be made. *)
BatchFails ==
  /\ pc = "begun"
  /\ Goes("publish", TRUE)
  /\ batch' = None
  /\ UNCHANGED <<locked, shown, views, device, info, groups, wm, held>>

Begun ==
  /\ pc = "begun"
  /\ Goes("publish", FALSE)
  /\ batch' = info /\ reading' = TRUE
  /\ \E made \in SUBSET DOMAIN groups :
       groups' = [i \in DOMAIN groups |-> Started(groups[i], i \in made)]
  /\ UNCHANGED <<locked, shown, views, cap, backend, record, info, wm, held>>

-----------------------------------------------------------------------------
(* Rounds, and what the UI is shown. *)

(* A round with no command to run: what capture_pull() brings goes to the  *)
(* store, or it is the end of the file or an error and the capture has     *)
(* ended; then every group takes a step, which may start it anew.          *)
Round ==
  /\ pc = "idle" /\ ~quit /\ queue = << >>
  /\ \E n \in {"data", "more", "end"}, due, anew \in SUBSET DOMAIN groups :
       LET last == IF info = None THEN NoData ELSE wm[info]
           tick == IF reading /\ n = "more" /\ last < MaxTick THEN last + 1 ELSE last
           Step(i) == IF groups[i].codec = None \/ tick = NoData \/ i \notin due THEN groups[i]
                      ELSE IF i \in anew THEN Started(groups[i], TRUE)
                      ELSE [groups[i] EXCEPT !.have = TRUE, !.decoded = tick]
       IN  /\ reading' = (reading /\ n # "end")
           /\ wm' = IF info = None THEN wm ELSE [wm EXCEPT ![info] = tick]
           /\ groups' = [i \in DOMAIN groups |-> Step(i)]
  /\ pc' = "publish"
  /\ UNCHANGED <<locked, shown, views, cap, backend, record, batch, info, error, held>>

(* groups_publish() *)
PublishGroups ==
  /\ pc = "publish"
  /\ decs' = [i \in DOMAIN groups |-> [label |-> groups[i].label, decoded |-> groups[i].decoded]]
  /\ pc' = "status"
  /\ UNCHANGED <<locked, st, views, device, batch, info, groups, error, wm, held>>

State ==
  IF cap = "none" /\ info = None THEN "closed"
  ELSE IF reading THEN "running" ELSE IF info # None THEN "ended" ELSE "ready"

Decoded ==
  LET all == {groups[i].decoded : i \in {i \in DOMAIN groups : groups[i].codec # None}}
  IN  IF all = {} THEN 0 ELSE CHOOSE t \in all : \A u \in all : t <= u

(* status_publish() *)
PublishStatus ==
  /\ pc = "status"
  /\ st' = [st EXCEPT !.state = State, !.decoded = Decoded]
  /\ pc' = IF running = << >> THEN "idle" ELSE "done"
  /\ UNCHANGED <<locked, decs, views, device, batch, info, groups, error, wm, held>>

(* done() *)
Done ==
  /\ pc = "done"
  /\ st' = [st EXCEPT !.done = Command.id, !.failed = error]
  /\ pc' = "finish"
  /\ UNCHANGED <<locked, decs, views, device, batch, info, groups, error, wm, held>>

Finish ==
  /\ pc = "finish"
  /\ running' = << >> /\ pc' = "idle"
  /\ UNCHANGED <<queue, nextId, quit, shown, views, device, batch, info, groups, error, wm, held>>

-----------------------------------------------------------------------------
(* session_free(), which the UI calls with no view acquired. *)
Quit ==
  /\ ~quit /\ \A v \in Views : held[v] = 0
  /\ quit' = TRUE
  /\ UNCHANGED <<queue, nextId, running, shown, views, pc, device, batch, info, groups, error,
                 wm, held>>

(* The thread's end, which session_free() joins. *)
Exit ==
  /\ pc = "idle" /\ quit
  /\ BackendClose
  /\ groups' = Stopped(groups) /\ batch' = None
  /\ pc' = "exited"
  /\ UNCHANGED <<locked, shown, views, backend, record, info, error, wm, held>>

(* Mutant: the session's own hold is forgotten. *)
FreeKeeps ==
  /\ pc = "exited"
  /\ queue' = << >> /\ cur' = None /\ info' = None
  /\ pc' = "freed"
  /\ UNCHANGED <<nextId, running, quit, shown, gen, refs, device, batch, groups, error, wm, held>>

(* What session_free() does then. *)
Free ==
  /\ pc = "exited"
  /\ queue' = << >>
  /\ refs' = IF cur = None THEN refs ELSE [refs EXCEPT ![cur] = @ - 1]
  /\ cur' = None /\ info' = None
  /\ pc' = "freed"
  /\ UNCHANGED <<nextId, running, quit, shown, gen, device, batch, groups, error, wm, held>>

-----------------------------------------------------------------------------
Init ==
  /\ queue = << >> /\ nextId = 1 /\ running = << >> /\ quit = FALSE
  /\ st = [state |-> "closed", decoded |-> 0, done |-> 0, failed |-> FALSE]
  /\ decs = << >>
  /\ gen = 0 /\ cur = None /\ refs = << >> /\ wm = << >> /\ held = << >>
  /\ pc = "idle" /\ cap = "none" /\ backend = "none" /\ reading = FALSE
  /\ batch = None /\ info = None /\ record = FALSE
  /\ groups = << >> /\ error = FALSE

Thread ==
  \/ Take \/ Run \/ OpenFails \/ Join \/ Opened \/ StartFile \/ Start
  \/ BeginFails \/ Begin \/ BatchFails \/ Begun
  \/ Round \/ PublishGroups \/ PublishStatus \/ Done \/ Finish \/ Exit

Next == Thread \/ Queue \/ Acquire \/ (\E v \in Views : Release(v)) \/ Quit \/ Free

Spec == Init /\ [][Next]_vars

(* The thread runs, and session_free() joins it. *)
FairSpec == Spec /\ WF_vars(Thread) /\ WF_vars(Free)

-----------------------------------------------------------------------------
TypeOK ==
  /\ gen \in Nat /\ cur \in 0..gen /\ info \in 0..gen
  /\ refs \in [Views -> Int] /\ held \in [Views -> Nat] /\ wm \in [Views -> Int]

(* A view is freed when, and only when, neither the session nor the UI     *)
(* holds it (view_put).                                                    *)
HoldsExact == \A v \in Views : refs[v] = held[v] + (IF v = cur THEN 1 ELSE 0)

(* What the thread works on is the current view's: the store it writes,    *)
(* and the capture info that every group's codec session and the batch     *)
(* read (view_new: "they go first").                                       *)
OnCurrentView ==
  /\ info \in {None, cur}
  /\ reading => batch = cur /\ info = cur
  /\ \A i \in DOMAIN groups : groups[i].codec \in {None, cur}

(* When nothing is queued or runs the status says the last command is done *)
(* and shows what it did: its groups, and the state since.                 *)
DoneIsShown ==
  queue = << >> /\ running = << >> =>
    /\ st.done = nextId - 1 \/ quit
    /\ [i \in DOMAIN decs |-> decs[i].label] = [i \in DOMAIN groups |-> groups[i].label]
       \/ pc = "exited"
    /\ st.state = State \/ (st.state = "running" /\ State = "ended") \/ quit

(* Every command queued is done, unless the session goes first. *)
CommandsDone == \A n \in 1..MaxCmds : nextId > n ~> st.done >= n \/ quit

(* session_free() ends the capture and frees every view. *)
FreeFrees == quit ~> pc = "freed" /\ ~reading /\ \A v \in Views : refs[v] = 0

(* A UI that waits for a command sees it done and what it did, and a       *)
(* session_free() at any time comes to its end.                            *)
CommandsShown == CommandsDone /\ FreeFrees /\ []DoneIsShown
=============================================================================
