------------------------- MODULE ViewSessionProofs -------------------------
(***************************************************************************)
(* Theorems about ViewSession, for any backends, commands and bounds.      *)
(***************************************************************************)
EXTENDS ViewSession, SequenceTheorems, TLAPS

-----------------------------------------------------------------------------
(* Types. *)

Queued == {c @@ [id |-> n] : c \in Commands, n \in Nat}
Label == {c.label : c \in Queued}
Group == [label : Label, specs : Int, codec : Nat, have : BOOLEAN, decoded : Int]

Types ==
  /\ TypeOK
  /\ queue \in Seq(Queued) /\ running \in Seq(Queued) /\ nextId \in Nat
  /\ groups \in Seq(Group)
  /\ pc = "run" => running # << >>

(* Where the thread stands: it has closed the capture before it opens or   *)
(* starts one, and the info is the new view's once capture_begin() made it.*)
Opening ==
  /\ pc \in {"open", "start", "begin", "begun"} => ~reading
  /\ pc = "begun" => info = cur
  /\ pc \in {"exited", "freed"} => ~reading /\ \A i \in DOMAIN groups : groups[i].codec = None

ViewInv == Types /\ HoldsExact /\ OnCurrentView /\ Opening

LEMMA ViewInit == Init => ViewInv
  BY SessionAssumption DEF Init, ViewInv, Types, TypeOK, HoldsExact, OnCurrentView, Opening,
     Views, None

(* group_start() gives a group the session's info, or no codec session.    *)
LEMMA StartedGroup ==
  ASSUME info \in Nat, NEW g \in Group, NEW made \in BOOLEAN
  PROVE  /\ Started(g, made) \in Group
         /\ Started(g, made).codec \in {None, info}
  BY DEF Started, Group, None

LEMMA StoppedGroups ==
  ASSUME groups \in Seq(Group)
  PROVE  /\ Stopped(groups) \in Seq(Group)
         /\ \A i \in DOMAIN Stopped(groups) : Stopped(groups)[i].codec = None
  <1>1. None \in Nat
    BY DEF None
  <1>2. \A g \in Group : [g EXCEPT !.codec = None] \in Group /\ [g EXCEPT !.codec = None].codec = None
    BY <1>1, Zenon DEF Group
  <1>3. DOMAIN groups = 1..Len(groups) /\ \A i \in 1..Len(groups) : groups[i] \in Group
    OBVIOUS
  <1>4. DOMAIN Stopped(groups) = 1..Len(groups)
        /\ \A i \in 1..Len(groups) : Stopped(groups)[i] = [groups[i] EXCEPT !.codec = None]
    BY <1>3 DEF Stopped
  <1>5. Stopped(groups) \in [1..Len(groups) -> Group]
    BY <1>2, <1>3, Zenon DEF Stopped
  <1>6. Stopped(groups) \in Seq(Group)
    BY <1>5, SeqDef
  <1>7. \A i \in DOMAIN Stopped(groups) : Stopped(groups)[i].codec = None
    <2> SUFFICES ASSUME NEW i \in 1..Len(groups) PROVE Stopped(groups)[i].codec = None
      BY <1>4
    <2>1. Stopped(groups)[i] = [groups[i] EXCEPT !.codec = None] /\ groups[i] \in Group
      BY <1>3, <1>4
    <2> QED
      BY <1>2, <2>1, Zenon
  <1> QED
    BY <1>6, <1>7

(* A new view has the session's hold, which the current one gives up.      *)
LEMMA ViewNewHolds ==
  ASSUME Types, HoldsExact, NEW withCapture \in BOOLEAN, ViewNew(withCapture)
  PROVE  TypeOK' /\ HoldsExact' /\ cur' # None /\ info' \in {None, cur'}
         /\ (withCapture => info' = cur')
  <1>1. gen' \in Nat /\ cur' \in 0..gen' /\ info' \in 0..gen' /\ Views' = 1..(gen + 1)
    BY DEF Types, TypeOK, ViewNew, Views, None
  <1>2. Swapped \in [1..(gen + 1) -> Int]
    BY DEF Types, TypeOK, Swapped, Views
  <1>3. refs' \in [Views' -> Int] /\ held' \in [Views' -> Nat] /\ wm' \in [Views' -> Int]
    BY <1>1, <1>2 DEF Types, TypeOK, ViewNew, Views, NoData
  <1>4. HoldsExact'
    BY <1>1, <1>2 DEF Types, TypeOK, HoldsExact, ViewNew, Swapped, Views
  <1> QED
    BY <1>1, <1>3, <1>4 DEF TypeOK, ViewNew, None, Types

(* What the commands do to the groups and to the capture.                  *)
LEMMA RemoveGroup ==
  ASSUME groups \in Seq(Group), NEW i \in DOMAIN groups
  PROVE  /\ RemoveAt(groups, i) \in Seq(Group)
         /\ \A j \in DOMAIN RemoveAt(groups, i) :
              \E k \in DOMAIN groups : RemoveAt(groups, i)[j] = groups[k]
  <1> DEFINE a == SubSeq(groups, 1, i - 1)
             b == SubSeq(groups, i + 1, Len(groups))
  <1>1. a \in Seq(Group) /\ Len(a) = i - 1 /\ \A j \in 1..(i - 1) : a[j] = groups[j]
    OBVIOUS
  <1>2. b \in Seq(Group) /\ Len(b) = Len(groups) - i
        /\ \A j \in 1..(Len(groups) - i) : b[j] = groups[j + i]
    OBVIOUS
  <1>3. a \o b \in Seq(Group) /\ Len(a \o b) = Len(groups) - 1
    <2>1. i \in 1..Len(groups) /\ Len(groups) \in Nat
      OBVIOUS
    <2>3. a \in Seq(Group) /\ b \in Seq(Group)
      BY <1>1, <1>2
    <2> HIDE DEF a, b
    <2>2. a \o b \in Seq(Group) /\ Len(a \o b) = Len(a) + Len(b)
      BY <2>3, ConcatProperties
    <2> QED
      <3>1. Len(a) = i - 1 /\ Len(b) = Len(groups) - i
        BY <1>1, <1>2
      <3> QED
        BY <2>1, <2>2, <3>1
  <1>4. \A j \in 1..(Len(groups) - 1) :
          (a \o b)[j] = IF j < i THEN groups[j] ELSE groups[j + 1]
    <2> HIDE DEF a, b
    <2> QED
      BY <1>1, <1>2
  <1>5. RemoveAt(groups, i) = a \o b
    BY DEF RemoveAt
  <1> HIDE DEF a, b
  <1>6. DOMAIN (a \o b) = 1..(Len(groups) - 1) /\ DOMAIN groups = 1..Len(groups) /\ i \in 1..Len(groups)
    BY <1>3
  <1>7. \A j \in 1..(Len(groups) - 1) : \E k \in 1..Len(groups) : (a \o b)[j] = groups[k]
    <2> TAKE j \in 1..(Len(groups) - 1)
    <2>1. CASE j < i
      <3>1. j \in 1..Len(groups)
        OBVIOUS
      <3> QED
        BY <2>1, <3>1, <1>4
    <2>2. CASE ~(j < i)
      <3>1. j + 1 \in 1..Len(groups)
        OBVIOUS
      <3> QED
        BY <2>2, <3>1, <1>4, <1>6
    <2> QED
      BY <2>1, <2>2
  <1> QED
    BY <1>3, <1>5, <1>6, <1>7

GroupsOn(v) == groups' \in Seq(Group) /\ \A i \in DOMAIN groups' : groups'[i].codec \in {None, v}

LEMMA AddGroups ==
  ASSUME Types, OnCurrentView, pc = "run", RunAdd
  PROVE  GroupsOn(cur)
  <1>1. info \in Nat /\ groups \in Seq(Group) /\ info \in {None, cur}
    BY DEF Types, TypeOK, OnCurrentView
  <1>2. PICK made \in BOOLEAN, again \in BOOLEAN :
         LET at == {i \in DOMAIN groups : groups[i].label = Command.label}
             i == CHOOSE i \in at : TRUE
             more == [groups[i] EXCEPT !.specs = @ + 1]
             bad == info # None /\ ~made
             refused == IF Command.stacked THEN at = {} \/ more.specs > MaxStack
                        ELSE at # {} \/ Len(groups) = MaxGroups
         IN  groups' = IF refused THEN groups
                        ELSE IF Command.stacked
                        THEN [groups EXCEPT ![i] = IF info = None THEN more
                                                   ELSE IF bad THEN Started(@, again)
                                                   ELSE Started(more, TRUE)]
                        ELSE IF bad THEN groups
                        ELSE Append(groups, IF info = None THEN NewGroup(Command.label)
                                            ELSE Started(NewGroup(Command.label), TRUE))
    BY DEF RunAdd
  <1> DEFINE at == {i \in DOMAIN groups : groups[i].label = Command.label}
             i == CHOOSE i \in at : TRUE
             more == [groups[i] EXCEPT !.specs = @ + 1]
             bad == info # None /\ ~made
             stacked == IF info = None THEN more
                        ELSE IF bad THEN Started(groups[i], again) ELSE Started(more, TRUE)
             new == IF info = None THEN NewGroup(Command.label)
                    ELSE Started(NewGroup(Command.label), TRUE)
  <1>3. \/ groups' = groups
        \/ at # {} /\ groups' = [groups EXCEPT ![i] = stacked]
        \/ groups' = Append(groups, new)
    BY <1>2
  <1>4. Command.label \in Label
    BY DEF Types, Command, Label
  <1>5. new \in Group /\ new.codec \in {None, cur}
    <2>1. NewGroup(Command.label) \in Group /\ NewGroup(Command.label).codec = None
      BY <1>4 DEF NewGroup, Group, None
    <2> QED
      BY <1>1, <2>1, StartedGroup
  <1>6. ASSUME at # {} PROVE i \in DOMAIN groups /\ stacked \in Group /\ stacked.codec \in {None, cur}
    <2>1. i \in DOMAIN groups
      BY <1>6
    <2>2. groups[i] \in Group /\ groups[i].codec \in {None, cur}
      BY <1>1, <2>1 DEF OnCurrentView
    <2>3. more \in Group /\ more.codec = groups[i].codec
      <3>1. groups[i].specs + 1 \in Int
        BY <2>2 DEF Group
      <3> QED
        BY <2>2, <3>1, Zenon DEF Group
    <2> QED
      BY <1>1, <2>1, <2>2, <2>3, StartedGroup
  <1> HIDE DEF at, i, more, bad, stacked, new
  <1>7. CASE groups' = groups
    BY <1>7, <1>1 DEF GroupsOn, OnCurrentView
  <1>8. CASE at # {} /\ groups' = [groups EXCEPT ![i] = stacked]
    BY <1>8, <1>6, <1>1 DEF GroupsOn, OnCurrentView
  <1>9. CASE groups' = Append(groups, new)
    BY <1>9, <1>5, <1>1 DEF GroupsOn, OnCurrentView
  <1> QED
    BY <1>3, <1>7, <1>8, <1>9

-----------------------------------------------------------------------------
(* The steps. *)

(* A step that leaves the views, the capture and the groups as they are.   *)
unmoved == <<views, held, wm, info, batch, groups>>

LEMMA Unmoved ==
  ASSUME ViewInv, UNCHANGED unmoved, reading' = FALSE \/ reading' = reading
  PROVE  TypeOK' /\ HoldsExact' /\ OnCurrentView' /\ groups' \in Seq(Group)
  BY DEF ViewInv, Types, TypeOK, HoldsExact, OnCurrentView, Views, unmoved, views

LEMMA RunStep ==
  ASSUME ViewInv, Run
  PROVE  ViewInv'
  <1> USE DEF ViewInv
  <1>1. /\ pc = "run" /\ pc' \in {"open", "start", "publish"}
        /\ pc' \in {"open", "start"} => ~reading'
        /\ reading' => reading
    <2>1. CASE RunStart
      BY <2>1 DEF Run, RunStart, Goes, BackendClose, Reopens
    <2>2. CASE RunStop
      BY <2>2 DEF Run, RunStop, Goes
    <2>3. CASE RunOpen \/ RunHello \/ RunClose
      BY <2>3 DEF Run, RunOpen, RunHello, RunClose, Goes, BackendClose
    <2>4. CASE RunRecord \/ RunAdd \/ RunRemove
      <3>1. UNCHANGED reading /\ \E failed \in BOOLEAN : Goes("publish", failed)
        BY <2>4, Zenon DEF RunRecord, RunAdd, RunRemove, device
      <3> QED
        BY <3>1 DEF Run, Goes
    <2> QED
      BY <2>1, <2>2, <2>3, <2>4 DEF Run
  <1>2. GroupsOn(cur)
    <2>1. CASE groups' = groups
      BY <2>1 DEF Types, OnCurrentView, GroupsOn
    <2>2. CASE RunAdd
      BY <1>1, <2>2, AddGroups
    <2>3. CASE RunRemove
      BY <2>3, RemoveGroup DEF RunRemove, GroupsOn, Types, OnCurrentView
    <2> QED
      BY <2>1, <2>2, <2>3 DEF Run, RunOpen, RunHello, RunStart, RunStop, RunRecord, RunClose
  <1>3. TypeOK' /\ HoldsExact'
    BY DEF Run, Types, TypeOK, HoldsExact, Views, views
  <1>4. UNCHANGED <<cur, info, batch, queue, running, nextId>>
    BY DEF Run, views, locked
  <1>5. OnCurrentView'
    BY <1>1, <1>2, <1>4 DEF OnCurrentView, GroupsOn
  <1>6. Types'
    BY <1>1, <1>2, <1>3, <1>4 DEF Types, GroupsOn
  <1>7. Opening'
    BY <1>1 DEF Opening
  <1> QED
    BY <1>3, <1>5, <1>6, <1>7

(* backend_open() and capture_begin() make a view.                         *)
LEMMA NewViewStep ==
  ASSUME ViewInv, NEW withCapture \in BOOLEAN, ViewNew(withCapture), ~reading,
         UNCHANGED <<locked, reading, batch>>,
         pc' \in {"start", "publish", "begun"}, pc' = "begun" => withCapture
  PROVE  ViewInv'
  <1> USE DEF ViewInv
  <1>1. TypeOK' /\ HoldsExact' /\ cur' # None /\ info' \in {None, cur'} /\ (withCapture => info' = cur')
    BY ViewNewHolds
  <1>2. groups' \in Seq(Group) /\ \A i \in DOMAIN groups' : groups'[i].codec = None
    BY StoppedGroups DEF ViewNew, Types
  <1> QED
    BY <1>1, <1>2 DEF Types, locked, OnCurrentView, Opening

LEMMA BegunStep ==
  ASSUME ViewInv, Begun
  PROVE  ViewInv'
  <1> USE DEF ViewInv
  <1>1. info \in Nat /\ info = cur /\ groups \in Seq(Group)
    BY DEF Types, TypeOK, Opening, Begun
  <1>2. PICK made \in SUBSET DOMAIN groups :
          groups' = [i \in DOMAIN groups |-> Started(groups[i], i \in made)]
    BY DEF Begun
  <1>3. \A i \in 1..Len(groups) : /\ Started(groups[i], i \in made) \in Group
                                 /\ Started(groups[i], i \in made).codec \in {None, cur}
    <2> TAKE i \in 1..Len(groups)
    <2>1. groups[i] \in Group /\ (i \in made) \in BOOLEAN
      BY <1>1
    <2> QED
      BY <1>1, <2>1, StartedGroup
  <1>4. GroupsOn(cur)
    <2>1. DOMAIN groups = 1..Len(groups) /\ Len(groups) \in Nat
      BY <1>1
    <2>2. groups' \in [1..Len(groups) -> Group]
      BY <1>2, <1>3, <2>1, Zenon
    <2>3. groups' \in Seq(Group)
      BY <2>1, <2>2, SeqDef
    <2>4. \A i \in DOMAIN groups' : groups'[i].codec \in {None, cur}
      BY <1>2, <1>3, <2>1, Zenon
    <2> QED
      BY <2>3, <2>4 DEF GroupsOn
  <1>5. TypeOK' /\ HoldsExact'
    BY DEF Begun, Types, TypeOK, HoldsExact, Views, views
  <1> QED
    BY <1>1, <1>4, <1>5 DEF Begun, Types, locked, views, OnCurrentView, Opening, Goes, GroupsOn

(* A round writes the watermark of the store in use, and groups decode.    *)
LEMMA RoundStep ==
  ASSUME ViewInv, Round
  PROVE  ViewInv'
  <1> USE DEF ViewInv
  <1>1. PICK n \in {"data", "more", "end"}, due \in SUBSET DOMAIN groups,
             anew \in SUBSET DOMAIN groups :
          LET last == IF info = None THEN NoData ELSE wm[info]
              tick == IF reading /\ n = "more" /\ last < MaxTick THEN last + 1 ELSE last
              Step(i) == IF groups[i].codec = None \/ tick = NoData \/ i \notin due THEN groups[i]
                         ELSE IF i \in anew THEN Started(groups[i], TRUE)
                         ELSE [groups[i] EXCEPT !.have = TRUE, !.decoded = tick]
          IN  /\ reading' = (reading /\ n # "end")
              /\ wm' = IF info = None THEN wm ELSE [wm EXCEPT ![info] = tick]
              /\ groups' = [i \in DOMAIN groups |-> Step(i)]
    BY DEF Round
  <1> DEFINE last == IF info = None THEN NoData ELSE wm[info]
             tick == IF reading /\ n = "more" /\ last < MaxTick THEN last + 1 ELSE last
             step(i) == IF groups[i].codec = None \/ tick = NoData \/ i \notin due THEN groups[i]
                        ELSE IF i \in anew THEN Started(groups[i], TRUE)
                        ELSE [groups[i] EXCEPT !.have = TRUE, !.decoded = tick]
  <1>2. /\ reading' = (reading /\ n # "end")
        /\ wm' = IF info = None THEN wm ELSE [wm EXCEPT ![info] = tick]
        /\ groups' = [i \in DOMAIN groups |-> step(i)]
    BY <1>1, Zenon
  <1>3. /\ info \in Nat /\ info \in {None, cur} /\ (info # None => info \in Views)
        /\ wm \in [Views -> Int] /\ groups \in Seq(Group)
        /\ DOMAIN groups = 1..Len(groups) /\ Len(groups) \in Nat
    BY DEF Types, TypeOK, OnCurrentView, Views, None
  <1>4. tick \in Int
    <2>1. last \in Int /\ last + 1 \in Int
      BY <1>3 DEF NoData
    <2> QED
      BY <2>1, Zenon
  <1> HIDE DEF tick
  <1>5. wm' \in [Views -> Int]
    BY <1>2, <1>3, <1>4
  <1>6. \A i \in 1..Len(groups) : step(i) \in Group /\ step(i).codec \in {None, cur}
    <2> SUFFICES ASSUME NEW i \in 1..Len(groups)
                 PROVE  step(i) \in Group /\ step(i).codec \in {None, cur}
      OBVIOUS
    <2>1. groups[i] \in Group /\ groups[i].codec \in {None, cur}
      BY <1>3 DEF OnCurrentView
    <2>2. Started(groups[i], TRUE) \in Group /\ Started(groups[i], TRUE).codec \in {None, cur}
      <3>1. info \in Nat /\ info \in {None, cur} /\ TRUE \in BOOLEAN
        BY <1>3
      <3>2. /\ Started(groups[i], TRUE) \in Group
            /\ Started(groups[i], TRUE).codec \in {None, info}
        BY <2>1, <3>1, StartedGroup
      <3> QED
        BY <3>1, <3>2
    <2>3. /\ [groups[i] EXCEPT !.have = TRUE, !.decoded = tick] \in Group
          /\ [groups[i] EXCEPT !.have = TRUE, !.decoded = tick].codec \in {None, cur}
      BY <1>4, <2>1, Zenon DEF Group
    <2> QED
      BY <2>1, <2>2, <2>3, Zenon
  <1>7. groups' \in [1..Len(groups) -> Group] /\ \A i \in 1..Len(groups) : groups'[i] = step(i)
    BY <1>2, <1>3, <1>6, Zenon
  <1> HIDE DEF step
  <1>8. GroupsOn(cur)
    <2>1. groups' \in Seq(Group)
      BY <1>3, <1>7, SeqDef
    <2>2. \A i \in DOMAIN groups' : groups'[i].codec \in {None, cur}
      BY <1>6, <1>7
    <2> QED
      BY <2>1, <2>2 DEF GroupsOn
  <1>9. /\ UNCHANGED <<gen, cur, refs, held, info, batch, queue, running, nextId>>
        /\ pc = "idle" /\ pc' = "publish"
    BY DEF Round, views, locked
  <1>10. reading' => reading
    BY <1>2
  <1>11. TypeOK' /\ HoldsExact'
    BY <1>5, <1>9 DEF Types, TypeOK, HoldsExact, Views
  <1>12. OnCurrentView'
    BY <1>8, <1>9, <1>10 DEF OnCurrentView, GroupsOn
  <1>13. Types'
    BY <1>8, <1>9, <1>11 DEF Types, GroupsOn
  <1>14. Opening'
    BY <1>9 DEF Opening
  <1> QED
    BY <1>11, <1>12, <1>13, <1>14

(* The UI's holds, and the last one of the session.                        *)
LEMMA HoldStep ==
  ASSUME ViewInv, Acquire \/ (\E v \in Views : Release(v)) \/ Free
  PROVE  ViewInv'
  <1> USE DEF ViewInv
  <1>1. CASE Acquire
    <2>1. cur \in Views
      BY <1>1 DEF Acquire, Types, TypeOK, Views, None
    <2>2. TypeOK' /\ HoldsExact'
      BY <1>1, <2>1 DEF Acquire, Types, TypeOK, HoldsExact, Views
    <2>3. UNCHANGED <<cur, info, batch, groups, pc, reading, queue, running, nextId>>
      BY <1>1 DEF Acquire, device, locked
    <2> QED
      BY <2>2, <2>3 DEF Types, OnCurrentView, Opening
  <1>2. CASE \E v \in Views : Release(v)
    <2>1. PICK v \in Views : Release(v)
      BY <1>2
    <2>2. /\ held' = [held EXCEPT ![v] = held[v] - 1]
          /\ refs' = [refs EXCEPT ![v] = refs[v] - 1]
          /\ held[v] > 0
          /\ UNCHANGED <<gen, cur, info, wm>>
      BY <2>1 DEF Release
    <2>6. held \in [Views -> Nat] /\ refs \in [Views -> Int]
      BY DEF Types, TypeOK
    <2>7. held[v] \in Nat /\ held[v] - 1 \in Nat /\ refs[v] \in Int /\ refs[v] - 1 \in Int
      BY <2>2, <2>6
    <2>4. TypeOK'
      <3>1. held' \in [Views -> Nat]
        BY <2>2, <2>6, <2>7
      <3>2. refs' \in [Views -> Int]
        BY <2>2, <2>6, <2>7
      <3>3. Views' = Views
        BY <2>2 DEF Views
      <3> QED BY <2>2, <3>1, <3>2, <3>3 DEF Types, TypeOK
    <2>5. HoldsExact'
      <3>1. \A w \in Views : refs'[w] = held'[w] + (IF w = cur THEN 1 ELSE 0)
        <4>1. ASSUME NEW w \in Views, w # v
              PROVE  refs'[w] = held'[w] + (IF w = cur THEN 1 ELSE 0)
          BY <2>2, <2>6, <4>1 DEF HoldsExact
        <4>2. refs'[v] = held'[v] + (IF v = cur THEN 1 ELSE 0)
          <5>1. refs'[v] = refs[v] - 1 /\ held'[v] = held[v] - 1
            BY <2>2, <2>6
          <5>2. refs[v] = held[v] + (IF v = cur THEN 1 ELSE 0)
            BY DEF HoldsExact
          <5> QED BY <2>7, <5>1, <5>2
        <4> QED BY <4>1, <4>2
      <3>2. Views' = Views
        BY <2>2 DEF Views
      <3> QED BY <2>2, <3>1, <3>2 DEF HoldsExact
    <2>3. UNCHANGED <<cur, info, batch, groups, pc, reading, queue, running, nextId>>
      BY <2>1 DEF Release, device, locked
    <2>8. Types'
      BY <2>3, <2>4 DEF Types
    <2>9. OnCurrentView' /\ Opening'
      BY <2>3 DEF OnCurrentView, Opening
    <2> QED
      BY <2>5, <2>8, <2>9
  <1>3. CASE Free
    <2>1. TypeOK' /\ HoldsExact'
      <3>1. /\ refs' = (IF cur = None THEN refs ELSE [refs EXCEPT ![cur] = refs[cur] - 1])
            /\ cur' = None /\ info' = None
            /\ UNCHANGED <<gen, wm, held>>
        BY <1>3 DEF Free
      <3>2. /\ refs \in [Views -> Int] /\ held \in [Views -> Nat] /\ wm \in [Views -> Int]
            /\ gen \in Nat /\ cur \in 0..gen
        BY DEF Types, TypeOK
      <3>3. Views' = Views /\ None \notin Views /\ (cur # None => cur \in Views)
        BY <3>1, <3>2 DEF Views, None
      <3>4. refs' \in [Views -> Int]
        BY <3>1, <3>2, <3>3
      <3>5. ASSUME NEW v \in Views PROVE refs'[v] = held[v]
        BY <3>1, <3>2, <3>3, <3>5 DEF HoldsExact
      <3>6. TypeOK'
        BY <3>1, <3>2, <3>3, <3>4 DEF TypeOK, None
      <3>7. HoldsExact'
        <4>1. ASSUME NEW v \in Views PROVE refs'[v] = held'[v] + (IF v = cur' THEN 1 ELSE 0)
          <5>1. v # cur' /\ held'[v] = held[v] /\ held[v] \in Nat
            BY <3>1, <3>2, <3>3
          <5> QED BY <3>5, <5>1
        <4> QED BY <3>3, <4>1 DEF HoldsExact
      <3> QED BY <3>6, <3>7
    <2>2. << >> \in Seq(Queued)
      OBVIOUS
    <2>3. UNCHANGED <<batch, groups, reading, running, nextId>> /\ pc = "exited" /\ pc' = "freed"
          /\ queue' = << >> /\ info' = None /\ cur' = None
      BY <1>3 DEF Free, device
    <2>4. Types'
      BY <2>1, <2>2, <2>3 DEF Types
    <2>5. OnCurrentView' /\ Opening'
      BY <2>3 DEF OnCurrentView, Opening
    <2> QED
      BY <2>1, <2>4, <2>5
  <1> QED
    BY <1>1, <1>2, <1>3

(* A command, which carries its id, is queued and taken.                   *)
LEMMA QueueStep ==
  ASSUME ViewInv, Queue \/ Take
  PROVE  ViewInv'
  <1> USE DEF ViewInv
  <1>1. UNCHANGED unmoved /\ reading' = reading
    BY DEF Queue, Take, unmoved, views, device
  <1>2. queue' \in Seq(Queued) /\ running' \in Seq(Queued) /\ nextId' \in Nat
        /\ (pc' = "run" => running' # << >>)
        /\ (pc' = pc \/ pc' = "run")
    <2>1. CASE Queue
      <3>1. \E c \in Commands : queue' = Append(queue, c @@ [id |-> nextId])
        BY <2>1 DEF Queue
      <3>2. \A c \in Commands : c @@ [id |-> nextId] \in Queued
        BY DEF Types, Queued
      <3> QED
        BY <2>1, <3>1, <3>2 DEF Queue, Types
    <2>2. CASE Take
      BY <2>2 DEF Take, Types
    <2> QED
      BY <2>1, <2>2
  <1>3. TypeOK' /\ HoldsExact' /\ OnCurrentView' /\ groups' \in Seq(Group)
    BY <1>1, Unmoved
  <1> QED
    BY <1>1, <1>2, <1>3 DEF Types, Opening, unmoved, views

(* The other steps leave the views and the groups as they are.             *)
LEMMA OtherStep ==
  ASSUME ViewInv,
         \/ OpenFails \/ Join \/ StartFile \/ Start \/ BatchFails
         \/ PublishGroups \/ PublishStatus \/ Done \/ Finish \/ Quit
  PROVE  ViewInv'
  <1> USE DEF ViewInv
  <1>1. /\ UNCHANGED <<gen, cur, refs, held, wm, info, groups, queue, nextId, reading>>
        /\ running' = running \/ (running' = << >> /\ pc' = "idle")
        /\ batch' = batch \/ ~reading
    BY DEF OpenFails, Join, StartFile, Start, BatchFails, PublishGroups, PublishStatus, Done,
       Finish, Quit, views, locked, device, Opening
  <1>2. /\ pc' = pc \/ pc' \in {"publish", "begin", "status", "idle", "done", "finish"}
        /\ pc' = "begin" => ~reading
    BY DEF OpenFails, Join, StartFile, Start, BatchFails, PublishGroups, PublishStatus, Done,
       Finish, Quit, Goes, Opening
  <1>3. TypeOK' /\ HoldsExact'
    BY <1>1 DEF Types, TypeOK, HoldsExact, Views
  <1>4. OnCurrentView' /\ Opening'
    BY <1>1, <1>2 DEF OnCurrentView, Opening
  <1>5. running' \in Seq(Queued)
    <2>1. << >> \in Seq(Queued)
      OBVIOUS
    <2> QED
      BY <1>1, <2>1 DEF Types
  <1>6. Types'
    BY <1>1, <1>2, <1>3, <1>5 DEF Types
  <1> QED
    BY <1>3, <1>4, <1>6

(* The thread's end: the capture is closed and the groups are stopped; and *)
(* capture_begin() with no memory, which may have stopped them.            *)
LEMMA StopStep ==
  ASSUME ViewInv, Exit \/ BeginFails
  PROVE  ViewInv'
  <1> USE DEF ViewInv
  <1>1. groups' = groups \/ groups' = Stopped(groups)
    BY DEF Exit, BeginFails
  <1>2. groups' \in Seq(Group) /\ \A i \in DOMAIN groups' : groups'[i].codec \in {None, cur}
    BY <1>1, StoppedGroups DEF Types, OnCurrentView
  <1>3. /\ UNCHANGED <<gen, cur, refs, held, wm, info, queue, running, nextId>>
        /\ pc' \in {"publish", "exited"} /\ ~reading'
        /\ pc' = "exited" => groups' = Stopped(groups)
    BY DEF Exit, BeginFails, views, locked, device, Goes, BackendClose, Opening
  <1>4. TypeOK' /\ HoldsExact'
    BY <1>3 DEF Types, TypeOK, HoldsExact, Views
  <1>5. OnCurrentView'
    BY <1>2, <1>3 DEF OnCurrentView
  <1>6. Opening'
    BY <1>3, StoppedGroups DEF Opening, Types
  <1>7. Types'
    BY <1>2, <1>3, <1>4 DEF Types
  <1> QED
    BY <1>4, <1>5, <1>6, <1>7

LEMMA ViewStep == ViewInv /\ [Next]_vars => ViewInv'
  <1> SUFFICES ASSUME ViewInv, [Next]_vars
               PROVE  ViewInv'
    OBVIOUS
  <1>1. CASE Opened \/ Begin
    <2>1. CASE Opened
      <3>1. ViewNew(FALSE) /\ ~reading
        BY <2>1 DEF Opened, ViewInv, Opening
      <3> QED
        BY <2>1, <3>1, NewViewStep DEF Opened, Goes
    <2>2. CASE Begin
      <3>1. ViewNew(TRUE) /\ ~reading
        BY <2>2 DEF Begin, ViewInv, Opening
      <3> QED
        BY <2>2, <3>1, NewViewStep DEF Begin, Goes, device
    <2> QED
      BY <1>1, <2>1, <2>2
  <1>2. CASE UNCHANGED vars
    <2>1. UNCHANGED <<gen, cur, refs, held, wm, info, batch, groups, queue, running, nextId,
                      reading, pc>>
      BY <1>2 DEF vars, locked, views, device
    <2>2. TypeOK' /\ HoldsExact' /\ OnCurrentView' /\ Opening'
      BY <2>1 DEF ViewInv, Types, TypeOK, HoldsExact, OnCurrentView, Opening, Views
    <2> QED
      BY <2>1, <2>2 DEF ViewInv, Types
  <1> QED
    BY <1>1, <1>2, RunStep, BegunStep, RoundStep, HoldStep, QueueStep, OtherStep, StopStep
       DEF Next, Thread

-----------------------------------------------------------------------------
(* The types of what the session keeps under its lock and of its groups,   *)
(* for any commands of the UI.                                             *)
THEOREM TypeCorrect == Spec => [](TypeOK /\ groups \in Seq(Group))
  <1>1. ViewInv => TypeOK /\ groups \in Seq(Group)
    BY DEF ViewInv, Types
  <1> QED
    BY <1>1, ViewInit, ViewStep, PTL DEF Spec

(* A view's count is its holds: the UI's, and the session's on the current *)
(* one (view_put() frees a view at zero), whatever fails in a view's       *)
(* making and whenever the UI acquires and releases.                       *)
THEOREM ViewsAreHeld == Spec => []HoldsExact
  <1>1. ViewInv => HoldsExact
    BY DEF ViewInv
  <1> QED
    BY <1>1, ViewInit, ViewStep, PTL DEF Spec

(* What the thread reads into, and what each group's codec session and the *)
(* batch read, is the current view's, never one that may be freed.         *)
THEOREM WorksOnCurrentView == Spec => []OnCurrentView
  <1>1. ViewInv => OnCurrentView
    BY DEF ViewInv
  <1> QED
    BY <1>1, ViewInit, ViewStep, PTL DEF Spec
=============================================================================
