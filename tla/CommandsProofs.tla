----------------------------- MODULE CommandsProofs ----------------------------
(* Proofs about Commands, for whatever handlers, beginnings and troubles: what     *)
(* disciplined handlers (Disciplined) do is accounted for, spares administrators,  *)
(* is not refused for a right the bot never had, is told truly and leaves no cache *)
(* behind.                                                                         *)
EXTENDS Commands, TLAPS

\* The types, of the task too.
Tasks == [handler : DOMAIN Program \cup {"none"}, verified : BOOLEAN, by : Person,
          todo : Seq(Steps), rights : SUBSET Rights]
TasksTyped ==
    /\ task \in Tasks
    /\ \A o \in offered : o.verified => o.handler \in DOMAIN Anonymous
    /\ ~Idle => <<task.handler, task.verified>> \in Courses

\* What is known of everybody's rank: it makes sense, it is remembered, and who has
\* been an administrator all the time is one, in the cache as well.
RanksAgree ==
    \A p \in Person :
        /\ Sensible(rank[p]) /\ Sensible(list[p])
        /\ rank[p] \subseteq held[p] /\ list[p] \subseteq held[p] /\ Sound(held[p])
        /\ "admin" \in kept[p] => "admin" \in rank[p] /\ (list = NoList \/ "admin" \in list[p])

\* The steps to go are the end of the handler's; what has been done is done for its
\* giver by one of its steps.
Running == CourseOf(<<task.handler, task.verified>>)
Position == Len(Running) - Len(task.todo)
Suffix == /\ Len(task.todo) <= Len(Running)
          /\ \A i \in 1..Len(task.todo) : task.todo[i] = Running[Position + i]
DoneByGiver ==
    /\ \A d \in done : /\ d.by = task.by
                       /\ \E i \in DOMAIN Running : Running[i].do = "act" /\ d.effect \in Running[i].effects
    /\ \A s \in saved : s.by = task.by

\* What a step that has been passed says, and goes on saying.
Trusted(right) == \/ right \in held[task.by]
                  \/ task.by = "anonymous" /\ AnonymousAllowed
Among(these) == task.by = "anonymous" \/ these \cap (held[task.by] \cup chat) # {}
Finished(s) == Due(s) => /\ s.do = "act" => \E d \in done : d.effect \in s.effects
                         /\ s.do = "store" => \A t \in s.tables : \E x \in saved : x.table = t
Holds(g) ==
    /\ \A right \in Rights \cup {"creator"} : Vouches(g, "user", right) => Trusted(right)
    /\ \A right \in Rights : Vouches(g, "bot", right) => right \in held["bot"]
    /\ Spares(g) => "admin" \notin kept["target"] \/ faults > 0
    /\ \A these : Opens(g, these) => Among(these)
    /\ Finished(g)
Passed == ~Idle => Suffix /\ \A j \in 1..Position : Holds(Running[j])

\* The rights to be handed on are the bot's, and the giver's own.
RightsWeighed == /\ task.rights \subseteq held["bot"]
                 /\ Entitled(task.by, task.rights) \/ OfSudoTeam

\* The inductive invariant.
CommandsInvariant == CmdTypeOK /\ TasksTyped /\ RanksAgree /\ DoneByGiver /\ Passed /\ RightsWeighed

\* What is outdated is about to be dropped.
KeysPending == faults = 0 => \A k \in stale : Ahead(task.todo, 0, Droppers(task.todo, k))
ListPending ==
    faults + changes = 0 /\ (\E d \in done : d.effect \in Appointments) =>
        \/ list = NoList
        \/ Listed("target") <=> "admin" \in rank["target"]
        \/ Ahead(task.todo, 0, Forgetters(task.todo))

--------------------------------------------------------------------------------
(* A handler moves on. *)

\* Nothing that was held, done or saved is lost, nothing that was not kept comes back.
Grow == /\ chat' = chat /\ faults \in Nat /\ faults' \in Nat /\ faults' >= faults
        /\ \A p \in Person : held[p] \subseteq held'[p] /\ kept'[p] \subseteq kept[p]
        /\ done \subseteq done' /\ saved \subseteq saved'
Same == /\ task'.handler = task.handler /\ task'.verified = task.verified
        /\ task'.by = task.by

\* What is said of a step stays true.
LEMMA HoldsOn ==
    ASSUME TasksTyped, Grow, Same, NEW g, Holds(g)
    PROVE  Holds(g)'
<1>1. task.by \in Person
    BY DEF TasksTyped, Tasks
<1>2. held[task.by] \subseteq held'[task.by] /\ task'.by = task.by
    BY <1>1 DEF Grow, Same
<1>3. ASSUME NEW right \in Rights \cup {"creator"}, Vouches(g, "user", right) PROVE Trusted(right)'
    BY <1>2, <1>3 DEF Holds, Trusted, Grow, AnonymousAllowed
<1>4. ASSUME NEW right \in Rights, Vouches(g, "bot", right) PROVE right \in held'["bot"]
    BY <1>4 DEF Holds, Grow, Person
<1>5. ASSUME Spares(g) PROVE "admin" \notin kept'["target"] \/ faults' > 0
    BY <1>5 DEF Holds, Grow, Person
<1>6. ASSUME NEW these, Opens(g, these) PROVE Among(these)'
    BY <1>2, <1>6 DEF Holds, Grow, Among
<1>7. Finished(g)'
    BY DEF Holds, Grow, Finished
<1> QED
    BY <1>3, <1>4, <1>5, <1>6, <1>7 DEF Holds

\* The step at hand is the one after those passed.
LEMMA NextStep ==
    ASSUME CommandsInvariant, ~Idle
    PROVE  /\ Running \in Seq(Steps) /\ task.todo \in Seq(Steps) /\ Len(task.todo) > 0
           /\ Position \in Nat /\ Position + 1 \in DOMAIN Running
           /\ Step = task.todo[1] /\ Step = Running[Position + 1] /\ Step \in Steps
<1>1. Running \in Seq(Steps)
    BY CommandsAssumption DEF CommandsInvariant, TasksTyped, Running
<1>2. task.todo \in Seq(Steps) /\ task.todo # <<>>
    BY DEF CommandsInvariant, TasksTyped, Tasks, Idle
<1>3. Len(task.todo) > 0 /\ Step = task.todo[1] /\ Step \in Steps
    BY <1>2 DEF Step
<1>4. Suffix
    BY DEF CommandsInvariant, Passed
<1>5. Len(Running) \in Nat /\ Len(task.todo) \in Nat /\ DOMAIN Running = 1..Len(Running)
    BY <1>1, <1>2
<1>6. Position \in Nat /\ Position + 1 \in DOMAIN Running
    BY <1>3, <1>4, <1>5 DEF Suffix, Position
<1>7. task.todo[1] = Running[Position + 1]
    BY <1>3, <1>4, <1>5 DEF Suffix
<1> QED
    BY <1>1, <1>2, <1>3, <1>6, <1>7

LEMMA MovesOn ==
    ASSUME CommandsInvariant, ~Idle, Grow, Same, task'.todo = Tail(task.todo),
           NEW s, s = Step, Holds(s)'
    PROVE  Passed'
<1>1. Running' = Running
    BY DEF Running, Same
<1>2. Suffix /\ \A j \in 1..Position : Holds(Running[j])
    BY DEF CommandsInvariant, Passed
<1>3. Len(task'.todo) = Len(task.todo) - 1 /\ \A i \in 1..Len(task'.todo) : task'.todo[i] = task.todo[i + 1]
    BY NextStep
<1>4. Len(Running) \in Nat /\ Len(task.todo) \in Nat /\ Position \in Nat
    BY NextStep
<1>5. Position' = Position + 1
  <2>1. Position' = Len(Running') - Len(task'.todo)
      BY DEF Position
  <2>2. Position = Len(Running) - Len(task.todo)
      BY DEF Position
  <2> QED BY <1>1, <1>3, <1>4, <2>1, <2>2
<1>6. Suffix'
  <2>1. Len(task'.todo) <= Len(Running')
      BY <1>1, <1>2, <1>3, <1>4 DEF Suffix
  <2>2. ASSUME NEW i \in 1..Len(task'.todo) PROVE task'.todo[i] = Running'[Position' + i]
    <3>1. i + 1 \in 1..Len(task.todo) /\ Position' + i = Position + (i + 1)
        BY <1>3, <1>4, <1>5
    <3>2. task.todo[i + 1] = Running[Position + (i + 1)]
        BY <1>2, <3>1 DEF Suffix
    <3> QED BY <1>1, <1>3, <3>1, <3>2
  <2> QED BY <2>1, <2>2 DEF Suffix
<1>7. ASSUME NEW j \in 1..Position' PROVE Holds(Running[j])'
  <2>1. CASE j = Position + 1
    <3>1. Running'[j] = s
        BY <2>1, <1>1, NextStep
    <3> QED BY <3>1
  <2>2. CASE j \in 1..Position
    <3>1. PICK g : g = Running[j]
        OBVIOUS
    <3>2. Holds(g)'
        BY <2>2, <1>2, <3>1, HoldsOn DEF CommandsInvariant
    <3> QED BY <1>1, <3>1, <3>2
  <2> QED BY <1>4, <1>5, <2>1, <2>2
<1> QED
    BY <1>6, <1>7 DEF Passed

LEMMA Rests ==
    ASSUME CommandsInvariant, Grow, task' = task
    PROVE  Passed' /\ Same
<1>1. ASSUME ~Idle PROVE Passed'
  <2>1. Running' = Running /\ Position' = Position /\ Suffix'
      BY <1>1 DEF CommandsInvariant, Passed, Suffix, Running, Position
  <2>2. ASSUME NEW j \in 1..Position PROVE Holds(Running[j])'
    <3>1. PICK g : g = Running[j]
        OBVIOUS
    <3>2. Holds(g)'
        BY <1>1, <3>1, HoldsOn DEF CommandsInvariant, Passed, Same
    <3> QED BY <2>1, <3>1, <3>2
  <2> QED BY <2>1, <2>2 DEF Passed
<1>2. ASSUME Idle PROVE Passed'
    BY <1>2 DEF Passed, Idle
<1> QED BY <1>1, <1>2 DEF Same

\* However a step changes the task, it stays a task.
LEMMA Turns ==
    ASSUME CommandsInvariant, ~Idle, End \/ Continue
    PROVE  /\ Same /\ task' \in Tasks /\ task'.rights = task.rights
           /\ <<task'.handler, task'.verified>> \in Courses
           /\ End => task'.todo = <<>>
           /\ Continue => task'.todo = Tail(task.todo)
<1>1. task \in Tasks /\ Tail(task.todo) \in Seq(Steps) /\ <<>> \in Seq(Steps)
    BY NextStep DEF CommandsInvariant, TasksTyped
<1>2. <<task.handler, task.verified>> \in Courses
    BY DEF CommandsInvariant, TasksTyped
<1> QED
    BY <1>1, <1>2 DEF End, Continue, Same, Tasks

\* A step that is no check moves on, or ends the handler.
LEMMA Proceeds ==
    ASSUME CommandsInvariant, ~Idle, Grow, Step.do # "gate",
           End \/ (Continue /\ \A s : s = Step => Finished(s)')
    PROVE  Passed'
<1>1. CASE End
    BY <1>1, Turns DEF Passed, Idle
<1>2. CASE Continue /\ \A s : s = Step => Finished(s)'
  <2>1. PICK s : s = Step
      OBVIOUS
  <2>2. Holds(s)'
      BY <2>1, <1>2 DEF Holds, Vouches, Spares, Opens
  <2> QED BY <1>2, <2>1, <2>2, MovesOn, Turns
<1> QED BY <1>1, <1>2

--------------------------------------------------------------------------------
(* Ranks and the cached administrators. *)

\* The parts of the types that change together.
RanksTyped == /\ rank \in [Person -> SUBSET Power] /\ list \in [Person -> SUBSET Power]
              /\ held \in [Person -> SUBSET Power] /\ kept \in [Person -> SUBSET Power]
TroublesTyped == changes \in Nat /\ faults \in Nat /\ changes + faults <= MaxTroubles
RestTyped ==
    /\ task.handler \in DOMAIN Program \cup {"none"} /\ task.by \in Person
    /\ task.rights \subseteq Rights \ {"promote"}
    /\ offered \subseteq [handler : DOMAIN Program, verified : BOOLEAN, by : {"user", "anonymous"}]
    /\ refused \subseteq Power /\ told \in BOOLEAN

LEMMA TypeParts == CmdTypeOK <=> RanksTyped /\ TroublesTyped /\ RestTyped
BY DEF CmdTypeOK, RanksTyped, TroublesTyped, RestTyped

\* What ranks become, is remembered.
LEMMA Becomes ==
    ASSUME RanksTyped, RanksAgree, NEW new \in [Person -> SUBSET Power],
           \A p \in Person : Sensible(new[p]), Become(new), list' = list
    PROVE  /\ RanksTyped' /\ RanksAgree'
           /\ \A p \in Person : held[p] \subseteq held'[p] /\ kept'[p] \subseteq kept[p]
<1>1. /\ rank' = new
      /\ held' = [p \in Person |-> held[p] \cup new[p]]
      /\ kept' = [p \in Person |-> kept[p] \cap new[p]]
    BY DEF Become
<1>2. RanksTyped'
    BY <1>1 DEF RanksTyped
<1>3. ASSUME NEW p \in Person
      PROVE  /\ Sensible(rank'[p]) /\ Sensible(list'[p])
             /\ rank'[p] \subseteq held'[p] /\ list'[p] \subseteq held'[p] /\ Sound(held'[p])
             /\ "admin" \in kept'[p] => "admin" \in rank'[p] /\ (list' = NoList \/ "admin" \in list'[p])
    BY <1>1, <1>3 DEF RanksAgree, Sensible, Sound
<1> QED
    BY <1>1, <1>2, <1>3 DEF RanksAgree

\* The list becomes what Telegram says, or empty.
LEMMA Listing ==
    ASSUME RanksTyped, RanksAgree, list' \in {list, rank, NoList}, rank' = rank, held' = held, kept' = kept
    PROVE  RanksTyped' /\ RanksAgree'
<1>1. NoList \in [Person -> SUBSET Power] /\ \A p \in Person : NoList[p] = {}
    BY DEF NoList
<1>2. RanksTyped'
    BY <1>1 DEF RanksTyped
<1>3. ASSUME NEW p \in Person
      PROVE  /\ Sensible(list'[p]) /\ list'[p] \subseteq held'[p]
             /\ "admin" \in kept'[p] => list' = NoList \/ "admin" \in list'[p]
    BY <1>1, <1>3 DEF RanksAgree, Sensible, Sound
<1> QED
    BY <1>2, <1>3 DEF RanksAgree, NoList

--------------------------------------------------------------------------------
(* The steps of a handler keep the invariant. *)

\* Calls aside, a step changes no rank, does nothing, and grants no right.
Quiet == /\ UNCHANGED <<chat, rank, held, kept, done, changes>>
         /\ saved \subseteq saved' /\ \A s \in saved' : s \in saved \/ s.by = task.by
         /\ list' \in {list, rank, NoList}
         /\ Fault \/ NoFault
         /\ refused' \subseteq Power /\ told' \in BOOLEAN

LEMMA Quietly ==
    ASSUME CommandsInvariant, Quiet, Same, task'.rights = task.rights,
           offered' = offered \/ offered' \subseteq offered \cup
               [handler : DOMAIN Program, verified : BOOLEAN, by : {"user"}]
    PROVE  /\ Grow /\ CmdTypeOK' /\ RanksAgree' /\ RightsWeighed' /\ DoneByGiver'
<1> USE DEF CommandsInvariant
<1>1. RanksTyped' /\ RanksAgree'
    BY TypeParts, Listing DEF Quiet
<1>2. TroublesTyped' /\ faults \in Nat /\ faults' \in Nat /\ faults' >= faults
    BY TypeParts, CommandsAssumption DEF TroublesTyped, Quiet, Fault, NoFault, Trouble
<1>3. RestTyped'
    BY TypeParts DEF RestTyped, Quiet, Same
<1>4. Grow
    BY <1>2 DEF Grow, Quiet
<1>5. RightsWeighed'
    BY DEF RightsWeighed, Quiet, Same, Entitled, OfSudoTeam, AnonymousAllowed
<1>6. DoneByGiver'
    BY DEF DoneByGiver, Quiet, Same, Running
<1> QED
    BY <1>1, <1>2, <1>3, <1>4, <1>5, <1>6 DEF CmdTypeOK, RanksTyped, TroublesTyped, RestTyped

\* What a check that has said yes, says.
LEMMA Found ==
    ASSUME CommandsInvariant, NEW fails \in BOOLEAN, NEW g, g.is \in BOOLEAN, Finds(g, fails) = g.is, g.do = "gate",
           fails => faults' > 0, Same, UNCHANGED <<chat, held, kept>>
    PROVE  Holds(g)'
<1> DEFINE p == Subject(g.who)
           listed == p = "anonymous" \/ (OnList(p) /\ (list # NoList \/ ~fails))
           permitted == IF p = "anonymous" THEN AnonymousAllowed
                        ELSE g.has \in Cached(p) /\ (Listed(p) \/ ~fails)
<1>1. task.by \in Person /\ task'.by = task.by /\ "bot" \in Person /\ "target" \in Person
    BY DEF CommandsInvariant, TasksTyped, Tasks, Person, Same
<1>2. \A q \in Person : Cached(q) \subseteq held[q] /\ rank[q] \subseteq held[q] /\ Sound(held[q])
    BY DEF Cached, CommandsInvariant, RanksAgree
<1>3. \A q \in Person : OnList(q) => "admin" \in held[q]
    BY DEF OnList, CommandsInvariant, RanksAgree
<1>4. g.who = "user" => p = task.by
    BY DEF Subject
<1>5. g.who # "user" => p = g.who
    BY DEF Subject
<1>6. /\ g.from = "cached" => (permitted <=> g.is)
      /\ g.from = "live" => ((g.has \in rank[p] /\ ~fails) <=> g.is)
      /\ g.from = "list" => (listed <=> g.is)
      /\ g.from = "update" => ((g.has \in rank[p]) <=> g.is)
    BY DEF Finds
<1>7. g.from = "here" /\ g.who = "user" =>
          (g.is <=> ("group" \in chat /\ IF g.has = "admin" THEN listed ELSE permitted))
    BY DEF Finds
<1>8. /\ g.from = "connection" =>
            (g.is <=> \/ "group" \in chat
                      \/ "connected" \in chat /\ ((g.has = "admin" /\ listed)
                                                  \/ ("in" \in rank[p] /\ ~fails)))
      /\ g.from = "chat" /\ g.has # "enabled" => (g.is <=> g.has \in chat)
    BY DEF Finds
<1>9. /\ g.from = "team" /\ g.is => chat \cap Above(g.has) # {}
      /\ g.from = "federation" /\ g.is => chat \cap FedAbove(g.has) # {}
    BY DEF Finds
<1> HIDE DEF p, listed, permitted
<1>a. listed => p = "anonymous" \/ OnList(p)
    BY DEF listed
<1>b. permitted => (p = "anonymous" /\ AnonymousAllowed) \/ g.has \in Cached(p)
    BY DEF permitted
<1>10. ASSUME NEW right \in Rights \cup {"creator"}, Vouches(g, "user", right) PROVE Trusted(right)'
    BY <1>1, <1>2, <1>4, <1>6, <1>7, <1>b, <1>10 DEF Vouches, Trusted, AnonymousAllowed, Rights
<1>11. ASSUME NEW right \in Rights, Vouches(g, "bot", right) PROVE right \in held'["bot"]
    BY <1>1, <1>2, <1>5, <1>6, <1>7, <1>b, <1>11 DEF Vouches
<1>12. ASSUME Spares(g) PROVE "admin" \notin kept'["target"] \/ faults' > 0
  <2>1. g.who = "target" /\ p = "target" /\ kept' = kept
      BY <1>5, <1>12 DEF Spares
  <2>2. CASE g.from = "list" /\ ~g.is
    <3>1. ~listed
        BY <2>2, <1>6
    <3>2. ~OnList("target") \/ fails
        BY <2>1, <3>1 DEF listed
    <3>3. ~OnList("target") => "admin" \notin kept["target"]
        BY <1>1 DEF OnList, CommandsInvariant, RanksAgree
    <3> QED BY <2>1, <3>2, <3>3
  <2>3. CASE g.from = "update" /\ g.has = "plain" /\ g.is
      BY <2>1, <2>3, <1>1, <1>6 DEF CommandsInvariant, RanksAgree, Sensible
  <2> QED BY <1>12, <2>2, <2>3 DEF Spares
<1>13. ASSUME NEW these, Opens(g, these) PROVE Among(these)'
  <2>0. g.is /\ g.who = "user" /\ p = task.by /\ chat' = chat /\ held' = held
      BY <1>4, <1>13 DEF Opens
  <2>00. SUFFICES Among(these)
      BY <2>0, <1>1 DEF Among
  <2>1. CASE /\ g.from \in {"list", "here", "cached", "live"} /\ "admin" \in these
             /\ g.has \in Rights \cup {"creator", "admin"}
      BY <2>0, <2>1, <1>1, <1>2, <1>3, <1>6, <1>7, <1>a, <1>b DEF Sound, Among
  <2>2. CASE g.from \in {"here", "connection"} /\ {"group", "in"} \subseteq these
      BY <2>0, <2>2, <1>1, <1>2, <1>3, <1>7, <1>8, <1>a, <1>b DEF Sound, Among
  <2>3. CASE g.from \in {"live", "chat"} /\ g.has \in these \ {"enabled"}
      BY <2>0, <2>3, <1>1, <1>2, <1>6, <1>8 DEF Among
  <2>4. CASE g.from = "team" /\ Above(g.has) \subseteq these
      BY <2>0, <2>4, <1>9 DEF Among
  <2>5. CASE g.from = "federation" /\ FedAbove(g.has) \subseteq these
      BY <2>0, <2>5, <1>9 DEF Among
  <2> QED BY <1>13, <2>1, <2>2, <2>3, <2>4, <2>5 DEF Opens
<1>14. Finished(g)'
    BY DEF Finished, Due
<1> QED
    BY <1>10, <1>11, <1>12, <1>13, <1>14 DEF Holds

\* What a quiet step leaves to show: that what was passed holds.
LEMMA Quiets ==
    ASSUME CommandsInvariant, ~Idle, Quiet, End \/ Continue,
           offered' \subseteq offered \cup [handler : DOMAIN Program, verified : BOOLEAN, by : {"user"}],
           \A o \in offered' \ offered : o.verified => o.handler \in DOMAIN Anonymous,
           Passed'
    PROVE  CommandsInvariant'
<1>1. /\ Same /\ task' \in Tasks /\ task'.rights = task.rights
      /\ <<task'.handler, task'.verified>> \in Courses
    BY Turns
<1>2. CmdTypeOK' /\ RanksAgree' /\ RightsWeighed' /\ DoneByGiver'
    BY <1>1, Quietly
<1>3. TasksTyped'
    BY <1>1 DEF CommandsInvariant, TasksTyped
<1> QED
    BY <1>2, <1>3 DEF CommandsInvariant

\* A quiet step that is no check and finishes what it does.
LEMMA QuietSteps ==
    ASSUME CommandsInvariant, ~Idle, Quiet, Step.do # "gate", offered' = offered,
           End \/ (Continue /\ \A s : s = Step => Finished(s)')
    PROVE  CommandsInvariant'
<1>1. Same /\ task'.rights = task.rights
    BY Turns
<1>2. Grow
    BY <1>1, Quietly
<1>3. Passed'
    BY <1>2, Proceeds
<1> QED
    BY <1>3, Quiets

LEMMA CheckKeeps ==
    ASSUME CommandsInvariant, Check
    PROVE  CommandsInvariant'
<1>1. PICK fails \in BOOLEAN :
        /\ IF fails THEN Fault ELSE NoFault
        /\ IF Finds(Step, fails) = Step.is
           THEN Continue /\ UNCHANGED offered
           ELSE End /\ offered' = offered \cup Keyboard
        /\ list' \in {list} \cup (IF Step.from \in {"list", "here"} /\ list = NoList /\ ~fails
                                  THEN {rank} ELSE {})
    BY DEF Check
<1>2. /\ ~Idle /\ Step.do = "gate"
      /\ UNCHANGED <<chat, rank, held, kept, done, saved, told, refused, changes>>
    BY DEF Check, At
<1>3. Quiet
    BY <1>1, <1>2 DEF Quiet, CommandsInvariant, CmdTypeOK
<1>4. Keyboard \subseteq [handler : DOMAIN Program, verified : BOOLEAN, by : {"user"}]
      /\ \A o \in Keyboard : o.handler \in DOMAIN Anonymous
  <2>1. task.handler \in DOMAIN Program
      BY <1>2 DEF CommandsInvariant, TasksTyped, Courses
  <2>2. PICK b : b = [handler |-> task.handler, verified |-> TRUE, by |-> "user"]
      OBVIOUS
  <2>3. b \in [handler : DOMAIN Program, verified : BOOLEAN, by : {"user"}]
        /\ b.handler = task.handler
      BY <2>1, <2>2
  <2>4. Keyboard = {} \/ (Keyboard = {b} /\ task.handler \in DOMAIN Anonymous)
      BY <2>2 DEF Keyboard
  <2> QED BY <2>3, <2>4, Zenon
<1>5. /\ End \/ Continue
      /\ offered' \subseteq offered \cup [handler : DOMAIN Program, verified : BOOLEAN, by : {"user"}]
      /\ \A o \in offered' \ offered : o.verified => o.handler \in DOMAIN Anonymous
    BY <1>1, <1>4
<1>6. Same /\ Grow
    BY <1>2, <1>3, <1>5, Turns, Quietly
<1>7. CASE End
    BY <1>2, <1>3, <1>5, <1>7, Turns, Quiets DEF Passed, Idle
<1>8. CASE Finds(Step, fails) = Step.is /\ Continue
  <2>1. PICK g : g = Step
      OBVIOUS
  <2>2. fails => faults' > 0
      BY <1>1 DEF Fault, CommandsInvariant, CmdTypeOK
  <2>3. g.is \in BOOLEAN
      BY <1>2, <2>1, NextStep, CommandsAssumption
  <2>4. Holds(g)'
      BY <1>2, <1>6, <1>8, <2>1, <2>2, <2>3, Found
  <2>5. Passed'
      BY <1>2, <1>6, <1>8, <2>1, <2>4, MovesOn, Turns
  <2> QED BY <1>2, <1>3, <1>5, <2>5, Quiets
<1> QED
    BY <1>1, <1>7, <1>8

LEMMA LookKeeps ==
    ASSUME CommandsInvariant, Look
    PROVE  CommandsInvariant'
<1>1. ~Idle /\ Step.do \in {"ask", "parse"}
    BY DEF Look, At
<1>2. Quiet
    BY DEF Look, Quiet, NoFault, CommandsInvariant, CmdTypeOK
<1>3. \A s : s = Step => Finished(s)'
    BY <1>1 DEF Finished, Due
<1> QED
    BY <1>1, <1>2, <1>3, QuietSteps DEF Look

LEMMA LoadKeeps ==
    ASSUME CommandsInvariant, LoadAdministrators
    PROVE  CommandsInvariant'
<1>1. ~Idle /\ Step.do = "load"
    BY DEF LoadAdministrators, At
<1>2. Quiet /\ (End \/ Continue)
    BY DEF LoadAdministrators, Quiet, CommandsInvariant, CmdTypeOK
<1>3. \A s : s = Step => Finished(s)'
    BY <1>1 DEF Finished, Due
<1> QED
    BY <1>1, <1>2, <1>3, QuietSteps DEF LoadAdministrators

LEMMA ForgetKeeps ==
    ASSUME CommandsInvariant, ForgetAdministrators
    PROVE  CommandsInvariant'
<1>1. ~Idle /\ Step.do = "forget"
    BY DEF ForgetAdministrators, At
<1>2. Quiet /\ Continue
    BY DEF ForgetAdministrators, Quiet, CommandsInvariant, CmdTypeOK
<1>3. \A s : s = Step => Finished(s)'
    BY <1>1 DEF Finished, Due
<1> QED
    BY <1>1, <1>2, <1>3, QuietSteps DEF ForgetAdministrators

LEMMA WriteKeeps ==
    ASSUME CommandsInvariant, WriteTable
    PROVE  CommandsInvariant'
<1>1. ~Idle /\ Step.do = "store"
    BY DEF WriteTable, At
<1>2. Quiet
  <2>1. saved \subseteq saved' /\ \A s \in saved' : s \in saved \/ s.by = task.by
      BY DEF WriteTable, Stored
  <2> QED BY <2>1 DEF WriteTable, Quiet, CommandsInvariant, CmdTypeOK
<1>3. CASE Stored
  <2>1. ASSUME NEW s, s = Step PROVE Finished(s)'
    <3>1. ASSUME NEW t \in s.tables PROVE \E x \in saved' : x.table = t
      <4>1. PICK x : x = [table |-> t, by |-> task.by]
          OBVIOUS
      <4>2. x \in saved' /\ x.table = t
          BY <1>3, <2>1, <3>1, <4>1 DEF Stored
      <4> QED BY <4>2
    <3> QED BY <1>1, <2>1, <3>1 DEF Finished
  <2> QED BY <1>1, <1>2, <2>1, QuietSteps DEF WriteTable, GoOn
<1>4. CASE GoOn
  <2>1. CASE End
      BY <1>1, <1>2, <2>1, QuietSteps DEF WriteTable
  <2>2. CASE Continue /\ ~Step.must
    <3>1. \A s : s = Step => Finished(s)'
        BY <2>2 DEF Finished, Due
    <3> QED BY <1>1, <1>2, <2>2, <3>1, QuietSteps DEF WriteTable
  <2> QED BY <1>4, <2>1, <2>2 DEF GoOn
<1> QED
    BY <1>3, <1>4 DEF WriteTable

LEMMA DropKeeps ==
    ASSUME CommandsInvariant, DropKeys
    PROVE  CommandsInvariant'
<1>1. ~Idle /\ Step.do = "drop"
    BY DEF DropKeys, At
<1>2. Quiet /\ Continue
    BY DEF DropKeys, Quiet, CommandsInvariant, CmdTypeOK
<1>3. \A s : s = Step => Finished(s)'
    BY <1>1 DEF Finished, Due
<1> QED
    BY <1>1, <1>2, <1>3, QuietSteps DEF DropKeys

LEMMA TellKeeps ==
    ASSUME CommandsInvariant, Tell
    PROVE  CommandsInvariant'
<1>1. ~Idle /\ Step.do \in {"confirm", "note"}
    BY DEF Tell, At
<1>2. Quiet /\ Continue
    BY DEF Tell, Quiet, NoFault, CommandsInvariant, CmdTypeOK
<1>3. \A s : s = Step => Finished(s)'
    BY <1>1 DEF Finished, Due
<1> QED
    BY <1>1, <1>2, <1>3, QuietSteps DEF Tell

LEMMA OfferKeeps ==
    ASSUME CommandsInvariant, OfferButton
    PROVE  CommandsInvariant'
<1>1. ~Idle /\ Step.do = "offer" /\ Continue
    BY DEF OfferButton, At
<1>2. Quiet
    BY DEF OfferButton, Quiet, NoFault, CommandsInvariant, CmdTypeOK
<1>3. \A s : s = Step => Finished(s)'
    BY <1>1 DEF Finished, Due
<1>4. PICK o : o = [handler |-> Step.handler, verified |-> FALSE, by |-> "user"]
    OBVIOUS
<1>5. Step.handler \in DOMAIN Program
    BY <1>1, NextStep, CommandsAssumption
<1>6. o \in [handler : DOMAIN Program, verified : BOOLEAN, by : {"user"}] /\ ~o.verified
    BY <1>4, <1>5
<1>7. offered' = offered \cup {o}
    BY <1>4 DEF OfferButton
<1>8. /\ offered' \subseteq offered \cup [handler : DOMAIN Program, verified : BOOLEAN, by : {"user"}]
      /\ \A x \in offered' \ offered : x.verified => x.handler \in DOMAIN Anonymous
    BY <1>6, <1>7, Zenon
<1>9. Same /\ Grow
    BY <1>1, <1>2, <1>8, Turns, Quietly
<1>10. Passed'
    BY <1>1, <1>3, <1>9, Proceeds
<1> QED
    BY <1>1, <1>2, <1>8, <1>10, Quiets

--------------------------------------------------------------------------------
(* Rights that are weighed, and calls. *)

LEMMA WeighKeeps ==
    ASSUME CommandsInvariant, WeighRights
    PROVE  CommandsInvariant'
<1>1. /\ ~Idle /\ Step.do = "weigh"
      /\ task' = [task EXCEPT !.todo = Tail(@), !.rights = buildPromoteOpts]
      /\ UNCHANGED <<chat, rank, list, offered, held, kept, done, saved, told, refused,
                     stale, changes, faults>>
    BY DEF WeighRights, At
<1>2. task \in Tasks /\ Tail(task.todo) \in Seq(Steps) /\ task.by \in Person
    BY <1>1, NextStep DEF CommandsInvariant, TasksTyped, Tasks
<1>3. buildPromoteOpts \subseteq Rights \ {"promote"} /\ buildPromoteOpts \subseteq rank["bot"]
    BY DEF buildPromoteOpts, canGrantPerm
<1>4. /\ Same /\ task' \in Tasks /\ task'.rights = buildPromoteOpts
      /\ task'.todo = Tail(task.todo)
    BY <1>1, <1>2, <1>3 DEF Same, Tasks
<1>5. CmdTypeOK'
    BY <1>1, <1>3, <1>4 DEF CommandsInvariant, CmdTypeOK, Same
<1>6. TasksTyped'
    BY <1>1, <1>4 DEF CommandsInvariant, TasksTyped, Same
<1>7. RanksAgree' /\ DoneByGiver'
    BY <1>1, <1>4 DEF CommandsInvariant, RanksAgree, DoneByGiver, Same, Running, NoList
<1>8. Grow
    BY <1>1 DEF Grow, CommandsInvariant, CmdTypeOK
<1>9. PICK s : s = Step
    OBVIOUS
<1>10. Holds(s)'
    BY <1>1, <1>9 DEF Holds, Vouches, Spares, Opens, Finished, Due
<1>11. Passed'
    BY <1>1, <1>4, <1>8, <1>9, <1>10, MovesOn
<1>12. RightsWeighed'
  <2>1. rank["bot"] \subseteq held["bot"] /\ rank[task.by] \subseteq held[task.by]
      BY <1>2 DEF CommandsInvariant, RanksAgree, Person
  <2>2. "creator" \in rank[task.by] \/ OfSudoTeam \/ Bypass = {}
      BY DEF Bypass
  <2>3. \/ "creator" \in held[task.by] \/ OfSudoTeam
        \/ buildPromoteOpts \subseteq held[task.by]
      BY <2>1, <2>2 DEF buildPromoteOpts, canGrantPerm
  <2> QED BY <1>1, <1>3, <1>4, <2>1, <2>3
          DEF RightsWeighed, Entitled, OfSudoTeam, Same, AnonymousAllowed
<1> QED
    BY <1>5, <1>6, <1>7, <1>11, <1>12 DEF CommandsInvariant

LEMMA NeedsAreRights == \A e : Needs(e) \subseteq Rights
BY DEF Needs, Rights

\* What a call makes of a rank is a rank.
LEMMA AfterIsSensible ==
    ASSUME RanksTyped, RanksAgree, task.rights \subseteq Rights, NEW effect, NEW p \in Person
    PROVE  /\ After(effect, p) \in [Person -> SUBSET Power]
           /\ \A q \in Person : Sensible(After(effect, p)[q])
           /\ effect \notin Changing => After(effect, p) = rank
<1>1. \A q \in Person : Sensible(rank[q])
    BY DEF RanksAgree
<1>2. Sensible(Outside) /\ Outside \subseteq Power
    BY DEF Sensible, Sound, Outside
<1>3. Sensible(Member) /\ Member \subseteq Power
    BY DEF Sensible, Sound, Member, Power, Rights
<1>4. /\ Sensible(AdminWith(task.rights) \cup {"made"})
      /\ AdminWith(task.rights) \cup {"made"} \subseteq Power
    BY DEF Sensible, Sound, AdminWith, Power, Rights
<1>5. \/ After(effect, p) = rank
      \/ /\ effect \in Changing
         /\ \/ After(effect, p) = [rank EXCEPT ![p] = Outside]
            \/ After(effect, p) = [rank EXCEPT ![p] = Member]
            \/ After(effect, p) = [rank EXCEPT ![p] = AdminWith(task.rights) \cup {"made"}]
    BY DEF After, Changing, Appointments
<1> QED
    BY <1>1, <1>2, <1>3, <1>4, <1>5 DEF RanksTyped

\* A call that did not happen.
LEMMA UnhappenedKeeps ==
    ASSUME CommandsInvariant, ~Idle, Step.do = "act", Unhappened, Fault \/ NoFault,
           refused' \subseteq refused \cup Rights,
           UNCHANGED <<chat, list, offered, saved, told, stale, changes>>,
           GoOn \/ (Continue /\ "nothing" \in Step.effects)
    PROVE  CommandsInvariant'
<1>1. Quiet
    BY DEF Quiet, Unhappened, CommandsInvariant, CmdTypeOK, Power
<1>2. End \/ (Continue /\ \A s : s = Step => Finished(s)')
    BY DEF GoOn, Finished, Due
<1> QED
    BY <1>1, <1>2, QuietSteps

\* A call that happened.
LEMMA HappenKeeps ==
    ASSUME CommandsInvariant, ~Idle, Step.do = "act", NEW effect \in Step.effects,
           Happen(effect, Subject(Step.whom)), Fault \/ NoFault, End \/ Continue,
           UNCHANGED <<chat, list, offered, saved, told, refused, stale, changes>>
    PROVE  CommandsInvariant' /\ Grow
<1> DEFINE p == Subject(Step.whom)
<1>1. /\ Same /\ task' \in Tasks /\ task'.rights = task.rights
      /\ <<task'.handler, task'.verified>> \in Courses
    BY Turns
<1>2. PICK d : d = [effect |-> effect, whom |-> p, by |-> task.by,
                    for |-> Step.for, rights |-> task.rights,
                    shielded |-> p \in Person /\ p # task.by
                                 /\ "admin" \in kept[p] /\ faults = 0]
    OBVIOUS
<1>3. done' = done \cup {d} /\ d.effect = effect /\ d.by = task.by
    BY <1>2 DEF Happen
<1>4. RanksTyped /\ RanksAgree /\ task.rights \subseteq Rights
    BY DEF CommandsInvariant, CmdTypeOK, RanksTyped
<1>5. /\ RanksTyped' /\ RanksAgree'
      /\ \A q \in Person : held[q] \subseteq held'[q] /\ kept'[q] \subseteq kept[q]
  <2>1. CASE p \in Person
      BY <2>1, <1>4, AfterIsSensible, Becomes DEF Happen
  <2>2. CASE p \notin Person
    <3>1. UNCHANGED <<rank, held, kept, list>>
        BY <2>2 DEF Happen
    <3> QED BY <3>1, <1>4, Listing
  <2> QED BY <2>1, <2>2
<1>6. TroublesTyped' /\ faults \in Nat /\ faults' \in Nat /\ faults' >= faults
    BY CommandsAssumption DEF CommandsInvariant, CmdTypeOK, TroublesTyped, Fault, NoFault, Trouble
<1>7. RestTyped'
    BY <1>1 DEF CommandsInvariant, CmdTypeOK, RestTyped, Same
<1>8. Grow
    BY <1>3, <1>5, <1>6 DEF Grow
<1>9. TasksTyped'
    BY <1>1 DEF CommandsInvariant, TasksTyped
<1>10. DoneByGiver'
  <2>1. Running[Position + 1].do = "act" /\ effect \in Running[Position + 1].effects
        /\ Position + 1 \in DOMAIN Running
      BY NextStep
  <2>2. Running' = Running
      BY <1>1 DEF Same, Running
  <2> QED BY <1>1, <1>3, <2>1, <2>2 DEF CommandsInvariant, DoneByGiver, Same
<1>11. \A s : s = Step => Finished(s)'
    BY <1>3 DEF Finished, Due
<1>12. Passed'
    BY <1>8, <1>11, Proceeds
<1>13. RightsWeighed'
  <2>1. held["bot"] \subseteq held'["bot"] /\ held[task.by] \subseteq held'[task.by]
      BY <1>5 DEF CommandsInvariant, TasksTyped, Tasks, Person
  <2> QED BY <1>1, <2>1 DEF CommandsInvariant, RightsWeighed, Same, Entitled, OfSudoTeam, AnonymousAllowed
<1> QED
    BY <1>5, <1>6, <1>7, <1>8, <1>9, <1>10, <1>12, <1>13
    DEF CommandsInvariant, CmdTypeOK, RanksTyped, TroublesTyped, RestTyped

LEMMA CallKeeps ==
    ASSUME CommandsInvariant, Call
    PROVE  CommandsInvariant'
<1>1. /\ ~Idle /\ Step.do = "act"
      /\ UNCHANGED <<chat, list, offered, saved, told, stale, changes>>
    BY DEF Call, At
<1>2. PICK effect \in Step.effects :
          \/ effect = "nothing" /\ Unhappened /\ Continue /\ NoFault /\ UNCHANGED refused
          \/ effect # "nothing"
             /\ \/ Obeyed(effect, Subject(Step.whom))
                \/ Disobeyed(effect, Subject(Step.whom))
                \/ CallLost
    BY DEF Call
<1>3. CASE effect = "nothing" /\ Unhappened /\ Continue /\ NoFault /\ UNCHANGED refused
    BY <1>1, <1>3, UnhappenedKeeps
<1>4. CASE Obeyed(effect, Subject(Step.whom))
    BY <1>1, <1>4, HappenKeeps DEF Obeyed, GoOn
<1>5. CASE Disobeyed(effect, Subject(Step.whom))
  <2>1. Misses(effect) \subseteq Rights
      BY NeedsAreRights DEF Misses, CommandsInvariant, CmdTypeOK
  <2> QED BY <1>1, <1>5, <2>1, UnhappenedKeeps DEF Disobeyed
<1>6. CASE CallLost
    BY <1>1, <1>6, UnhappenedKeeps DEF CallLost
<1> QED
    BY <1>2, <1>3, <1>4, <1>5, <1>6

--------------------------------------------------------------------------------
(* The beginnings, and the others. *)

LEMMA StartsAgree == CmdInit => CommandsInvariant
<1> SUFFICES ASSUME CmdInit PROVE CommandsInvariant
    OBVIOUS
<1>1. PICK s \in Start :
          /\ chat = s.chat /\ rank = s.rank
          /\ offered = {[handler |-> s.handler, verified |-> FALSE, by |-> s.by]}
    BY DEF CmdInit
<1>2. /\ s.handler \in DOMAIN Program /\ s.by \in {"user", "anonymous"}
      /\ rank \in [Person -> SUBSET Power] /\ \A p \in Person : Sensible(rank[p])
    BY <1>1, CommandsAssumption
<1>3. NoList \in [Person -> SUBSET Power] /\ \A p \in Person : NoList[p] = {}
    BY DEF NoList
<1>4. /\ list \in {NoList, rank} /\ task = Nothing /\ held = rank /\ kept = rank
      /\ done = {} /\ saved = {} /\ told = FALSE /\ refused = {}
      /\ changes = 0 /\ faults = 0
    BY DEF CmdInit
<1>5. /\ task.handler = "none" /\ task.by = "owner" /\ task.rights = {} /\ task.todo = <<>>
      /\ Nothing.verified = FALSE
    BY <1>4 DEF Nothing
<1>6. PICK o : o = [handler |-> s.handler, verified |-> FALSE, by |-> s.by]
    OBVIOUS
<1>7. o \in [handler : DOMAIN Program, verified : BOOLEAN, by : {"user", "anonymous"}] /\ ~o.verified
    BY <1>2, <1>6
<1>8. offered \subseteq [handler : DOMAIN Program, verified : BOOLEAN, by : {"user", "anonymous"}]
      /\ \A x \in offered : x.verified => x.handler \in DOMAIN Anonymous
    BY <1>1, <1>6, <1>7, Zenon
<1>9. CmdTypeOK
  <2>1. RanksTyped
      BY <1>2, <1>3, <1>4 DEF RanksTyped
  <2>2. TroublesTyped
      BY <1>4, CommandsAssumption DEF TroublesTyped
  <2>3. RestTyped
    <3>1. told \in BOOLEAN /\ refused \subseteq Power
        BY <1>4
    <3>2. task.handler \in DOMAIN Program \cup {"none"} /\ task.by \in Person
          /\ task.rights \subseteq Rights \ {"promote"}
        BY <1>5 DEF Person
    <3> QED BY <1>8, <3>1, <3>2 DEF RestTyped
  <2> QED BY <2>1, <2>2, <2>3, TypeParts
<1>10. TasksTyped
  <2>1. Nothing \in Tasks
      BY DEF Nothing, Tasks, Person
  <2> QED BY <2>1, <1>4, <1>5, <1>8 DEF TasksTyped, Idle
<1>11. RanksAgree
    BY <1>2, <1>3, <1>4 DEF RanksAgree, Sensible, Sound
<1>12. DoneByGiver /\ Passed /\ RightsWeighed
    BY <1>4, <1>5 DEF DoneByGiver, Passed, Idle, RightsWeighed, Entitled
<1> QED
    BY <1>9, <1>10, <1>11, <1>12 DEF CommandsInvariant

LEMMA BeginKeeps ==
    ASSUME CommandsInvariant, NEW o \in offered, Begin(o)
    PROVE  CommandsInvariant' /\ task'.todo = Running' /\ task'.handler \in DOMAIN Program
<1>1. /\ task' = [handler |-> o.handler, verified |-> o.verified, by |-> o.by,
                  todo |-> Course(o.handler, o.verified), rights |-> {}]
      /\ held' = [q \in Person |-> rank[q] \cup list[q]]
      /\ kept' = [q \in Person |-> rank[q] \cap Cached(q)
                                   \cap (IF OnList(q) THEN Power ELSE Power \ {"admin"})]
      /\ offered' = {} /\ done' = {} /\ saved' = {} /\ told' = FALSE /\ refused' = {}
      /\ UNCHANGED <<chat, rank, list, stale, changes, faults>>
    BY DEF Begin
<1>2. /\ o.handler \in DOMAIN Program /\ o.verified \in BOOLEAN /\ o.by \in Person
      /\ o.verified => o.handler \in DOMAIN Anonymous
    BY DEF CommandsInvariant, CmdTypeOK, TasksTyped, Person
<1>3. <<o.handler, o.verified>> \in Courses
    BY <1>2 DEF Courses
<1>4. Course(o.handler, o.verified) \in Seq(Steps)
    BY <1>3, CommandsAssumption DEF CourseOf
<1>5. /\ task'.handler = o.handler /\ task'.verified = o.verified /\ task'.by = o.by
      /\ task'.todo = Course(o.handler, o.verified) /\ task'.rights = {}
    BY <1>1
<1>6. task' \in Tasks
    BY <1>1, <1>2, <1>4 DEF Tasks
<1>7. Running' = task'.todo
    BY <1>5 DEF Running, CourseOf
<1>8. RanksTyped'
    BY <1>1 DEF RanksTyped, CommandsInvariant, CmdTypeOK
<1>9. CmdTypeOK'
    BY <1>1, <1>2, <1>5, <1>8 DEF CommandsInvariant, CmdTypeOK, RanksTyped
<1>10. TasksTyped'
    BY <1>1, <1>3, <1>5, <1>6 DEF TasksTyped
<1>11. RanksAgree'
  <2>1. ASSUME NEW p \in Person
        PROVE  /\ rank'[p] \subseteq held'[p] /\ list'[p] \subseteq held'[p] /\ Sound(held'[p])
               /\ "admin" \in kept'[p] => "admin" \in rank'[p] /\ (list' = NoList \/ "admin" \in list'[p])
      BY <1>1, <2>1 DEF CommandsInvariant, RanksAgree, Sensible, Sound, OnList
  <2> QED BY <1>1, <2>1 DEF CommandsInvariant, RanksAgree, NoList
<1>12. DoneByGiver'
    BY <1>1 DEF DoneByGiver
<1>13. Passed'
  <2>1. Len(Running') \in Nat /\ Len(task'.todo) = Len(Running')
      BY <1>4, <1>5, <1>7
  <2>2. Position' = Len(Running') - Len(task'.todo)
      BY DEF Position
  <2>3. Position' = 0
      BY <2>1, <2>2
  <2>4. Suffix'
      BY <1>7, <2>1, <2>3 DEF Suffix
  <2> QED BY <2>3, <2>4 DEF Passed
<1>14. RightsWeighed'
    BY <1>5 DEF RightsWeighed, Entitled
<1> QED
    BY <1>2, <1>5, <1>7, <1>9, <1>10, <1>11, <1>12, <1>13, <1>14 DEF CommandsInvariant

LEMMA ChangeKeeps ==
    ASSUME CommandsInvariant, NEW p \in Person, NEW powers \in {Member, Outside, AdminWith(Rights)},
           ChangeRank(p, powers)
    PROVE  CommandsInvariant' /\ Grow
<1>1. /\ Trouble /\ changes' = changes + 1 /\ Become([rank EXCEPT ![p] = powers])
      /\ UNCHANGED <<chat, list, task, offered, done, saved, told, refused, stale, faults>>
    BY DEF ChangeRank
<1>2. Sensible(powers) /\ powers \subseteq Power
    BY DEF Sensible, Sound, Member, Outside, AdminWith, Power, Rights
<1>3. RanksTyped /\ RanksAgree
    BY DEF CommandsInvariant, CmdTypeOK, RanksTyped
<1>4. PICK new : new = [rank EXCEPT ![p] = powers]
    OBVIOUS
<1>5. new \in [Person -> SUBSET Power] /\ \A q \in Person : Sensible(new[q])
    BY <1>2, <1>3, <1>4 DEF RanksTyped, RanksAgree
<1>6. /\ RanksTyped' /\ RanksAgree'
      /\ \A q \in Person : held[q] \subseteq held'[q] /\ kept'[q] \subseteq kept[q]
    BY <1>1, <1>3, <1>4, <1>5, Becomes
<1>7. TroublesTyped' /\ faults \in Nat
    BY <1>1, CommandsAssumption DEF CommandsInvariant, CmdTypeOK, TroublesTyped, Trouble
<1>8. RestTyped' /\ TasksTyped'
    BY <1>1 DEF CommandsInvariant, CmdTypeOK, RestTyped, TasksTyped, Idle
<1>9. DoneByGiver'
    BY <1>1 DEF CommandsInvariant, DoneByGiver, Running
<1>10. Grow
    BY <1>1, <1>6, <1>7 DEF Grow
<1>11. Passed'
    BY <1>1, <1>10, Rests
<1>12. RightsWeighed'
  <2>1. held["bot"] \subseteq held'["bot"] /\ held[task.by] \subseteq held'[task.by]
      BY <1>6 DEF CommandsInvariant, TasksTyped, Tasks, Person
  <2> QED BY <1>1, <2>1 DEF CommandsInvariant, RightsWeighed, Entitled, OfSudoTeam, AnonymousAllowed
<1> QED
    BY <1>6, <1>7, <1>8, <1>9, <1>10, <1>11, <1>12
    DEF CommandsInvariant, CmdTypeOK, RanksTyped, TroublesTyped, RestTyped

LEMMA UpdateKeeps ==
    ASSUME CommandsInvariant, HandleUpdate
    PROVE  CommandsInvariant' /\ Grow
<1>1. list' = rank /\ UNCHANGED <<chat, rank, task, offered, held, kept, done, saved, told, refused,
                                  stale, changes, faults>>
    BY DEF HandleUpdate
<1>2. RanksTyped' /\ RanksAgree'
    BY <1>1, Listing DEF CommandsInvariant, CmdTypeOK, RanksTyped
<1>3. Grow
    BY <1>1 DEF Grow, CommandsInvariant, CmdTypeOK
<1>4. Passed'
    BY <1>1, <1>3, Rests
<1> QED
    BY <1>1, <1>2, <1>3, <1>4
    DEF CommandsInvariant, CmdTypeOK, RanksTyped, TasksTyped, Idle, DoneByGiver, Running,
        RightsWeighed, Entitled, OfSudoTeam, AnonymousAllowed

LEMMA NothingKeeps ==
    ASSUME CommandsInvariant, UNCHANGED cmdVars
    PROVE  CommandsInvariant' /\ Grow
<1>1. Grow /\ task' = task
    BY DEF cmdVars, Grow, CommandsInvariant, CmdTypeOK
<1>2. Passed'
    BY <1>1, Rests
<1> QED
    BY <1>1, <1>2
    DEF cmdVars, CommandsInvariant, CmdTypeOK, TasksTyped, Idle, RanksAgree, NoList, DoneByGiver,
        Running, RightsWeighed, Entitled, OfSudoTeam, AnonymousAllowed

LEMMA StepsKeep ==
    ASSUME CommandsInvariant, [CmdNext]_cmdVars
    PROVE  CommandsInvariant'
<1>1. CASE Run
    BY <1>1, CheckKeeps, CallKeeps, LookKeeps, WeighKeeps, LoadKeeps, ForgetKeeps, WriteKeeps,
       DropKeeps, TellKeeps, OfferKeeps DEF Run
<1>2. ASSUME NEW o \in offered, Begin(o) PROVE CommandsInvariant'
    BY <1>2, BeginKeeps
<1>3. ASSUME NEW p \in {"user", "bot"}, ChangeRank(p, Member) PROVE CommandsInvariant'
    BY <1>3, ChangeKeeps DEF Person
<1>4. ASSUME NEW powers \in {Outside, AdminWith(Rights)}, ChangeRank("target", powers)
      PROVE  CommandsInvariant'
    BY <1>4, ChangeKeeps DEF Person
<1>5. CASE HandleUpdate
    BY <1>5, UpdateKeeps
<1>6. CASE UNCHANGED cmdVars
    BY <1>6, NothingKeeps
<1> QED
    BY <1>1, <1>2, <1>3, <1>4, <1>5, <1>6 DEF CmdNext

\* What is said of the task at hand is true of it in every state: the checks that have
\* been passed hold, what was to be done by then has been done.
THEOREM CommandsCorrect == CmdSpec => []CommandsInvariant
BY StartsAgree, StepsKeep, PTL DEF CmdSpec

\* Everything has its type: no step asks for, hands on or remembers a power there is
\* not, and the troubles stay within their bound.
THEOREM CommandsTyped == CmdSpec => []CmdTypeOK
<1>1. CommandsInvariant => CmdTypeOK
    BY DEF CommandsInvariant
<1> QED BY <1>1, CommandsCorrect, PTL

--------------------------------------------------------------------------------
(* What disciplined handlers have asked. *)

\* What the course asks before the step at hand has been asked, and holds.
LEMMA AskedBefore ==
    ASSUME CommandsInvariant, ~Idle
    PROVE  /\ \A j \in 1..((Position + 1) - 1) : Holds(Running[j])
           /\ <<task.handler, task.verified>> \in Courses
           /\ Running = CourseOf(<<task.handler, task.verified>>)
           /\ <<task.handler, task.verified>>[1] = task.handler
<1>1. Position \in Nat
    BY NextStep
<1> QED
    BY <1>1 DEF CommandsInvariant, Passed, TasksTyped, Running

LEMMA GiverEntitled ==
    ASSUME Disciplined, CommandsInvariant, ~Idle, Step.do = "act", NEW e \in Step.effects,
           Step.for # "settings", Step.whom # "user"
    PROVE  Entitled(task.by, Needs(e))
<1>1. AsksGiver(Running)
    BY AskedBefore DEF Disciplined, Keeps
<1>2. ASSUME NEW right \in Needs(e) PROVE Trusted(right) \/ Trusted("creator")
  <2>1. PICK j \in 1..((Position + 1) - 1), has \in {right, "creator"} : Vouches(Running[j], "user", has)
      BY <1>1, <1>2, NextStep DEF AsksGiver
  <2>2. has \in Rights \cup {"creator"}
      BY <1>2, <2>1, NeedsAreRights
  <2> QED BY <2>1, <2>2, AskedBefore DEF Holds
<1> QED
    BY <1>2 DEF Trusted, Entitled

LEMMA BotEntitled ==
    ASSUME Disciplined, CommandsInvariant, ~Idle, Step.do = "act", NEW e \in Step.effects,
           task.handler \notin Unchecked
    PROVE  Needs(e) \subseteq held["bot"]
<1>1. AsksBot(Running)
    BY AskedBefore DEF Disciplined, Keeps
<1>2. ASSUME NEW right \in Needs(e) PROVE right \in held["bot"]
  <2>1. PICK j \in 1..((Position + 1) - 1) : Vouches(Running[j], "bot", right)
      BY <1>1, <1>2, NextStep DEF AsksBot
  <2> QED BY <1>2, <2>1, AskedBefore, NeedsAreRights DEF Holds
<1> QED
    BY <1>2

LEMMA TargetSpared ==
    ASSUME Disciplined, CommandsInvariant, ~Idle, Step.do = "act", NEW e \in Step.effects \cap Punishments,
           task.handler \notin Unprotecting
    PROVE  \/ Step.whom = "user"
           \/ Step.whom \notin Person
           \/ Step.whom = "target" /\ ("admin" \notin kept["target"] \/ faults > 0)
<1>1. AsksTarget(Running)
    BY AskedBefore DEF Disciplined, Keeps
<1>2. \/ Step.whom = "user"
      \/ Step.whom \notin Person
      \/ Step.whom = "target" /\ \E j \in 1..((Position + 1) - 1) : Spares(Running[j])
    BY <1>1, NextStep DEF AsksTarget
<1> QED
    BY <1>2, AskedBefore DEF Holds

LEMMA ReaderAmong ==
    ASSUME Disciplined, CommandsInvariant, ~Idle, Step.do = "act", NEW e \in Step.effects,
           Step.for = "reader"
    PROVE  Among(Audience(e))
<1>1. AsksReader(Running)
    BY AskedBefore DEF Disciplined, Keeps
<1>2. PICK j \in 1..((Position + 1) - 1) : Opens(Running[j], Audience(e))
    BY <1>1, NextStep DEF AsksReader
<1> QED
    BY <1>2, AskedBefore DEF Holds

LEMMA KeeperAmong ==
    ASSUME Disciplined, CommandsInvariant, ~Idle, Step.do = "store", NEW t \in Step.tables
    PROVE  Keepers[t] = {} \/ Among(Keepers[t])
<1>1. AsksKeeper(Running)
    BY AskedBefore DEF Disciplined, Keeps
<1>2. Keepers[t] = {} \/ \E j \in 1..((Position + 1) - 1) : Opens(Running[j], Keepers[t])
    BY <1>1, NextStep DEF AsksKeeper
<1> QED
    BY <1>2, AskedBefore DEF Holds

\* When success is told, what was due has been done.
LEMMA DueDone ==
    ASSUME Disciplined, CommandsInvariant, ~Idle, Step.do \in {"confirm", "note"}
    PROVE  \A i \in DOMAIN Running : Finished(Running[i])
<1>1. TellsLast(Running)
    BY AskedBefore DEF Disciplined, Keeps
<1>2. ASSUME NEW i \in DOMAIN Running, Due(Running[i]) PROVE Finished(Running[i])
  <2>1. i < Position + 1
      BY <1>1, <1>2, NextStep DEF TellsLast
  <2>2. i \in 1..((Position + 1) - 1)
      BY <2>1, NextStep
  <2> QED BY <2>2, AskedBefore DEF Holds
<1>3. ASSUME NEW i \in DOMAIN Running, ~Due(Running[i]) PROVE Finished(Running[i])
    BY <1>3 DEF Finished
<1> QED BY <1>2, <1>3

--------------------------------------------------------------------------------
(* What has been done, and for whom. *)

\* The properties of what is done, and what is told of it.
Accounts == Accounted /\ TargetProtected /\ NoRefusal /\ Honest

\* Every step of a handler grows on what was.
LEMMA RunGrows ==
    ASSUME CommandsInvariant, Run
    PROVE  ~Idle /\ Grow /\ Same
<1>1. ~Idle
    BY DEF Run, Check, Call, Look, WeighRights, LoadAdministrators, ForgetAdministrators,
           WriteTable, DropKeys, Tell, OfferButton, At
<1>2. Same
  <2>1. task \in Tasks
      BY DEF CommandsInvariant, TasksTyped
  <2>2. (End \/ Continue) => Same
      BY <1>1, Turns
  <2>3. CASE WeighRights
      BY <2>1, <2>3 DEF WeighRights, Same, Tasks
  <2>4. CASE Check
      BY <2>2, <2>4 DEF Check
  <2>5. CASE Call
      BY <2>2, <2>5 DEF Call, Obeyed, Disobeyed, CallLost, GoOn
  <2>6. CASE Look \/ LoadAdministrators \/ ForgetAdministrators \/ WriteTable \/ DropKeys \/ Tell \/ OfferButton
      BY <2>2, <2>6 DEF Look, LoadAdministrators, ForgetAdministrators, WriteTable, DropKeys,
                        Tell, OfferButton, GoOn
  <2> QED BY <2>3, <2>4, <2>5, <2>6 DEF Run
<1>3. faults \in Nat /\ faults' \in Nat /\ faults' >= faults
  <2>1. faults \in Nat
      BY DEF CommandsInvariant, CmdTypeOK
  <2>2. Fault \/ faults' = faults
      BY DEF Run, Check, Call, Look, WeighRights, LoadAdministrators, ForgetAdministrators,
             WriteTable, DropKeys, Tell, OfferButton, Obeyed, Disobeyed, CallLost, NoFault
  <2> QED BY <2>1, <2>2 DEF Fault
<1>4. /\ chat' = chat /\ done \subseteq done' /\ saved \subseteq saved'
      /\ \A p \in Person : held[p] \subseteq held'[p] /\ kept'[p] \subseteq kept[p]
  <2>1. CASE Call
    <3>1. \A p \in Person : held[p] \subseteq held'[p] /\ kept'[p] \subseteq kept[p]
        BY <2>1 DEF Call, Obeyed, Disobeyed, CallLost, Happen, Unhappened, Become
    <3> QED BY <2>1, <3>1 DEF Call, Obeyed, Disobeyed, CallLost, Happen, Unhappened
  <2>2. CASE Check \/ Look \/ WeighRights \/ LoadAdministrators \/ ForgetAdministrators
             \/ DropKeys \/ Tell \/ OfferButton
      BY <2>2 DEF Check, Look, WeighRights, LoadAdministrators, ForgetAdministrators, DropKeys,
                  Tell, OfferButton
  <2>3. CASE WriteTable
      BY <2>3 DEF WriteTable, Stored
  <2> QED BY <2>1, <2>2, <2>3 DEF Run
<1> QED
    BY <1>1, <1>2, <1>3, <1>4 DEF Grow

\* What was right stays right; what is new must be.
LEMMA AccountsGrow ==
    ASSUME CommandsInvariant, CommandsInvariant', Accounts, Grow, Same,
           \A d \in done' \ done :
               /\ d.by = task.by
               /\ \/ d.for = "settings" \/ d.whom = d.by
                  \/ /\ Entitled(d.by, Needs(d.effect))'
                     /\ d.effect = "promote" => Entitled(d.by, d.rights)' \/ OfSudoTeam
               /\ d.for = "reader" => Among(Audience(d.effect))'
               /\ d.effect \in Punishments /\ d.shielded => task.handler \in Unprotecting,
           \A s \in saved' \ saved : s.by = task.by /\ (Keepers[s.table] = {} \/ Among(Keepers[s.table])'),
           task.handler \notin Unchecked => refused' \subseteq held'["bot"],
           told' = told \/ \A i \in DOMAIN Running : Finished(Running[i])'
    PROVE  Accounts'
<1> USE DEF CommandsInvariant
<1>1. /\ task.by \in Person /\ task'.by = task.by /\ task'.handler = task.handler
      /\ task'.verified = task.verified /\ chat' = chat
      /\ held[task.by] \subseteq held'[task.by]
    BY DEF TasksTyped, Tasks, Same, Grow
<1>2. Running' = Running
    BY <1>1 DEF Running
<1>3. (\A d \in done : d.by = task.by) /\ (\A s \in saved : s.by = task.by)
    BY DEF DoneByGiver
<1>4. Authorized'
    BY <1>1, <1>3 DEF Accounts, Accounted, Authorized, Entitled, OfSudoTeam, AnonymousAllowed
<1>5. SettingsAuthorized'
    BY <1>1, <1>3 DEF Accounts, Accounted, SettingsAuthorized, Among
<1>6. Revealed'
    BY <1>1, <1>3 DEF Accounts, Accounted, Revealed, Among
<1>7. TargetProtected'
    BY <1>1 DEF Accounts, TargetProtected
<1>8. NoRefusal'
    BY <1>1 DEF Accounts, NoRefusal
<1>9. Honest'
  <2>1. Course(task'.handler, task'.verified) = Running
      BY <1>1 DEF Running, CourseOf
  <2>2. ASSUME told = TRUE, NEW i \in DOMAIN Running PROVE Finished(Running[i])
    <3>1. Course(task.handler, task.verified) = Running
        BY DEF Running, CourseOf
    <3> QED BY <2>2, <3>1 DEF Accounts, Honest, Finished, Due
  <2>3. ASSUME told' = TRUE, NEW i \in DOMAIN Running PROVE Finished(Running[i])'
    <3>1. PICK s : s = Running[i]
        OBVIOUS
    <3>2. CASE told = TRUE
      <4>1. Finished(s)
          BY <2>2, <2>3, <3>1, <3>2
      <4>2. Finished(s)'
          BY <4>1 DEF Finished, Grow
      <4> QED BY <3>1, <4>2, <1>2
    <3>3. CASE ~(told = TRUE)
        BY <2>3, <3>3
    <3> QED BY <3>2, <3>3
  <2>4. ASSUME told' = TRUE, NEW i \in DOMAIN Running
        PROVE  LET step == Running[i] IN
               /\ step.do = "act" /\ step.must /\ "nothing" \notin step.effects =>
                     \E d \in done' : d.effect \in step.effects
               /\ step.do = "store" /\ step.must =>
                     step.tables \subseteq {s.table : s \in saved'}
    <3>1. PICK s : s = Running[i]
        OBVIOUS
    <3>2. Finished(s)'
        BY <2>3, <2>4, <1>2, <3>1
    <3> QED BY <3>1, <3>2 DEF Finished, Due
  <2>5. told' \in BOOLEAN
      BY DEF CmdTypeOK
  <2> QED BY <2>1, <2>4, <2>5 DEF Honest
<1> QED
    BY <1>4, <1>5, <1>6, <1>7, <1>8, <1>9 DEF Accounts, Accounted

\* Where nothing is done, saved, refused or told, nothing is to be accounted for.
LEMMA AccountsRest ==
    ASSUME CommandsInvariant, CommandsInvariant', Accounts, Grow, Same,
           UNCHANGED <<done, saved, refused, told>>
    PROVE  Accounts'
<1>1. task.handler \notin Unchecked => refused' \subseteq held'["bot"]
    BY DEF Accounts, NoRefusal, Grow, Person
<1> QED
    BY <1>1, AccountsGrow

LEMMA AccountsOfCalls ==
    ASSUME Disciplined, CommandsInvariant, CommandsInvariant', Accounts, Grow, Same, Call
    PROVE  Accounts'
<1>1. ~Idle /\ Step.do = "act" /\ UNCHANGED <<chat, saved, told>>
    BY DEF Call, At
<1>2. /\ task.by \in Person /\ task'.by = task.by /\ chat' = chat
      /\ held[task.by] \subseteq held'[task.by] /\ held["bot"] \subseteq held'["bot"]
    BY DEF CommandsInvariant, TasksTyped, Tasks, Same, Grow, Person
<1>3. task.handler \notin Unchecked => refused \subseteq held["bot"]
    BY DEF Accounts, NoRefusal
<1>4. PICK e \in Step.effects :
          \/ e = "nothing" /\ Unhappened /\ UNCHANGED refused
          \/ Obeyed(e, Subject(Step.whom))
          \/ Disobeyed(e, Subject(Step.whom))
          \/ CallLost
    BY DEF Call
<1>5. CASE Unhappened /\ UNCHANGED refused
    BY <1>1, <1>5, AccountsRest DEF Unhappened
<1>6. CASE Disobeyed(e, Subject(Step.whom))
  <2>1. done' = done /\ refused' = refused \cup Misses(e)
      BY <1>6 DEF Disobeyed, Unhappened
  <2>2. task.rights \subseteq held["bot"]
      BY DEF CommandsInvariant, RightsWeighed
  <2>3. task.handler \notin Unchecked => Misses(e) \subseteq held["bot"]
      BY <1>1, <2>2, BotEntitled DEF Misses
  <2> QED BY <1>1, <1>2, <1>3, <2>1, <2>3, AccountsGrow
<1>7. CASE Obeyed(e, Subject(Step.whom))
  <2>1. PICK d : d = [effect |-> e, whom |-> Subject(Step.whom), by |-> task.by,
                      for |-> Step.for, rights |-> task.rights,
                      shielded |-> Subject(Step.whom) \in Person /\ Subject(Step.whom) # task.by
                                   /\ "admin" \in kept[Subject(Step.whom)] /\ faults = 0]
      OBVIOUS
  <2>2. done' = done \cup {d} /\ refused' = refused
      BY <1>7, <2>1 DEF Obeyed, Happen
  <2>3. /\ d.effect = e /\ d.whom = Subject(Step.whom) /\ d.by = task.by
        /\ d.for = Step.for /\ d.rights = task.rights
      BY <2>1
  <2>4. d.shielded => Subject(Step.whom) \in Person /\ Subject(Step.whom) # task.by
                      /\ "admin" \in kept[Subject(Step.whom)] /\ faults = 0
      BY <2>1
  <2>5. \/ d.for = "settings" \/ d.whom = d.by
        \/ /\ Entitled(d.by, Needs(d.effect))'
           /\ d.effect = "promote" => Entitled(d.by, d.rights)' \/ OfSudoTeam
    <3>1. Step.whom = "user" => d.whom = d.by
        BY <2>3 DEF Subject
    <3>2. Step.for # "settings" /\ Step.whom # "user" => Entitled(task.by, Needs(e))
        BY <1>1, GiverEntitled
    <3>3. Entitled(task.by, task.rights) \/ OfSudoTeam
        BY DEF CommandsInvariant, RightsWeighed
    <3> QED BY <1>2, <2>3, <3>1, <3>2, <3>3 DEF Entitled, AnonymousAllowed
  <2>6. d.for = "reader" => Among(Audience(d.effect))'
    <3>1. Step.for = "reader" => Among(Audience(e))
        BY <1>1, ReaderAmong
    <3> QED BY <1>2, <2>3, <3>1 DEF Among
  <2>7. d.effect \in Punishments /\ d.shielded => task.handler \in Unprotecting
    <3>1. SUFFICES ASSUME e \in Punishments, d.shielded, task.handler \notin Unprotecting PROVE FALSE
        BY <2>3
    <3>2. \/ Step.whom = "user"
          \/ Step.whom \notin Person
          \/ Step.whom = "target" /\ ("admin" \notin kept["target"] \/ faults > 0)
        BY <1>1, <3>1, TargetSpared
    <3>3. Step.whom # "user" => Subject(Step.whom) = Step.whom
        BY DEF Subject
    <3>4. Step.whom = "user" => Subject(Step.whom) = task.by
        BY DEF Subject
    <3> QED BY <2>4, <3>1, <3>2, <3>3, <3>4 DEF Person
  <2> QED BY <1>1, <1>2, <1>3, <2>2, <2>3, <2>5, <2>6, <2>7, AccountsGrow
<1> QED
    BY <1>4, <1>5, <1>6, <1>7 DEF CallLost

LEMMA AccountsOfRuns ==
    ASSUME Disciplined, CommandsInvariant, CommandsInvariant', Accounts, Run
    PROVE  Accounts'
<1>1. ~Idle /\ Grow /\ Same
    BY RunGrows
<1>2. task.handler \notin Unchecked => refused \subseteq held'["bot"]
    BY <1>1 DEF Accounts, NoRefusal, Grow, Person
<1>3. CASE Check \/ Look \/ WeighRights \/ LoadAdministrators \/ ForgetAdministrators \/ DropKeys \/ OfferButton
  <2>1. UNCHANGED <<done, saved, refused, told>>
      BY <1>3 DEF Check, Look, WeighRights, LoadAdministrators, ForgetAdministrators, DropKeys, OfferButton
  <2> QED BY <1>1, <2>1, AccountsRest
<1>4. CASE Call
    BY <1>1, <1>4, AccountsOfCalls
<1>5. CASE WriteTable
  <2>1. Step.do = "store" /\ UNCHANGED <<done, refused, told>>
      BY <1>5 DEF WriteTable, At
  <2>2. ASSUME NEW s \in saved' \ saved
        PROVE  s.by = task.by /\ (Keepers[s.table] = {} \/ Among(Keepers[s.table])')
    <3>1. PICK t \in Step.tables : s = [table |-> t, by |-> task.by]
        BY <1>5, <2>2 DEF WriteTable, Stored
    <3>2. Keepers[t] = {} \/ Among(Keepers[t])
        BY <1>1, <2>1, <3>1, KeeperAmong
    <3>3. task.by \in Person /\ task'.by = task.by /\ held[task.by] \subseteq held'[task.by] /\ chat' = chat
        BY <1>1 DEF CommandsInvariant, TasksTyped, Tasks, Same, Grow
    <3> QED BY <3>1, <3>2, <3>3 DEF Among
  <2> QED BY <1>1, <1>2, <2>1, <2>2, AccountsGrow
<1>6. CASE Tell
  <2>1. Step.do \in {"confirm", "note"} /\ UNCHANGED <<done, saved, refused>>
      BY <1>6 DEF Tell, At
  <2>2. \A i \in DOMAIN Running : Finished(Running[i])
      BY <1>1, <2>1, DueDone
  <2>3. Running' = Running
      BY <1>1 DEF Same, Running
  <2>4. \A i \in DOMAIN Running : Finished(Running[i])'
      BY <2>1, <2>2, <2>3 DEF Finished
  <2> QED BY <1>1, <1>2, <2>1, <2>4, AccountsGrow
<1> QED
    BY <1>3, <1>4, <1>5, <1>6 DEF Run

LEMMA AccountsKeep ==
    ASSUME Disciplined, CommandsInvariant, Accounts, [CmdNext]_cmdVars
    PROVE  Accounts'
<1>0. CommandsInvariant'
    BY StepsKeep
<1>1. CASE Run
    BY <1>0, <1>1, AccountsOfRuns
<1>2. ASSUME NEW o \in offered, Begin(o) PROVE Accounts'
    BY <1>2 DEF Begin, Accounts, Accounted, Authorized, SettingsAuthorized, Revealed, TargetProtected,
                NoRefusal, Honest
<1>3. ASSUME NEW p \in {"user", "bot"}, ChangeRank(p, Member) PROVE Accounts'
    BY <1>0, <1>3, ChangeKeeps, AccountsRest DEF ChangeRank, Same, Person
<1>4. ASSUME NEW powers \in {Outside, AdminWith(Rights)}, ChangeRank("target", powers) PROVE Accounts'
  <2>1. "target" \in Person /\ powers \in {Member, Outside, AdminWith(Rights)}
      BY DEF Person
  <2>2. Grow
      BY <1>4, <2>1, ChangeKeeps
  <2> QED BY <1>0, <1>4, <2>2, AccountsRest DEF ChangeRank, Same
<1>5. CASE HandleUpdate
    BY <1>0, <1>5, UpdateKeeps, AccountsRest DEF HandleUpdate, Same
<1>6. CASE UNCHANGED cmdVars
    BY <1>0, <1>6, NothingKeeps, AccountsRest DEF cmdVars, Same
<1> QED
    BY <1>1, <1>2, <1>3, <1>4, <1>5, <1>6 DEF CmdNext

LEMMA AccountsStart == CmdInit => Accounts
BY DEF CmdInit, Accounts, Accounted, Authorized, SettingsAuthorized, Revealed, TargetProtected,
       NoRefusal, Honest

LEMMA AccountsStand ==
    ASSUME Disciplined
    PROVE  CmdSpec => []Accounts
<1>1. CommandsInvariant /\ Accounts /\ [CmdNext]_cmdVars => Accounts'
    BY AccountsKeep
<1> QED
    BY <1>1, AccountsStart, CommandsCorrect, PTL DEF CmdSpec

\* Whatever disciplined handlers do, write or show is done, written and shown for one
\* who has had the power for it since the command was given, however the ranks and the
\* cached administrators change in between.
THEOREM DisciplinedAccount ==
    ASSUME Disciplined
    PROVE  CmdSpec => []Accounted
<1>1. Accounts => Accounted
    BY DEF Accounts
<1> QED BY <1>1, AccountsStand, PTL

\* Disciplined handlers do not punish one who has been an administrator all the time.
THEOREM DisciplinedProtect ==
    ASSUME Disciplined
    PROVE  CmdSpec => []TargetProtected
<1>1. Accounts => TargetProtected
    BY DEF Accounts
<1> QED BY <1>1, AccountsStand, PTL

\* Disciplined handlers do not ask Telegram for what the bot never had the right to.
THEOREM DisciplinedBot ==
    ASSUME Disciplined
    PROVE  CmdSpec => []NoRefusal
<1>1. Accounts => NoRefusal
    BY DEF Accounts
<1> QED BY <1>1, AccountsStand, PTL

\* Disciplined handlers tell of success when what is due has been done.
THEOREM DisciplinedHonest ==
    ASSUME Disciplined
    PROVE  CmdSpec => []Honest
<1>1. Accounts => Honest
    BY DEF Accounts
<1> QED BY <1>1, AccountsStand, PTL

--------------------------------------------------------------------------------
(* What has been outdated is about to be dropped. *)

LEMMA DroppersAreSteps ==
    ASSUME NEW steps, NEW k
    PROVE  Droppers(steps, k) \subseteq DOMAIN steps /\ Forgetters(steps) \subseteq DOMAIN steps
BY DEF Droppers, Forgetters

\* The end of a course, seen by itself.
LEMMA Shift ==
    ASSUME NEW a \in Seq(Steps), NEW b \in Seq(Steps), NEW n \in Nat, Len(b) = Len(a) - n,
           \A i \in 1..Len(b) : b[i] = a[n + i]
    PROVE  /\ \A k : Ahead(a, n, Droppers(a, k)) => Ahead(b, 0, Droppers(b, k))
           /\ Ahead(a, n, Forgetters(a)) => Ahead(b, 0, Forgetters(b))
<1>1. ASSUME NEW j \in DOMAIN a, j > n
      PROVE  j - n \in DOMAIN b /\ j - n > 0 /\ b[j - n] = a[j]
  <2>1. j \in 1..Len(a) /\ DOMAIN b = 1..Len(b)
      OBVIOUS
  <2>2. j - n \in 1..Len(b) /\ n + (j - n) = j
      BY <1>1, <2>1
  <2> QED BY <2>1, <2>2
<1>2. ASSUME NEW j \in DOMAIN a, j > n, \A m \in (n + 1)..(j - 1) : Steady(a[m])
      PROVE  \A m \in (0 + 1)..((j - n) - 1) : Steady(b[m])
  <2>1. SUFFICES ASSUME NEW m \in (0 + 1)..((j - n) - 1) PROVE Steady(b[m])
      OBVIOUS
  <2>2. j \in 1..Len(a)
      OBVIOUS
  <2>3. n + m \in (n + 1)..(j - 1) /\ m \in 1..Len(b)
      BY <2>1, <2>2
  <2> QED BY <2>3, <1>2
<1>3. ASSUME NEW k, Ahead(a, n, Droppers(a, k)) PROVE Ahead(b, 0, Droppers(b, k))
  <2>1. PICK j \in Droppers(a, k) : j > n /\ \A m \in (n + 1)..(j - 1) : Steady(a[m])
      BY <1>3 DEF Ahead
  <2>2. j \in DOMAIN a
      BY DroppersAreSteps
  <2>3. j - n \in Droppers(b, k)
      BY <2>1, <2>2, <1>1 DEF Droppers
  <2> QED BY <2>1, <2>2, <2>3, <1>1, <1>2 DEF Ahead
<1>4. ASSUME Ahead(a, n, Forgetters(a)) PROVE Ahead(b, 0, Forgetters(b))
  <2>1. PICK j \in Forgetters(a) : j > n /\ \A m \in (n + 1)..(j - 1) : Steady(a[m])
      BY <1>4 DEF Ahead
  <2>2. j \in DOMAIN a
      BY DroppersAreSteps
  <2>3. j - n \in Forgetters(b)
      BY <2>1, <2>2, <1>1 DEF Forgetters
  <2> QED BY <2>1, <2>2, <2>3, <1>1, <1>2 DEF Ahead
<1> QED BY <1>3, <1>4

\* Either the first step is the one, or it is steady and the others have it.
LEMMA First ==
    ASSUME NEW a \in Seq(Steps), NEW those, those \subseteq DOMAIN a, Ahead(a, 0, those)
    PROVE  1 \in those \/ (Steady(a[1]) /\ Ahead(a, 1, those))
<1>1. PICK j \in those : j > 0 /\ \A m \in (0 + 1)..(j - 1) : Steady(a[m])
    BY DEF Ahead
<1>2. j \in Nat
    BY <1>1
<1>3. CASE j = 1
    BY <1>3
<1>4. CASE j > 1
  <2>1. Steady(a[1])
      BY <1>1, <1>2, <1>4
  <2>2. \A m \in (1 + 1)..(j - 1) : Steady(a[m])
      BY <1>1, <1>2
  <2> QED BY <1>4, <2>1, <2>2 DEF Ahead
<1> QED BY <1>1, <1>2, <1>3, <1>4

\* What is ahead of the steps to go is met, or stays ahead.
LEMMA StaysAhead ==
    ASSUME CommandsInvariant, ~Idle
    PROVE  /\ \A k : Ahead(task.todo, 0, Droppers(task.todo, k)) =>
                 \/ Step.do = "drop" /\ k \in Step.keys
                 \/ Steady(Step) /\ Ahead(Tail(task.todo), 0, Droppers(Tail(task.todo), k))
           /\ Ahead(task.todo, 0, Forgetters(task.todo)) =>
                 \/ Step.do = "forget"
                 \/ Steady(Step) /\ Ahead(Tail(task.todo), 0, Forgetters(Tail(task.todo)))
<1>1. /\ task.todo \in Seq(Steps) /\ Tail(task.todo) \in Seq(Steps) /\ Step = task.todo[1]
      /\ Len(Tail(task.todo)) = Len(task.todo) - 1
      /\ \A i \in 1..Len(Tail(task.todo)) : Tail(task.todo)[i] = task.todo[1 + i]
    BY NextStep
<1>2. /\ \A k : Ahead(task.todo, 1, Droppers(task.todo, k)) =>
                    Ahead(Tail(task.todo), 0, Droppers(Tail(task.todo), k))
      /\ Ahead(task.todo, 1, Forgetters(task.todo)) =>
             Ahead(Tail(task.todo), 0, Forgetters(Tail(task.todo)))
    BY <1>1, Shift
<1>3. ASSUME NEW k, Ahead(task.todo, 0, Droppers(task.todo, k))
      PROVE  \/ Step.do = "drop" /\ k \in Step.keys
             \/ Steady(Step) /\ Ahead(Tail(task.todo), 0, Droppers(Tail(task.todo), k))
  <2>1. 1 \in Droppers(task.todo, k) \/ (Steady(task.todo[1]) /\ Ahead(task.todo, 1, Droppers(task.todo, k)))
      BY <1>1, <1>3, First, DroppersAreSteps
  <2> QED BY <1>1, <1>2, <2>1 DEF Droppers
<1>4. ASSUME Ahead(task.todo, 0, Forgetters(task.todo))
      PROVE  \/ Step.do = "forget"
             \/ Steady(Step) /\ Ahead(Tail(task.todo), 0, Forgetters(Tail(task.todo)))
  <2>1. 1 \in Forgetters(task.todo) \/ (Steady(task.todo[1]) /\ Ahead(task.todo, 1, Forgetters(task.todo)))
      BY <1>1, <1>4, First, DroppersAreSteps
  <2> QED BY <1>1, <1>2, <2>1 DEF Forgetters
<1> QED BY <1>3, <1>4

\* What the course has after the step at hand is ahead of the next.
LEMMA ComesAhead ==
    ASSUME CommandsInvariant, ~Idle
    PROVE  /\ \A k : Ahead(Running, Position + 1, Droppers(Running, k)) =>
                         Ahead(Tail(task.todo), 0, Droppers(Tail(task.todo), k))
           /\ Ahead(Running, Position + 1, Forgetters(Running)) =>
                  Ahead(Tail(task.todo), 0, Forgetters(Tail(task.todo)))
<1>1. /\ Running \in Seq(Steps) /\ task.todo \in Seq(Steps) /\ Len(task.todo) > 0
      /\ Position \in Nat /\ Tail(task.todo) \in Seq(Steps)
      /\ Len(Tail(task.todo)) = Len(task.todo) - 1
      /\ \A i \in 1..Len(Tail(task.todo)) : Tail(task.todo)[i] = task.todo[i + 1]
    BY NextStep
<1>2. Position = Len(Running) - Len(task.todo)
    BY DEF Position
<1>3. Len(Tail(task.todo)) = Len(Running) - (Position + 1)
    BY <1>1, <1>2
<1>4. ASSUME NEW i \in 1..Len(Tail(task.todo)) PROVE Tail(task.todo)[i] = Running[(Position + 1) + i]
  <2>1. i + 1 \in 1..Len(task.todo) /\ (Position + 1) + i = Position + (i + 1)
      BY <1>1
  <2>2. task.todo[i + 1] = Running[Position + (i + 1)]
      BY <2>1 DEF CommandsInvariant, Passed, Suffix
  <2> QED BY <1>1, <2>1, <2>2
<1>5. Position + 1 \in Nat
    BY <1>1
<1> QED
    BY <1>1, <1>3, <1>4, <1>5, Shift

Caches == KeysPending /\ ListPending

\* As long as no call fails, only a step that is not steady ends a handler.
LEMMA Steadily ==
    ASSUME CommandsInvariant, Run, faults' = 0
    PROVE  /\ faults = 0
           /\ \/ task'.todo = Tail(task.todo)
              \/ task'.todo = <<>> /\ ~Steady(Step) /\ Step.do \notin {"drop", "forget"}
<1>1. ~Idle /\ faults = 0
    BY RunGrows DEF Grow
<1>2. ~Fault
    BY <1>1 DEF Fault
<1>3. Continue => task'.todo = Tail(task.todo)
    BY <1>1, Turns
<1>4. End => task'.todo = <<>>
    BY <1>1, Turns
<1>5. CASE Check
  <2>1. Step.do = "gate" /\ (End \/ Continue)
      BY <1>5 DEF Check, At
  <2>2. ~Steady(Step) /\ Step.do \notin {"drop", "forget"}
      BY <2>1 DEF Steady
  <2> QED BY <1>1, <1>3, <1>4, <2>1, <2>2
<1>6. CASE Look
    BY <1>3, <1>4, <1>6 DEF Look, At, Steady
<1>7. CASE Call
  <2>1. Step.do = "act" /\ (Continue \/ GoOn)
      BY <1>2, <1>7 DEF Call, At, Obeyed, Disobeyed, CallLost
  <2>2. Step.must => ~Steady(Step) /\ Step.do \notin {"drop", "forget"}
      BY <2>1 DEF Steady
  <2> QED BY <1>1, <1>3, <1>4, <2>1, <2>2 DEF GoOn
<1>8. CASE WeighRights
    BY <1>8 DEF WeighRights, CommandsInvariant, TasksTyped, Tasks
<1>9. CASE LoadAdministrators \/ ForgetAdministrators \/ WriteTable \/ DropKeys \/ Tell \/ OfferButton
  <2>1. Continue
      BY <1>2, <1>9 DEF LoadAdministrators, ForgetAdministrators, WriteTable, DropKeys, Tell, OfferButton
  <2> QED BY <1>1, <1>3, <2>1
<1> QED
    BY <1>1, <1>5, <1>6, <1>7, <1>8, <1>9 DEF Run

LEMMA KeysOfRuns ==
    ASSUME Disciplined, CommandsInvariant, KeysPending, Run
    PROVE  KeysPending'
<1>1. SUFFICES ASSUME faults' = 0, NEW k \in stale'
               PROVE  Ahead(task.todo, 0, Droppers(task.todo, k))'
    BY DEF KeysPending
<1>2. /\ ~Idle /\ faults = 0 /\ ~Fault
      /\ \/ task'.todo = Tail(task.todo)
         \/ task'.todo = <<>> /\ ~Steady(Step) /\ Step.do \notin {"drop", "forget"}
    BY <1>1, Steadily, RunGrows DEF Fault
<1>3. CASE k \in stale
  <2>1. \/ Step.do = "drop" /\ k \in Step.keys
        \/ Steady(Step) /\ Ahead(Tail(task.todo), 0, Droppers(Tail(task.todo), k))
      BY <1>2, <1>3, StaysAhead DEF KeysPending
  <2>2. Step.do = "drop" => DropKeys
      BY DEF Run, Check, Call, Look, WeighRights, LoadAdministrators, ForgetAdministrators,
             WriteTable, Tell, OfferButton, At
  <2>3. ~(Step.do = "drop" /\ k \in Step.keys)
      BY <1>1, <1>2, <2>2 DEF DropKeys
  <2>4. task'.todo = Tail(task.todo) /\ Ahead(Tail(task.todo), 0, Droppers(Tail(task.todo), k))
      BY <1>2, <2>1, <2>3
  <2> QED BY <2>4 DEF Ahead, Droppers
<1>4. CASE k \notin stale
  <2>1. WriteTable
      BY <1>1, <1>4 DEF Run, Check, Call, Look, WeighRights, LoadAdministrators,
                        ForgetAdministrators, DropKeys, Tell, OfferButton
  <2>2. Step.do = "store" /\ Stored /\ Continue
      BY <1>1, <1>2, <1>4, <2>1 DEF WriteTable, At
  <2>3. PICK t \in Step.tables : k \in KeysOf[t]
      BY <1>1, <1>4, <2>2 DEF Stored
  <2>4. DropsKeys(Running)
      BY <1>2, AskedBefore DEF Disciplined, Keeps
  <2>5. Ahead(Running, Position + 1, Droppers(Running, k))
      BY <1>2, <2>2, <2>3, <2>4, NextStep DEF DropsKeys
  <2>6. task'.todo = Tail(task.todo) /\ Ahead(Tail(task.todo), 0, Droppers(Tail(task.todo), k))
      BY <1>2, <2>2, <2>5, ComesAhead, Turns
  <2> QED BY <2>6 DEF Ahead, Droppers
<1> QED BY <1>3, <1>4

LEMMA NoSum == \A a, b \in Nat : a + b = 0 => a = 0 /\ b = 0
OBVIOUS

LEMMA ListOfRuns ==
    ASSUME Disciplined, CommandsInvariant, CommandsInvariant', ListPending, Run
    PROVE  ListPending'
<1>1. SUFFICES ASSUME faults' + changes' = 0, NEW d \in done', d.effect \in Appointments
               PROVE  \/ list' = NoList
                      \/ Listed("target")' <=> "admin" \in rank'["target"]
                      \/ Ahead(task.todo, 0, Forgetters(task.todo))'
    BY DEF ListPending, NoList
<1>2. faults' = 0 /\ changes' = changes /\ changes = 0
  <2>1. changes' = changes
      BY DEF Run, Check, Call, Look, WeighRights, LoadAdministrators, ForgetAdministrators,
             WriteTable, DropKeys, Tell, OfferButton
  <2>2. faults' \in Nat /\ changes' \in Nat
      BY DEF CommandsInvariant, CmdTypeOK
  <2>3. faults' + changes' = 0
      BY <1>1
  <2>4. faults' = 0 /\ changes' = 0
      BY <2>2, <2>3, NoSum
  <2> QED BY <2>1, <2>4
<1>3. /\ ~Idle /\ faults = 0 /\ ~Fault
      /\ \/ task'.todo = Tail(task.todo)
         \/ task'.todo = <<>> /\ ~Steady(Step) /\ Step.do \notin {"drop", "forget"}
    BY <1>2, Steadily, RunGrows DEF Fault
\* The ranks stay, and the appointment was made before.
<1>4. ASSUME rank' = rank, list' = list, Step.do # "forget", NEW x \in done, x.effect \in Appointments
      PROVE  \/ list' = NoList
             \/ Listed("target")' <=> "admin" \in rank'["target"]
             \/ Ahead(task.todo, 0, Forgetters(task.todo))'
  <2>1. \/ list = NoList
        \/ Listed("target") <=> "admin" \in rank["target"]
        \/ Ahead(task.todo, 0, Forgetters(task.todo))
      BY <1>2, <1>3, <1>4 DEF ListPending
  <2>2. CASE list = NoList
      BY <1>4, <2>2 DEF NoList
  <2>3. CASE Listed("target") <=> "admin" \in rank["target"]
      BY <1>4, <2>3 DEF Listed
  <2>4. CASE Ahead(task.todo, 0, Forgetters(task.todo))
    <3>1. Steady(Step) /\ Ahead(Tail(task.todo), 0, Forgetters(Tail(task.todo)))
        BY <1>3, <1>4, <2>4, StaysAhead
    <3>2. task'.todo = Tail(task.todo)
        BY <1>3, <3>1
    <3> QED BY <3>1, <3>2 DEF Ahead, Forgetters
  <2> QED BY <2>1, <2>2, <2>3, <2>4
<1>5. CASE Call
  <2>1. Step.do = "act" /\ list' = list
      BY <1>5 DEF Call, At
  <2>2. PICK e \in Step.effects :
            Unhappened \/ (Obeyed(e, Subject(Step.whom)) /\ Continue)
      BY <1>3, <1>5 DEF Call, Obeyed, Disobeyed, CallLost
  <2>3. CASE Unhappened
      BY <1>1, <1>4, <2>1, <2>3 DEF Unhappened
  <2>4. CASE Obeyed(e, Subject(Step.whom)) /\ Continue /\ e \in Changing
    <3>1. DropsList(Running)
        BY <1>3, AskedBefore DEF Disciplined, Keeps
    <3>2. \E i \in DOMAIN Running : Running[i].do = "act" /\ d.effect \in Running[i].effects
      <4>1. Running' = Running
          BY RunGrows DEF Same, Running
      <4> QED BY <1>1, <4>1 DEF CommandsInvariant, DoneByGiver
    <3>3. Ahead(Running, Position + 1, Forgetters(Running))
        BY <1>1, <1>3, <2>1, <2>4, <3>1, <3>2, NextStep DEF DropsList
    <3>4. task'.todo = Tail(task.todo) /\ Ahead(Tail(task.todo), 0, Forgetters(Tail(task.todo)))
        BY <1>3, <2>4, <3>3, ComesAhead, Turns
    <3> QED BY <3>4 DEF Ahead, Forgetters
  <2>5. CASE Obeyed(e, Subject(Step.whom)) /\ e \notin Changing
    <3>1. rank' = rank
      <4>1. CASE Subject(Step.whom) \in Person
          BY <2>5, <4>1, AfterIsSensible DEF Obeyed, Happen, Become, CommandsInvariant, CmdTypeOK, RanksTyped
      <4>2. CASE Subject(Step.whom) \notin Person
          BY <2>5, <4>2 DEF Obeyed, Happen
      <4> QED BY <4>1, <4>2
    <3>2. d \in done
        BY <1>1, <2>5 DEF Obeyed, Happen, Changing
    <3> QED BY <1>1, <1>4, <2>1, <3>1, <3>2
  <2> QED BY <2>2, <2>3, <2>4, <2>5
<1>6. CASE ForgetAdministrators
    BY <1>3, <1>6 DEF ForgetAdministrators, NoList
<1>7. CASE Check \/ LoadAdministrators
  <2>1. /\ rank' = rank /\ done' = done /\ list' \in {list, rank} /\ Step.do # "forget"
      BY <1>7 DEF Check, LoadAdministrators, At
  <2>2. CASE list' = rank
      BY <2>1, <2>2 DEF Listed
  <2> QED BY <1>1, <1>4, <2>1, <2>2
<1>8. CASE Look \/ WeighRights \/ WriteTable \/ DropKeys \/ Tell \/ OfferButton
  <2>1. rank' = rank /\ done' = done /\ list' = list /\ Step.do # "forget"
      BY <1>8 DEF Look, WeighRights, WriteTable, DropKeys, Tell, OfferButton, At
  <2> QED BY <1>1, <1>4, <2>1
<1> QED
    BY <1>5, <1>6, <1>7, <1>8 DEF Run

LEMMA CachesKeep ==
    ASSUME Disciplined, CommandsInvariant, Caches, [CmdNext]_cmdVars
    PROVE  Caches'
<1>0. CommandsInvariant'
    BY StepsKeep
<1>1. CASE Run
    BY <1>0, <1>1, KeysOfRuns, ListOfRuns DEF Caches
<1>2. ASSUME NEW o \in offered, Begin(o) PROVE Caches'
  <2>1. task.todo = <<>> /\ done' = {} /\ stale' = stale /\ faults' = faults
      BY <1>2 DEF Begin, Idle
  <2>2. \A k : ~Ahead(task.todo, 0, Droppers(task.todo, k))
      BY <2>1 DEF Ahead, Droppers
  <2> QED BY <2>1, <2>2 DEF Caches, KeysPending, ListPending
<1>3. ASSUME NEW p, NEW powers, ChangeRank(p, powers) PROVE Caches'
  <2>1. changes' = changes + 1 /\ task' = task /\ stale' = stale /\ faults' = faults
      BY <1>3 DEF ChangeRank
  <2>2. faults' + changes' # 0
      BY <2>1 DEF CommandsInvariant, CmdTypeOK
  <2>3. KeysPending'
      BY <2>1 DEF Caches, KeysPending, Ahead, Droppers
  <2> QED BY <2>2, <2>3 DEF Caches, ListPending
<1>4. CASE HandleUpdate
  <2>1. list' = rank /\ rank' = rank /\ task' = task /\ stale' = stale /\ faults' = faults
      BY <1>4 DEF HandleUpdate
  <2>2. KeysPending'
      BY <2>1 DEF Caches, KeysPending, Ahead, Droppers
  <2>3. Listed("target")' <=> "admin" \in rank'["target"]
      BY <2>1 DEF Listed
  <2> QED BY <2>2, <2>3 DEF Caches, ListPending
<1>5. CASE UNCHANGED cmdVars
    BY <1>5 DEF cmdVars, Caches, KeysPending, ListPending, Ahead, Droppers, Forgetters, Listed, NoList
<1> QED
    BY <1>1, <1>2, <1>3, <1>4, <1>5 DEF CmdNext

LEMMA CachesStart == CmdInit => Caches
BY DEF CmdInit, Caches, KeysPending, ListPending

LEMMA NothingAhead ==
    ASSUME Idle
    PROVE  /\ \A k : ~Ahead(task.todo, 0, Droppers(task.todo, k))
           /\ ~Ahead(task.todo, 0, Forgetters(task.todo))
BY DEF Idle, Ahead, Droppers, Forgetters

\* When a disciplined handler has ended, and no call has failed, no cached key holds
\* what is no longer stored; after an appointment the cached administrators are those
\* there are, or none.
THEOREM DisciplinedCaches ==
    ASSUME Disciplined
    PROVE  CmdSpec => []CachesFollow
<1>1. CommandsInvariant /\ Caches /\ [CmdNext]_cmdVars => Caches'
    BY CachesKeep
<1>2. Caches => CachesFollow
  <2>1. Caches => KeysFollow
      BY NothingAhead DEF Caches, KeysPending, KeysFollow
  <2>2. Caches => ListFollows
      BY NothingAhead DEF Caches, ListPending, ListFollows
  <2> QED BY <2>1, <2>2 DEF CachesFollow
<1> QED
    BY <1>1, <1>2, CachesStart, CommandsCorrect, PTL DEF CmdSpec
================================================================================
