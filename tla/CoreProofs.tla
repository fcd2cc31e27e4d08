----------------------------- MODULE CoreProofs -----------------------------
(***************************************************************************)
(* What MCCore promises, for any number of entries, interrupts, tasks and  *)
(* handlers: exact task events, bottom halves in order, a boot that is in  *)
(* order, and lists that are rings.                                        *)
(***************************************************************************)
EXTENDS MCCore, ListProofs

\* A behaviour of the core is a behaviour of its lists.
LEMMA CoreHasLists == CoreSpec => Spec
<1>1. CoreInit => Init
  BY DEF CoreInit
<1>2. [CoreNext]_allVars => [Next]_vars
  BY DEF CoreNext, allVars
<1> QED BY <1>1, <1>2, PTL DEF CoreSpec, Spec

\* list.c in the core: rings of entries with links that agree in both directions,
\* and loops that visit every entry, for any finite set of entries.
THEOREM CoreListsExact == CoreSpec => []LinksAgree /\ IsRings /\ []IterationExact
BY CoreHasLists, LinksAlwaysAgree, ListIsRings, LoopsExact, PTL

-----------------------------------------------------------------------------
\* create_root_task(): the root task has the first identifier, and nobody listens.
LEMMA EventsInitial == Events!Init => Events!EventsInv
<1> SUFFICES ASSUME Events!Init PROVE Events!EventsInv
  OBVIOUS
<1> USE EventsAssumption
<1>1. /\ last_tid = 1 /\ tid = <<1>> /\ list = {1} /\ ended = {} /\ panic = FALSE
      /\ slots = [i \in 1..HandlerCount |-> [fn |-> "none", mask |-> {}]]
      /\ told = [h \in Handlers |-> [k \in 1..MaxTasks |-> <<>>]]
  BY DEF Events!Init, Events!RootTask, Events!Free, Events!None, Events!Silence
<1>2. Len(tid) = 1 /\ DOMAIN tid = {1} /\ tid \in Seq(Nat) /\ tid[1] = 1
  BY <1>1
<1>3. \A i \in DOMAIN slots : i \in 1..HandlerCount /\ slots[i].fn = "none"
  BY <1>1
<1>4. slots \in [1..HandlerCount -> [fn : Handlers \union {"none"},
                                     mask : SUBSET {"created", "terminated"}]]
  BY <1>1
<1>5. told \in [Handlers -> [1..MaxTasks -> Seq({"created", "terminated"})]]
  <2>1. <<>> \in Seq({"created", "terminated"})
    OBVIOUS
  <2> QED BY <1>1, <2>1
<1>6. Events!EventsTypeOK
  <2>1. 1 \in Nat /\ 1 \in 1..MaxTasks
    OBVIOUS
  <2>2. list \subseteq DOMAIN tid /\ ended \subseteq DOMAIN tid
    BY <1>1, <1>2, Zenon
  <2> QED BY <1>1, <1>2, <1>4, <1>5, <2>1, <2>2, Zenon DEF Events!EventsTypeOK, Events!None
<1>7. /\ last_tid = Len(tid) /\ last_tid < TidModulus
      /\ DOMAIN tid \subseteq list \union ended /\ \A k \in DOMAIN tid : tid[k] = k
  BY <1>1, <1>2
<1> QED BY <1>3, <1>6, <1>7, Zenon DEF Events!EventsInv, Events!None

\* The logs after send_task_event().
LEMMA SentType ==
  ASSUME Events!EventsInv, NEW e \in {"created", "terminated"}, NEW n \in 1..MaxTasks
  PROVE  Events!Sent(e, n) \in [Handlers -> [1..MaxTasks -> Seq({"created", "terminated"})]]
<1> DEFINE S == {"created", "terminated"}
<1>1. told \in [Handlers -> [1..MaxTasks -> Seq(S)]]
  BY DEF Events!EventsInv, Events!EventsTypeOK
<1>2. ASSUME NEW x \in Handlers
      PROVE  [told[x] EXCEPT ![n] = Append(@, e)] \in [1..MaxTasks -> Seq(S)]
  <2>1. told[x] \in [1..MaxTasks -> Seq(S)] /\ told[x][n] \in Seq(S)
    BY <1>1
  <2>2. Append(told[x][n], e) \in Seq(S)
    BY <2>1
  <2> QED BY <2>1, <2>2
<1> QED BY <1>1, <1>2 DEF Events!Sent

\* send_task_event() appends the event to the log of the task it is about, for each
\* handler whose mask has it.
LEMMA SentLog ==
  ASSUME Events!EventsInv, NEW e, NEW n \in 1..MaxTasks,
         NEW i \in DOMAIN slots, slots[i].fn # "none", NEW k \in 1..MaxTasks
  PROVE  Events!Sent(e, n)[slots[i].fn][k] =
             IF k = n /\ e \in slots[i].mask THEN Append(told[slots[i].fn][k], e)
             ELSE told[slots[i].fn][k]
<1> DEFINE h == slots[i].fn
           S == {"created", "terminated"}
<1>1. /\ slots \in [1..HandlerCount -> [fn : Handlers \union {"none"}, mask : SUBSET S]]
      /\ told \in [Handlers -> [1..MaxTasks -> Seq(S)]]
  BY DEF Events!EventsInv, Events!EventsTypeOK, Events!None
<1>2. h \in Handlers /\ i \in 1..HandlerCount
  BY <1>1
<1>3. (\E j \in DOMAIN slots : slots[j].fn = h /\ e \in slots[j].mask) <=> e \in slots[i].mask
  BY DEF Events!EventsInv, Events!None
<1>4. Events!Sent(e, n)[h] = IF e \in slots[i].mask
                             THEN [told[h] EXCEPT ![n] = Append(@, e)] ELSE told[h]
  BY <1>2, <1>3, Zenon DEF Events!Sent
<1>5. told[h] \in [1..MaxTasks -> Seq(S)]
  BY <1>1, <1>2
<1> QED BY <1>4, <1>5

\* The logs of all registered handlers are as the invariant has them.
LogsSettled ==
    \A i \in DOMAIN slots, k \in 1..MaxTasks :
        slots[i].fn # "none" =>
            /\ k \notin DOMAIN tid => told[slots[i].fn][k] = <<>>
            /\ k \in DOMAIN tid \ ended => told[slots[i].fn][k] = Events!Beginning(slots[i].mask)
            /\ k \in ended => told[slots[i].fn][k] \in {<<>>, Events!Story(slots[i].mask)}

\* create_task(): the new task is in the list, alive, and told of.
LEMMA CreateTaskEvents ==
  ASSUME Events!EventsInv, ~panic, Events!create_task
  PROVE  Events!EventsInv'
<1> USE EventsAssumption
<1>0. /\ tid \in Seq(Nat) /\ Len(tid) \in 1..MaxTasks /\ last_tid = Len(tid)
      /\ last_tid < TidModulus /\ Len(tid) + 1 =< MaxTasks
      /\ list \subseteq DOMAIN tid /\ ended \subseteq DOMAIN tid
      /\ DOMAIN tid \subseteq list \union ended
  BY Zenon DEF Events!EventsInv, Events!EventsTypeOK, Events!create_task
<1>1. PICK n \in Nat : n = Len(tid) /\ n + 1 <= MaxTasks /\ n >= 1 /\ n < TidModulus
  BY <1>0
<1>2. /\ tid \in Seq(Nat) /\ last_tid = n /\ DOMAIN tid = 1..n
      /\ list \subseteq 1..n /\ ended \subseteq 1..n /\ 1..n \subseteq list \union ended
  BY <1>0, <1>1
<1>3. PICK new \in Nat : new = (n + 1) % TidModulus
  OBVIOUS
<1>4. (n + 1 < TidModulus /\ new = n + 1) \/ (n + 1 = TidModulus /\ new = 0)
  BY <1>1, <1>3
<1>5. /\ last_tid' = new /\ panic' = (new < n \/ new = 0) /\ tid' = Append(tid, new)
      /\ list' = list \union {n + 1} /\ told' = Events!Sent("created", n + 1)
      /\ UNCHANGED <<ended, slots>>
  BY <1>1, <1>2, <1>3, Zenon DEF Events!create_task, Events!OutOfTids
<1>6. /\ tid' \in Seq(Nat) /\ Len(tid') = n + 1 /\ DOMAIN tid' = 1..n + 1
      /\ tid'[n + 1] = new /\ \A k \in 1..n : tid'[k] = tid[k]
  BY <1>1, <1>2, <1>5
<1>7. ~panic' => new = n + 1 /\ new < TidModulus
  BY <1>4, <1>5
<1>8. ~panic' => \A k \in DOMAIN tid' : tid'[k] = k
  <2>1. \A k \in 1..n : tid[k] = k
    BY <1>2, Zenon DEF Events!EventsInv
  <2> QED BY <2>1, <1>6, <1>7
<1>9. Events!EventsTypeOK'
  <2>1. told' \in [Handlers -> [1..MaxTasks -> Seq({"created", "terminated"})]]
    <3>1. n + 1 \in 1..MaxTasks
      BY <1>1
    <3> QED BY <3>1, <1>5, SentType, Zenon
  <2>2. last_tid' \in Nat /\ tid' \in Seq(Nat) /\ Len(tid') \in 1..MaxTasks
    BY <1>1, <1>5, <1>6
  <2>3. list' \subseteq DOMAIN tid' /\ ended' \subseteq DOMAIN tid'
    <3>1. 1..n \subseteq 1..n + 1 /\ n + 1 \in 1..n + 1
      BY <1>1
    <3> QED BY <3>1, <1>2, <1>5, <1>6, Zenon
  <2>4. panic' \in BOOLEAN
    BY <1>5, Zenon
  <2> QED BY <1>5, <2>1, <2>2, <2>3, <2>4, Zenon DEF Events!EventsInv, Events!EventsTypeOK
<1>10. LogsSettled'
  <2> SUFFICES ASSUME NEW i \in DOMAIN slots, NEW k \in 1..MaxTasks, slots[i].fn # "none"
               PROVE  LET log == told'[slots[i].fn][k] IN
                      /\ k \notin DOMAIN tid' => log = <<>>
                      /\ k \in DOMAIN tid' \ ended => log = Events!Beginning(slots[i].mask)
                      /\ k \in ended => log \in {<<>>, Events!Story(slots[i].mask)}
    BY <1>5, Zenon DEF LogsSettled, Events!Beginning, Events!Story
  <2>1. told'[slots[i].fn][k] = IF k = n + 1 /\ "created" \in slots[i].mask
                                THEN Append(told[slots[i].fn][k], "created")
                                ELSE told[slots[i].fn][k]
    BY <1>1, <1>5, SentLog
  <2>2. /\ k \notin DOMAIN tid => told[slots[i].fn][k] = <<>>
        /\ k \in DOMAIN tid \ ended => told[slots[i].fn][k] = Events!Beginning(slots[i].mask)
        /\ k \in ended => told[slots[i].fn][k] \in {<<>>, Events!Story(slots[i].mask)}
    BY Zenon DEF Events!EventsInv, Events!None
  <2>3. CASE k = n + 1
    <3>1. told[slots[i].fn][k] = <<>> /\ k \notin ended /\ k \in DOMAIN tid'
      BY <1>1, <1>2, <1>6, <2>2, <2>3
    <3> QED BY <2>1, <2>3, <3>1 DEF Events!Beginning
  <2>4. CASE k # n + 1
    <3>1. k \in DOMAIN tid' <=> k \in DOMAIN tid
      BY <1>1, <1>2, <1>6, <2>4
    <3> QED BY <2>1, <2>2, <2>4, <3>1, Zenon
  <2> QED BY <2>3, <2>4
<1> QED
  <2>1. DOMAIN tid' \subseteq list' \union ended'
    BY <1>1, <1>2, <1>5, <1>6
  <2>2. ~panic' => last_tid' = Len(tid') /\ last_tid' < TidModulus
    BY <1>5, <1>6, <1>7
  <2>3. \A i, j \in DOMAIN slots' :
           slots'[i].fn = slots'[j].fn /\ slots'[i].fn # "none" => i = j
    BY <1>5, Zenon DEF Events!EventsInv, Events!None
  <2> QED BY <1>8, <1>9, <1>10, <2>1, <2>2, <2>3, Zenon DEF Events!EventsInv, Events!None, LogsSettled

\* scheduler_terminate_task(): the log of a task that was alive ends.
LEMMA TerminateEvents ==
  ASSUME Events!EventsInv, ~panic, NEW n, Events!Terminate(n)
  PROVE  Events!EventsInv'
<1>1. /\ n \in list \ ended /\ told' = Events!Sent("terminated", n) /\ ended' = ended \union {n}
      /\ UNCHANGED <<last_tid, tid, list, slots, panic>>
  BY DEF Events!Terminate
<1>2. n \in 1..MaxTasks /\ n \in DOMAIN tid
  <2>1. tid \in Seq(Nat) /\ Len(tid) \in 1..MaxTasks /\ list \subseteq DOMAIN tid
    BY Zenon DEF Events!EventsInv, Events!EventsTypeOK
  <2> QED BY <1>1, <2>1, EventsAssumption
<1>3. Events!EventsTypeOK'
  <2>1. told' \in [Handlers -> [1..MaxTasks -> Seq({"created", "terminated"})]]
    BY <1>1, <1>2, SentType
  <2>2. ended' \subseteq DOMAIN tid'
    BY <1>1, <1>2 DEF Events!EventsInv, Events!EventsTypeOK
  <2> QED BY <1>1, <2>1, <2>2, Zenon DEF Events!EventsInv, Events!EventsTypeOK
<1>4. LogsSettled'
  <2> SUFFICES ASSUME NEW i \in DOMAIN slots, NEW k \in 1..MaxTasks, slots[i].fn # "none"
               PROVE  LET log == told'[slots[i].fn][k] IN
                      /\ k \notin DOMAIN tid => log = <<>>
                      /\ k \in DOMAIN tid \ ended' => log = Events!Beginning(slots[i].mask)
                      /\ k \in ended' => log \in {<<>>, Events!Story(slots[i].mask)}
    BY <1>1, Zenon DEF LogsSettled, Events!Beginning, Events!Story
  <2>1. told'[slots[i].fn][k] = IF k = n /\ "terminated" \in slots[i].mask
                                THEN Append(told[slots[i].fn][k], "terminated")
                                ELSE told[slots[i].fn][k]
    BY <1>1, <1>2, SentLog
  <2>2. /\ k \notin DOMAIN tid => told[slots[i].fn][k] = <<>>
        /\ k \in DOMAIN tid \ ended => told[slots[i].fn][k] = Events!Beginning(slots[i].mask)
        /\ k \in ended => told[slots[i].fn][k] \in {<<>>, Events!Story(slots[i].mask)}
    BY Zenon DEF Events!EventsInv, Events!None
  <2>3. CASE k = n
    <3>1. told[slots[i].fn][k] = Events!Beginning(slots[i].mask) /\ k \in ended' /\ k \in DOMAIN tid
      BY <1>1, <1>2, <2>2, <2>3
    <3> QED BY <2>1, <2>3, <3>1, Zenon DEF Events!Story
  <2>4. CASE k # n
    BY <1>1, <2>1, <2>2, <2>4
  <2> QED BY <2>3, <2>4
<1> QED BY <1>1, <1>3, <1>4 DEF Events!EventsInv, Events!None, LogsSettled

\* free_task(): a task that has ended leaves the list.
LEMMA FreeTaskEvents ==
  ASSUME Events!EventsInv, NEW n, Events!free_task(n)
  PROVE  Events!EventsInv'
<1>1. n \in ended /\ list' = list \ {n} /\ UNCHANGED <<last_tid, tid, ended, slots, told, panic>>
  BY DEF Events!free_task
<1>2. list' \subseteq DOMAIN tid' /\ DOMAIN tid' \subseteq list' \union ended'
  BY <1>1 DEF Events!EventsInv, Events!EventsTypeOK
<1>3. Events!EventsTypeOK'
  BY <1>1, <1>2, Zenon DEF Events!EventsInv, Events!EventsTypeOK
<1>4. LogsSettled'
  BY <1>1, Zenon DEF Events!EventsInv, Events!None, LogsSettled, Events!Beginning, Events!Story
<1> QED BY <1>1, <1>2, <1>3, <1>4, Zenon DEF Events!EventsInv, Events!None, LogsSettled

\* register_task_event_handler(): the new handler hears of the tasks that are alive.
LEMMA RegisterEvents ==
  ASSUME Events!EventsInv, NEW h \in Handlers, NEW m \in Events!Masks,
         Events!register_task_event_handler(h, m)
  PROVE  Events!EventsInv'
<1> USE EventsAssumption
<1> DEFINE S == {"created", "terminated"}
           free == {i \in DOMAIN slots : slots[i].fn = "none"}
<1>1. PICK c : /\ slots' = [slots EXCEPT ![c] = [fn |-> h, mask |-> m]]
               /\ free # {} => c = CHOOSE i \in free : \A j \in free : i =< j
  BY DEF Events!register_task_event_handler, Events!None
<1>2. /\ \A i \in DOMAIN slots : slots[i].fn # h
      /\ told' = [told EXCEPT ![h] = Events!Replayed(m)]
      /\ UNCHANGED <<last_tid, tid, list, ended, panic>>
  BY DEF Events!register_task_event_handler
<1>3. /\ slots \in [1..HandlerCount -> [fn : Handlers \union {"none"}, mask : SUBSET S]]
      /\ told \in [Handlers -> [1..MaxTasks -> Seq(S)]]
  BY DEF Events!EventsInv, Events!EventsTypeOK, Events!None
<1>4. slots' \in [1..HandlerCount -> [fn : Handlers \union {"none"}, mask : SUBSET S]]
  BY <1>1, <1>3 DEF Events!Masks
<1>5. Events!Replayed(m) \in [1..MaxTasks -> Seq(S)]
  <2>1. <<"created">> \in Seq(S) /\ <<>> \in Seq(S)
    OBVIOUS
  <2> QED BY <2>1 DEF Events!Replayed
<1>6. told' \in [Handlers -> [1..MaxTasks -> Seq(S)]]
  BY <1>2, <1>3, <1>5
<1>7. Events!EventsTypeOK'
  BY <1>2, <1>4, <1>6, Zenon DEF Events!EventsInv, Events!EventsTypeOK, Events!None
<1>8. ASSUME NEW i \in DOMAIN slots'
      PROVE  /\ i \in DOMAIN slots
             /\ i = c => slots'[i].fn = h /\ slots'[i].mask = m
             /\ i # c => slots'[i] = slots[i] /\ slots'[i].fn # h
  BY <1>1, <1>2, <1>3
<1>9. \A i, j \in DOMAIN slots' : slots'[i].fn = slots'[j].fn /\ slots'[i].fn # "none" => i = j
  BY <1>8, Zenon DEF Events!EventsInv, Events!None
<1>10. LogsSettled'
  <2> SUFFICES ASSUME NEW i \in DOMAIN slots', NEW k \in 1..MaxTasks, slots'[i].fn # "none"
               PROVE  LET log == told'[slots'[i].fn][k] IN
                      /\ k \notin DOMAIN tid => log = <<>>
                      /\ k \in DOMAIN tid \ ended => log = Events!Beginning(slots'[i].mask)
                      /\ k \in ended => log \in {<<>>, Events!Story(slots'[i].mask)}
    BY <1>2, Zenon DEF LogsSettled, Events!Beginning, Events!Story
  <2>1. CASE i = c
    <3>1. told'[h][k] = IF "created" \in m /\ k \in list \ ended THEN <<"created">> ELSE <<>>
      BY <1>2, <1>3 DEF Events!Replayed
    <3>2. k \in list \ ended <=> k \in DOMAIN tid \ ended
      BY DEF Events!EventsInv, Events!EventsTypeOK
    <3>3. slots'[i].fn = h /\ slots'[i].mask = m /\ (k \in ended => k \in DOMAIN tid)
      BY <2>1, <1>8 DEF Events!EventsInv, Events!EventsTypeOK
    <3> QED BY <3>1, <3>2, <3>3, Zenon DEF Events!Beginning
  <2>2. CASE i # c
    <3>1. slots'[i] = slots[i] /\ slots[i].fn # h /\ i \in DOMAIN slots /\ slots[i].fn # "none"
      BY <2>2, <1>8
    <3>2. told'[slots[i].fn] = told[slots[i].fn]
      BY <3>1, <1>2, <1>3
    <3> QED BY <3>1, <3>2, Zenon DEF Events!EventsInv, Events!None
  <2> QED BY <2>1, <2>2
<1> QED BY <1>2, <1>7, <1>9, <1>10, Zenon DEF Events!EventsInv, Events!None, LogsSettled

\* remove_task_event_handler(): the slot is free, and nobody else's log changes.
LEMMA RemoveEvents ==
  ASSUME Events!EventsInv, NEW h \in Handlers, Events!remove_task_event_handler(h)
  PROVE  Events!EventsInv'
<1> USE EventsAssumption
<1> DEFINE S == {"created", "terminated"}
<1>1. PICK c \in DOMAIN slots :
        /\ slots[c].fn = h /\ slots' = [slots EXCEPT ![c].fn = "none"]
        /\ told' = [told EXCEPT ![h] = Events!Silence]
        /\ UNCHANGED <<last_tid, tid, list, ended, panic>>
  BY DEF Events!remove_task_event_handler, Events!None
<1>2. /\ slots \in [1..HandlerCount -> [fn : Handlers \union {"none"}, mask : SUBSET S]]
      /\ told \in [Handlers -> [1..MaxTasks -> Seq(S)]]
  BY DEF Events!EventsInv, Events!EventsTypeOK, Events!None
<1>3. slots' \in [1..HandlerCount -> [fn : Handlers \union {"none"}, mask : SUBSET S]]
  BY <1>1, <1>2
<1>4. Events!Silence \in [1..MaxTasks -> Seq(S)]
  <2>1. <<>> \in Seq(S)
    OBVIOUS
  <2> QED BY <2>1 DEF Events!Silence
<1>5. told' \in [Handlers -> [1..MaxTasks -> Seq(S)]]
  BY <1>1, <1>2, <1>4
<1>6. Events!EventsTypeOK'
  BY <1>1, <1>3, <1>5, Zenon DEF Events!EventsInv, Events!EventsTypeOK, Events!None
<1>7. ASSUME NEW i \in DOMAIN slots'
      PROVE  /\ i \in DOMAIN slots
             /\ i = c => slots'[i].fn = "none"
             /\ i # c => slots'[i] = slots[i]
  BY <1>1, <1>2
<1>8. \A i, j \in DOMAIN slots' : slots'[i].fn = slots'[j].fn /\ slots'[i].fn # "none" => i = j
  BY <1>7, Zenon DEF Events!EventsInv, Events!None
<1>9. LogsSettled'
  <2> SUFFICES ASSUME NEW i \in DOMAIN slots', NEW k \in 1..MaxTasks, slots'[i].fn # "none"
               PROVE  LET log == told'[slots'[i].fn][k] IN
                      /\ k \notin DOMAIN tid => log = <<>>
                      /\ k \in DOMAIN tid \ ended => log = Events!Beginning(slots'[i].mask)
                      /\ k \in ended => log \in {<<>>, Events!Story(slots'[i].mask)}
    BY <1>1, Zenon DEF LogsSettled, Events!Beginning, Events!Story
  <2>1. i # c /\ i \in DOMAIN slots /\ slots'[i] = slots[i] /\ slots[i].fn # "none"
    BY <1>7
  <2>2. slots[i].fn # h
    BY <2>1, <1>1, Zenon DEF Events!EventsInv, Events!None
  <2>3. told'[slots[i].fn] = told[slots[i].fn]
    BY <2>1, <2>2, <1>1, <1>2
  <2>4. /\ k \notin DOMAIN tid => told[slots[i].fn][k] = <<>>
        /\ k \in DOMAIN tid \ ended => told[slots[i].fn][k] = Events!Beginning(slots[i].mask)
        /\ k \in ended => told[slots[i].fn][k] \in {<<>>, Events!Story(slots[i].mask)}
    BY <2>1, Zenon DEF Events!EventsInv, Events!None
  <2> QED BY <2>1, <2>3, <2>4, Zenon
<1>10. UNCHANGED <<last_tid, tid, list, ended, panic>>
  BY <1>1
<1> QED BY <1>10, <1>6, <1>8, <1>9, Zenon DEF Events!EventsInv, Events!None, LogsSettled

\* A step of another part.
LEMMA EventsUnchanged ==
  ASSUME Events!EventsInv, UNCHANGED eventVars
  PROVE  Events!EventsInv'
BY Zenon DEF eventVars, Events!EventsInv, Events!EventsTypeOK, Events!None, Events!Beginning,
   Events!Story

\* Each step of the system keeps the invariant.
LEMMA EventsStep ==
  ASSUME Events!EventsInv, [CoreNext]_allVars
  PROVE  Events!EventsInv'
<1>1. CASE Events!Next
  <2>1. ~panic
    BY <1>1 DEF Events!Next
  <2>2. CASE Events!create_task
    BY <2>1, <2>2, CreateTaskEvents
  <2>3. CASE \E k \in list : Events!Terminate(k) \/ Events!free_task(k)
    BY <2>1, <2>3, TerminateEvents, FreeTaskEvents
  <2>4. CASE \E h \in Handlers : \E m \in Events!Masks : Events!register_task_event_handler(h, m)
    BY <2>4, RegisterEvents
  <2>5. CASE \E h \in Handlers : Events!remove_task_event_handler(h)
    BY <2>5, RemoveEvents
  <2> QED BY <1>1, <2>2, <2>3, <2>4, <2>5, Zenon DEF Events!Next
<1>2. CASE UNCHANGED eventVars
  BY <1>2, EventsUnchanged
<1> QED BY <1>1, <1>2, Zenon DEF CoreNext, allVars

\* The invariant says what the properties say.
LEMMA EventsAreExact ==
  ASSUME Events!EventsInv
  PROVE  Events!ToldOnce /\ Events!NoNewsOfTheDead /\ Events!TidsUnique
<1> DEFINE S == {"created", "terminated"}
<1>1. Append(<<"created">>, "terminated") = <<"created", "terminated">>
  <2>0. <<"created">> \in Seq(S) /\ <<"created", "terminated">> \in Seq(S)
    OBVIOUS
  <2>1. PICK b \in Seq(S) : b = <<"created">>
    BY <2>0, Zenon
  <2>2. PICK s \in Seq(S) : s = Append(b, "terminated")
    <3>1. Append(b, "terminated") \in Seq(S)
      OBVIOUS
    <3> QED BY <3>1, Zenon
  <2>3. Len(s) = 2 /\ s[1] = "created" /\ s[2] = "terminated"
    BY <2>1, <2>2
  <2>4. PICK r \in Seq(S) : r = <<"created", "terminated">>
    BY <2>0, Zenon
  <2>5. Len(r) = 2 /\ r[1] = "created" /\ r[2] = "terminated"
    BY <2>4
  <2>6. s = r
    BY <2>3, <2>5
  <2> QED BY <2>1, <2>2, <2>4, <2>6
<1>2. Append(<<>>, "terminated") = <<"terminated">>
  OBVIOUS
<1>3. /\ <<"created">> # <<>> /\ <<"terminated">> # <<>> /\ <<"created">> # <<"terminated">>
      /\ <<"created", "terminated">> # <<"created">>
      /\ <<"created", "terminated">> # <<"terminated">>
  OBVIOUS
<1>4. ASSUME NEW m \in SUBSET S
      PROVE  /\ Events!Beginning(m) = IF "created" \in m THEN <<"created">> ELSE <<>>
             /\ Events!Story(m) \in Events!Histories
             /\ m = S => Events!Story(m) = <<"created", "terminated">>
  BY <1>1, <1>2 DEF Events!Beginning, Events!Story, Events!Histories
<1>5. ASSUME NEW i \in DOMAIN slots, NEW k \in 1..MaxTasks, slots[i].fn # "none"
      PROVE  /\ slots[i].mask \in SUBSET S
             /\ told[slots[i].fn][k] \in {<<>>, Events!Beginning(slots[i].mask),
                                          Events!Story(slots[i].mask)}
             /\ k \in list \ ended =>
                    told[slots[i].fn][k] = Events!Beginning(slots[i].mask)
             /\ k \notin ended => told[slots[i].fn][k] \in {<<>>, Events!Beginning(slots[i].mask)}
             /\ k \in ended => told[slots[i].fn][k] \in {<<>>, Events!Story(slots[i].mask)}
  <2>1. slots \in [1..HandlerCount -> [fn : Handlers \union {"none"}, mask : SUBSET S]]
    BY DEF Events!EventsInv, Events!EventsTypeOK, Events!None
  <2>2. slots[i].mask \in SUBSET S
    BY <2>1
  <2>3. list \subseteq DOMAIN tid
    BY DEF Events!EventsInv, Events!EventsTypeOK
  <2> QED BY <1>5, <2>2, <2>3, Zenon DEF Events!EventsInv, Events!None
<1>6. Events!ToldOnce
  <2> SUFFICES ASSUME NEW i \in DOMAIN slots, NEW k \in 1..MaxTasks, slots[i].fn # "none"
               PROVE  /\ told[slots[i].fn][k] \in Events!Histories
                      /\ "created" \in slots[i].mask /\ k \in list \ ended =>
                             told[slots[i].fn][k] = <<"created">>
                      /\ slots[i].mask = S => told[slots[i].fn][k] # <<"terminated">>
    BY Zenon DEF Events!ToldOnce, Events!None
  <2>1. told[slots[i].fn][k] \in Events!Histories
    BY <1>4, <1>5, Zenon DEF Events!Histories
  <2>2. "created" \in slots[i].mask /\ k \in list \ ended => told[slots[i].fn][k] = <<"created">>
    BY <1>4, <1>5, Zenon
  <2>3. slots[i].mask = S => told[slots[i].fn][k] # <<"terminated">>
    <3>1. "created" \in S
      OBVIOUS
    <3> QED BY <1>3, <1>4, <1>5, <3>1, Zenon
  <2> QED BY <2>1, <2>2, <2>3
<1>7. Events!NoNewsOfTheDead
  <2> SUFFICES ASSUME NEW i \in DOMAIN slots, NEW k \in ended, slots[i].fn # "none",
                      slots[i].mask = S
               PROVE  told[slots[i].fn][k] # <<"created">>
    BY Zenon DEF Events!NoNewsOfTheDead, Events!None
  <2>1. k \in 1..MaxTasks
    <3>1. tid \in Seq(Nat) /\ Len(tid) \in 1..MaxTasks /\ ended \subseteq DOMAIN tid
      BY Zenon DEF Events!EventsInv, Events!EventsTypeOK
    <3> QED BY <3>1, EventsAssumption
  <2> QED BY <2>1, <1>3, <1>4, <1>5, Zenon
<1>8. Events!TidsUnique
  <2>1. ~panic => tid \in Seq(Nat) /\ \A k \in DOMAIN tid : tid[k] = k
    BY Zenon DEF Events!EventsInv, Events!EventsTypeOK
  <2> QED BY <2>1 DEF Events!TidsUnique
<1> QED BY <1>6, <1>7, <1>8

\* tasks.c: see EventsExact.
THEOREM CoreEventsExact == CoreSpec => []EventsExact
<1>1. CoreInit => Events!EventsInv
  BY EventsInitial DEF CoreInit
<1>2. Events!EventsInv /\ [CoreNext]_allVars => Events!EventsInv'
  BY EventsStep
<1>3. Events!EventsInv => EventsExact
  BY EventsAreExact DEF EventsExact
<1> QED BY <1>1, <1>2, <1>3, PTL DEF CoreSpec

-----------------------------------------------------------------------------
\* The queue of bottom halves as a sequence.
QueueIs(s) ==
    /\ s \in Seq(Interrupts) /\ Irq!IsChain(s)
    /\ \A i, j \in 1..Len(s) : s[i] = s[j] => i = j
    /\ \A n \in Interrupts : (\E i \in 1..Len(s) : s[i] = n) <=>
                                 queued[n] /\ ~(dequeued /\ n = running)

\* The library's definition is used under two names.
LEMMA SameCardinality == Irq!Cardinality(Interrupts) = Cardinality(Interrupts)
BY DEF Irq!Cardinality, Cardinality

\* The linked list is well formed when it is such a sequence.
LEMMA WellFormedChain == Irq!QueueWellFormed <=> \E s : QueueIs(s)
<1>1. ASSUME NEW s, QueueIs(s)
      PROVE  Irq!QueueWellFormed
  <2>1. s \in Seq(Interrupts) /\ Len(s) \in 0..Cardinality(Interrupts)
    BY <1>1, InjectiveLength, InterruptsAssumption DEF QueueIs
  <2>2. s \in [1..Len(s) -> Interrupts]
    BY <2>1
  <2>3. s \in Irq!Chains
    <3>1. s \in UNION {[1..k -> Interrupts] : k \in 0..Irq!Cardinality(Interrupts)}
      <4>1. [1..Len(s) -> Interrupts] \in
              {[1..k -> Interrupts] : k \in 0..Irq!Cardinality(Interrupts)}
        BY <2>1, SameCardinality, Zenon
      <4> QED BY <2>2, <4>1, Zenon
    <3> QED BY <1>1, <3>1, Zenon DEF Irq!Chains, QueueIs
  <2>4. {s[i] : i \in 1..Len(s)} = {n \in Interrupts : queued[n] /\ ~(dequeued /\ n = running)}
    BY <1>1, <2>2 DEF QueueIs
  <2> QED BY <1>1, <2>3, <2>4, Zenon DEF QueueIs, Irq!QueueWellFormed
<1>2. ASSUME Irq!QueueWellFormed
      PROVE  \E s : QueueIs(s)
  <2>1. PICK s \in Irq!Chains :
          /\ \A i, j \in 1..Len(s) : s[i] = s[j] => i = j
          /\ {s[i] : i \in 1..Len(s)} =
               {n \in Interrupts : queued[n] /\ ~(dequeued /\ n = running)}
    BY <1>2, Zenon DEF Irq!QueueWellFormed
  <2>2. PICK k \in 0..Irq!Cardinality(Interrupts) : s \in [1..k -> Interrupts]
    <3>1. PICK F \in {[1..k -> Interrupts] : k \in 0..Irq!Cardinality(Interrupts)} : s \in F
      BY Zenon DEF Irq!Chains
    <3> QED BY <3>1, Zenon
  <2>3. k \in Nat
    BY SameCardinality, InterruptsAssumption, FS_CardinalityType
  <2>4. s \in Seq(Interrupts)
    BY <2>2, <2>3
  <2>5. \A n \in Interrupts : (\E i \in 1..Len(s) : s[i] = n) <=>
                                  queued[n] /\ ~(dequeued /\ n = running)
    BY <2>1
  <2> QED BY <2>1, <2>4, <2>5, Zenon DEF QueueIs, Irq!Chains
<1> QED BY <1>1, <1>2

\* The list is determined by head and next.
LEMMA ChainAgrees ==
  ASSUME NEW s \in Seq(Interrupts), NEW t \in Seq(Interrupts), Irq!IsChain(s), Irq!IsChain(t),
         NEW k \in 1..Len(s)
  PROVE  k <= Len(t) /\ s[k] = t[k]
<1> USE InterruptsAssumption
<1> DEFINE T == {i \in 1..Len(s) : ~(i <= Len(t) /\ s[i] = t[i])}
<1>1. SUFFICES ASSUME T # {} PROVE FALSE
  OBVIOUS
<1>2. T \in SUBSET Nat
  OBVIOUS
<1>3. PICK i \in T : \A j \in T : i <= j
  <2> HIDE DEF T
  <2> QED BY <1>1, <1>2, LeastNat
<1>4. i \in 1..Len(s) /\ ~(i <= Len(t) /\ s[i] = t[i])
  OBVIOUS
<1>5. CASE i = 1
  <2>1. s # <<>> /\ head = s[1] /\ s[1] \in Interrupts
    BY <1>4, <1>5 DEF Irq!IsChain
  <2>2. t # <<>>
    BY <2>1 DEF Irq!IsChain
  <2>3. head = t[1] /\ 1 <= Len(t)
    BY <2>2 DEF Irq!IsChain
  <2> QED BY <1>4, <1>5, <2>1, <2>3
<1>6. CASE i # 1
  <2>1. i - 1 \in 1..Len(s) /\ i - 1 # Len(s) /\ i - 1 \notin T
    BY <1>3, <1>4, <1>6
  <2>2. i - 1 <= Len(t) /\ s[i - 1] = t[i - 1]
    BY <2>1
  <2>3. next[s[i - 1]] = s[i] /\ s[i] \in Interrupts
    BY <2>1, <1>4 DEF Irq!IsChain
  <2>4. i - 1 \in 1..Len(t)
    BY <2>1, <2>2
  <2>5. next[t[i - 1]] = IF i - 1 = Len(t) THEN NoInterrupt ELSE t[i]
    BY <2>4 DEF Irq!IsChain
  <2>6. i - 1 # Len(t) /\ s[i] = t[i]
    BY <2>2, <2>3, <2>5
  <2> QED BY <1>4, <2>2, <2>6
<1> QED BY <1>5, <1>6

\* So there is one such sequence.
LEMMA ChainUnique ==
  ASSUME NEW s \in Seq(Interrupts), NEW t \in Seq(Interrupts), Irq!IsChain(s), Irq!IsChain(t)
  PROVE  s = t
<1>1. Len(s) \in Nat /\ Len(t) \in Nat
  OBVIOUS
<1>2. \A k \in 1..Len(s) : k <= Len(t) /\ s[k] = t[k]
  BY ChainAgrees
<1>3. \A k \in 1..Len(t) : k <= Len(s)
  BY ChainAgrees
<1>4. Len(s) = Len(t)
  BY <1>1, <1>2, <1>3
<1> QED BY <1>2, <1>4

\* Line is that sequence.
LEMMA LineIs ==
  ASSUME NEW s, QueueIs(s)
  PROVE  Irq!Line = s
<1>1. s \in Seq(Interrupts) /\ Irq!IsChain(s)
  BY DEF QueueIs
<1>2. \E c : c \in Irq!Chains
  BY WellFormedChain, Zenon DEF Irq!QueueWellFormed
<1>3. Irq!Line \in Irq!Chains
  BY <1>2, Zenon DEF Irq!Line
<1>4. PICK k \in 0..Irq!Cardinality(Interrupts) : Irq!Line \in [1..k -> Interrupts]
  <2>1. PICK F \in {[1..k -> Interrupts] : k \in 0..Irq!Cardinality(Interrupts)} : Irq!Line \in F
    BY <1>3, Zenon DEF Irq!Chains
  <2> QED BY <2>1, Zenon
<1>5. k \in Nat
  BY SameCardinality, InterruptsAssumption, FS_CardinalityType
<1>6. Irq!Line \in Seq(Interrupts)
  BY <1>4, <1>5
<1>7. Irq!IsChain(Irq!Line)
  BY <1>3, Zenon DEF Irq!Chains
<1> QED BY <1>1, <1>6, <1>7, ChainUnique

\* The same facts about the next state.
LEMMA NextChain ==
  /\ Irq!QueueWellFormed' <=> \E s : QueueIs(s)'
  /\ \A s : QueueIs(s)' => Irq!Line' = s
<1>1. (Irq!QueueWellFormed <=> \E s : QueueIs(s))'
  BY WellFormedChain, PTL
<1>2. \A s : QueueIs(s) => Irq!Line = s
  BY LineIs
<1>3. (\A s : QueueIs(s) => Irq!Line = s)'
  BY <1>2, PTL
<1> QED BY <1>1, <1>3, Zenon

\* What a step may do to the queue (see Irq!QueueIsFifo).
FifoStep ==
    \/ Irq!Line' = Irq!Line
    \/ \E n \in Interrupts : Irq!Line' = Append(Irq!Line, n)
    \/ Irq!Line # <<>> /\ Irq!Line' = Tail(Irq!Line) /\ running' = Head(Irq!Line)

\* A step that leaves the list alone, and the set of entries that belong in it.
LEMMA SameQueue ==
  ASSUME NEW s, QueueIs(s), UNCHANGED <<next, head, tail>>,
         \A n \in Interrupts : queued'[n] /\ ~(dequeued' /\ n = running')
                                   <=> queued[n] /\ ~(dequeued /\ n = running)
  PROVE  QueueIs(s)'
<1>1. Irq!IsChain(s)'
  BY DEF QueueIs, Irq!IsChain
<1> QED BY <1>1, Zenon DEF QueueIs

\* Nothing is registered at boot, and nothing is queued.
LEMMA HandlerInitial == Irq!Init => Irq!HandlerInv
<1> SUFFICES ASSUME Irq!Init PROVE Irq!HandlerInv
  OBVIOUS
<1> USE InterruptsAssumption
<1>1. /\ queued = [n \in Interrupts |-> FALSE] /\ next = [n \in Interrupts |-> NoInterrupt]
      /\ head = NoInterrupt /\ tail = NoInterrupt /\ dequeued = FALSE /\ phase = "none"
      /\ interrupt_level = 0 /\ running = NoInterrupt
  BY DEF Irq!Init
<1>2. Irq!HandlerTypeOK
  BY DEF Irq!Init, Irq!HandlerTypeOK
<1>3. QueueIs(<<>>)
  <2>1. <<>> \in Seq(Interrupts) /\ Len(<<>>) = 0
    OBVIOUS
  <2>2. Irq!IsChain(<<>>)
    BY <1>1, <2>1 DEF Irq!IsChain
  <2> QED BY <1>1, <2>1, <2>2 DEF QueueIs
<1> QED BY <1>1, <1>2, <1>3, WellFormedChain DEF Irq!HandlerInv

\* register_interrupt_handler() runs in a task, when the queue is empty.
LEMMA RegisterHandler ==
  ASSUME Irq!HandlerInv, NEW s, QueueIs(s), NEW n \in Interrupts, NEW top \in BOOLEAN,
         NEW bottom \in BOOLEAN, Irq!Register(n, top, bottom)
  PROVE  Irq!HandlerInv' /\ QueueIs(s)'
<1> USE InterruptsAssumption
<1>1. /\ interrupt_level = 0 /\ queued' = [queued EXCEPT ![n] = FALSE]
      /\ next' = [next EXCEPT ![n] = NoInterrupt]
      /\ UNCHANGED <<head, tail, interrupt_level, phase, running, dequeued, owed>>
  BY DEF Irq!Register
<1>2. /\ phase = "none" /\ head = NoInterrupt /\ queued \in [Interrupts -> BOOLEAN]
      /\ next \in [Interrupts -> Interrupts \cup {NoInterrupt}] /\ ~dequeued
      /\ s \in Seq(Interrupts)
  BY <1>1 DEF Irq!HandlerInv, Irq!HandlerTypeOK, QueueIs
<1>3. s = <<>>
  <2>1. CASE s # <<>>
    <3>1. head = s[1] /\ s[1] \in Interrupts
      BY <1>2, <2>1 DEF QueueIs, Irq!IsChain
    <3> QED BY <1>2, <3>1
  <2> QED BY <2>1
<1>4. ~queued'[n] /\ \A x \in Interrupts : ~queued'[x]
  <2>1. \A x \in Interrupts : ~queued[x]
    BY <1>2, <1>3 DEF QueueIs
  <2> QED BY <1>1, <1>2, <2>1
<1>5. QueueIs(s)'
  <2>1. Irq!IsChain(s)'
    BY <1>1, <1>3 DEF QueueIs, Irq!IsChain
  <2> QED BY <1>3, <1>4, <2>1 DEF QueueIs
<1>6. Irq!HandlerTypeOK'
  BY DEF Irq!Register, Irq!HandlerInv, Irq!HandlerTypeOK
<1>7. Irq!QueueWellFormed'
  BY <1>5, NextChain
<1> QED BY <1>1, <1>2, <1>5, <1>6, <1>7, Zenon DEF Irq!HandlerInv

\* A level 1 interrupt leaves the queue alone.
LEMMA Level1Handler ==
  ASSUME Irq!HandlerInv, NEW s, QueueIs(s), NEW n \in Interrupts, Irq!Level1(n)
  PROVE  Irq!HandlerInv' /\ QueueIs(s)'
<1> USE InterruptsAssumption
<1>1. /\ phase = "none" /\ interrupt_level' = interrupt_level + 1
      /\ UNCHANGED <<top_half, bottom_half, enabled, queued, next, head, tail>>
      /\ \/ /\ running' = n /\ dequeued' = FALSE /\ phase' = "bottom"
            /\ owed' = [owed EXCEPT ![n] = FALSE]
         \/ phase' = "masked" /\ UNCHANGED <<running, dequeued, owed>>
  BY DEF Irq!Level1, Irq!Start, Irq!tableVars, Irq!queueVars
<1>2. ~dequeued /\ ~dequeued' /\ interrupt_level = 0 /\ running = NoInterrupt
      /\ dequeued \in BOOLEAN
  BY <1>1 DEF Irq!HandlerInv, Irq!HandlerTypeOK
<1>3. QueueIs(s)'
  BY <1>1, <1>2, SameQueue
<1>4. Irq!HandlerTypeOK'
  <2>1. owed' \in [Interrupts -> BOOLEAN]
    BY <1>1 DEF Irq!HandlerInv, Irq!HandlerTypeOK
  <2>2. running' \in Interrupts \cup {NoInterrupt} /\ dequeued' \in BOOLEAN
    BY <1>1, <1>2
  <2>3. phase' \in {"none", "bottom", "loop", "masked"}
    BY <1>1
  <2>4. /\ top_half' \in [Interrupts -> BOOLEAN] /\ bottom_half' \in [Interrupts -> BOOLEAN]
        /\ enabled' \in [Interrupts -> BOOLEAN] /\ queued' \in [Interrupts -> BOOLEAN]
        /\ next' \in [Interrupts -> Interrupts \cup {NoInterrupt}]
        /\ head' \in Interrupts \cup {NoInterrupt}
    BY <1>1, Zenon DEF Irq!HandlerInv, Irq!HandlerTypeOK
  <2> QED BY <2>1, <2>2, <2>3, <2>4, Zenon DEF Irq!HandlerTypeOK
<1>5. Irq!QueueWellFormed'
  BY <1>3, NextChain
<1>6. running' # NoInterrupt <=> phase' = "bottom"
  BY <1>1, <1>2
<1>7. interrupt_level' = IF phase' = "none" THEN 0 ELSE 1
  BY <1>1, <1>2
<1>8. phase' # "none"
  BY <1>1
<1> QED BY <1>2, <1>3, <1>4, <1>5, <1>6, <1>7, <1>8, Zenon DEF Irq!HandlerInv

\* The bottom half returns: the flag that is cleared is not that of an entry in the queue.
LEMMA BottomReturnHandler ==
  ASSUME Irq!HandlerInv, NEW s, QueueIs(s), Irq!BottomReturn
  PROVE  Irq!HandlerInv' /\ QueueIs(s)'
<1> USE InterruptsAssumption
<1>1. /\ phase = "bottom" /\ phase' = "loop" /\ running' = NoInterrupt /\ dequeued' = FALSE
      /\ queued' = IF dequeued THEN [queued EXCEPT ![running] = FALSE] ELSE queued
      /\ UNCHANGED <<top_half, bottom_half, enabled, next, head, tail, interrupt_level, owed>>
  BY DEF Irq!BottomReturn, Irq!tableVars
<1>2. /\ running \in Interrupts /\ interrupt_level = 1 /\ queued \in [Interrupts -> BOOLEAN]
      /\ dequeued \in BOOLEAN
  BY <1>1 DEF Irq!HandlerInv, Irq!HandlerTypeOK
<1>3. queued' \in [Interrupts -> BOOLEAN]
  BY <1>1, <1>2
<1>4. \A n \in Interrupts : queued'[n] <=> queued[n] /\ ~(dequeued /\ n = running)
  BY <1>1, <1>2
<1>5. QueueIs(s)'
  BY <1>1, <1>4, SameQueue, Zenon
<1>6. Irq!HandlerTypeOK'
  BY <1>1, <1>3, Zenon DEF Irq!HandlerInv, Irq!HandlerTypeOK
<1>7. Irq!QueueWellFormed'
  BY <1>5, NextChain
<1>8. interrupt_level' = IF phase' = "none" THEN 0 ELSE 1
  BY <1>1, <1>2
<1>9. running' = NoInterrupt /\ phase' # "bottom" /\ phase' # "none" /\ ~dequeued'
  BY <1>1
<1> QED BY <1>5, <1>6, <1>7, <1>8, <1>9, Zenon DEF Irq!HandlerInv

\* The loop ends the interrupt when the queue is empty.
LEMMA EndHandler ==
  ASSUME Irq!HandlerInv, NEW s, QueueIs(s), Irq!End
  PROVE  Irq!HandlerInv' /\ QueueIs(s)'
<1> USE InterruptsAssumption
<1>1. /\ phase \in {"loop", "masked"} /\ head = NoInterrupt /\ phase' = "none"
      /\ interrupt_level' = interrupt_level - 1
      /\ UNCHANGED <<top_half, bottom_half, enabled, queued, next, head, tail, running, dequeued,
                     owed>>
  BY DEF Irq!End, Irq!tableVars, Irq!queueVars
<1>2. interrupt_level' = 0 /\ running = NoInterrupt /\ ~dequeued
  BY <1>1 DEF Irq!HandlerInv
<1>3. QueueIs(s)'
  BY <1>1, SameQueue, Zenon
<1>4. Irq!HandlerTypeOK'
  BY <1>1, Zenon DEF Irq!HandlerInv, Irq!HandlerTypeOK
<1>5. Irq!QueueWellFormed'
  BY <1>3, NextChain
<1>6. interrupt_level' = IF phase' = "none" THEN 0 ELSE 1
  BY <1>1, <1>2
<1>7. running' = NoInterrupt /\ phase' # "bottom" /\ head' = NoInterrupt /\ ~dequeued'
  BY <1>1, <1>2
<1> QED BY <1>3, <1>4, <1>5, <1>6, <1>7, Zenon DEF Irq!HandlerInv

\* A level 2 interrupt appends its entry, if the flag says that it is not in the queue yet.
LEMMA Level2Handler ==
  ASSUME Irq!HandlerInv, NEW s, QueueIs(s), NEW n \in Interrupts, Irq!Level2(n)
  PROVE  Irq!HandlerInv' /\ (QueueIs(s)' \/ QueueIs(Append(s, n))')
<1> USE InterruptsAssumption
<1>1. /\ interrupt_level = 1 /\ phase \in {"bottom", "loop"}
      /\ owed' = [owed EXCEPT ![n] = bottom_half[n]]
      /\ UNCHANGED <<top_half, bottom_half, enabled, interrupt_level, phase, running, dequeued>>
      /\ \/ /\ ~queued[n] /\ tail' = n /\ queued' = [queued EXCEPT ![n] = TRUE]
            /\ head' = IF head = NoInterrupt THEN n ELSE head
            /\ next' = IF head = NoInterrupt THEN [next EXCEPT ![n] = NoInterrupt]
                         ELSE [next EXCEPT ![tail] = n, ![n] = NoInterrupt]
         \/ UNCHANGED <<queued, next, head, tail>>
  BY DEF Irq!Level2, Irq!tableVars, Irq!queueVars
<1>2. /\ queued \in [Interrupts -> BOOLEAN] /\ owed \in [Interrupts -> BOOLEAN]
      /\ bottom_half \in [Interrupts -> BOOLEAN]
      /\ next \in [Interrupts -> Interrupts \cup {NoInterrupt}] /\ dequeued \in BOOLEAN
      /\ head \in Interrupts \cup {NoInterrupt}
  BY Zenon DEF Irq!HandlerInv, Irq!HandlerTypeOK
<1>3. dequeued => queued[running]
  BY Zenon DEF Irq!HandlerInv
<1>4. /\ s \in Seq(Interrupts) /\ Irq!IsChain(s) /\ Len(s) \in Nat
      /\ \A i, j \in 1..Len(s) : s[i] = s[j] => i = j
      /\ \A m \in Interrupts : (\E i \in 1..Len(s) : s[i] = m) <=>
                                   queued[m] /\ ~(dequeued /\ m = running)
  BY DEF QueueIs
<1>5. /\ queued' \in [Interrupts -> BOOLEAN] /\ owed' \in [Interrupts -> BOOLEAN]
      /\ next' \in [Interrupts -> Interrupts \cup {NoInterrupt}]
      /\ head' \in Interrupts \cup {NoInterrupt}
  <2>1. bottom_half[n] \in BOOLEAN
    BY <1>2
  <2>2. owed' \in [Interrupts -> BOOLEAN] /\ queued' \in [Interrupts -> BOOLEAN]
    BY <1>1, <1>2, <2>1
  <2>3. next' \in [Interrupts -> Interrupts \cup {NoInterrupt}]
    BY <1>1, <1>2
  <2> QED BY <1>1, <1>2, <2>2, <2>3
<1>6. QueueIs(s)' \/ QueueIs(Append(s, n))'
  <2>1. CASE UNCHANGED <<queued, next, head, tail>>
    BY <1>1, <2>1, SameQueue, Zenon
  <2>2. CASE ~UNCHANGED <<queued, next, head, tail>>
    <3>1. /\ ~queued[n] /\ tail' = n /\ queued' = [queued EXCEPT ![n] = TRUE]
          /\ head' = IF head = NoInterrupt THEN n ELSE head
          /\ next' = IF head = NoInterrupt THEN [next EXCEPT ![n] = NoInterrupt]
                       ELSE [next EXCEPT ![tail] = n, ![n] = NoInterrupt]
      BY <1>1, <2>2, Zenon
    <3> DEFINE t == Append(s, n)
    <3>2. /\ t \in Seq(Interrupts) /\ Len(t) = Len(s) + 1 /\ t[Len(s) + 1] = n
          /\ \A i \in 1..Len(s) : t[i] = s[i] /\ s[i] \in Interrupts
      BY <1>4
    <3> HIDE DEF t
    <3>3. \A i \in 1..Len(s) : s[i] # n
      BY <1>4, <3>1
    <3>4. \A i, j \in 1..Len(t) : t[i] = t[j] => i = j
      <4> SUFFICES ASSUME NEW i \in 1..Len(t), NEW j \in 1..Len(t), t[i] = t[j], i # j
                   PROVE  FALSE
        OBVIOUS
      <4>1. CASE i \in 1..Len(s) /\ j \in 1..Len(s)
        BY <1>4, <3>2, <4>1
      <4>2. CASE i \in 1..Len(s) /\ j = Len(s) + 1
        BY <3>2, <3>3, <4>2
      <4>3. CASE j \in 1..Len(s) /\ i = Len(s) + 1
        BY <3>2, <3>3, <4>3
      <4> QED BY <1>4, <3>2, <4>1, <4>2, <4>3
    <3>5. ~(dequeued' /\ n = running')
      BY <1>1, <1>3, <3>1, Zenon
    <3>6. \A m \in Interrupts : (\E i \in 1..Len(t) : t[i] = m) <=>
                                    queued'[m] /\ ~(dequeued' /\ m = running')
      <4> SUFFICES ASSUME NEW m \in Interrupts
                   PROVE  (\E i \in 1..Len(t) : t[i] = m) <=>
                              queued'[m] /\ ~(dequeued' /\ m = running')
        OBVIOUS
      <4>1. (\E i \in 1..Len(t) : t[i] = m) <=> m = n \/ \E i \in 1..Len(s) : s[i] = m
        BY <1>4, <3>2
      <4>2. queued'[m] <=> m = n \/ queued[m]
        BY <1>2, <3>1
      <4>3. (\E i \in 1..Len(s) : s[i] = m) <=> queued[m] /\ ~(dequeued /\ m = running)
        BY <1>4, Zenon
      <4> QED BY <1>1, <3>5, <4>1, <4>2, <4>3, Zenon
    <3>7. Irq!IsChain(t)'
      <4>1. t # <<>> /\ tail' = t[Len(t)]
        BY <1>4, <3>1, <3>2
      <4>2. CASE s = <<>>
        <5>1. head = NoInterrupt /\ Len(s) = 0
          BY <1>4, <4>2 DEF Irq!IsChain
        <5>2. head' = t[1] /\ Len(t) = 1 /\ t[1] = n
          BY <3>1, <3>2, <5>1
        <5>3. next'[n] = NoInterrupt
          BY <1>2, <3>1, <5>1
        <5>4. \A i \in 1..Len(t) : next'[t[i]] = NoInterrupt /\ i = Len(t)
          BY <5>2, <5>3
        <5> QED BY <4>1, <5>2, <5>4, Zenon DEF Irq!IsChain
      <4>3. CASE s # <<>>
        <5>1. Len(s) >= 1 /\ head = s[1] /\ tail = s[Len(s)] /\ s[1] \in Interrupts
          BY <1>4, <4>3 DEF Irq!IsChain
        <5>2. head' = t[1] /\ next' = [next EXCEPT ![tail] = n, ![n] = NoInterrupt]
          BY <3>1, <3>2, <5>1, <1>4
        <5>3. ASSUME NEW i \in 1..Len(t)
              PROVE  next'[t[i]] = IF i = Len(t) THEN NoInterrupt ELSE t[i + 1]
          <6>1. CASE i = Len(t)
            BY <1>2, <1>4, <3>2, <5>2, <6>1
          <6>2. CASE i = Len(s)
            <7>1. t[i] = tail /\ t[i + 1] = n /\ tail # n /\ tail \in Interrupts /\ i # Len(t)
              BY <1>4, <3>2, <3>3, <5>1, <6>2
            <7> QED BY <1>2, <5>2, <7>1
          <6>3. CASE i # Len(t) /\ i # Len(s)
            <7>1. i \in 1..Len(s) /\ i + 1 \in 1..Len(s)
              BY <1>4, <3>2, <6>3
            <7>2. t[i] = s[i] /\ t[i + 1] = s[i + 1] /\ s[i] # n /\ s[i] # tail
                  /\ s[i] \in Interrupts
              BY <1>4, <3>2, <3>3, <5>1, <6>3, <7>1
            <7>3. next[s[i]] = s[i + 1]
              BY <1>4, <6>3, <7>1 DEF Irq!IsChain
            <7> QED BY <1>2, <5>2, <6>3, <7>2, <7>3
          <6> QED BY <6>1, <6>2, <6>3
        <5> QED BY <4>1, <5>2, <5>3, Zenon DEF Irq!IsChain
      <4> QED BY <4>2, <4>3
    <3>8. QueueIs(t)'
      BY <3>2, <3>4, <3>6, <3>7, Zenon DEF QueueIs
    <3> QED BY <3>8 DEF t
  <2> QED BY <2>1, <2>2, Zenon
<1>7. Irq!QueueWellFormed'
  BY <1>6, NextChain, Zenon
<1>8. Irq!HandlerTypeOK'
  BY <1>1, <1>5, Zenon DEF Irq!HandlerInv, Irq!HandlerTypeOK
<1>9. dequeued' => phase' = "bottom" /\ queued'[running']
  <2>1. dequeued => running \in Interrupts /\ phase = "bottom"
    BY Zenon DEF Irq!HandlerInv, Irq!HandlerTypeOK
  <2> QED BY <1>1, <1>2, <1>3, <2>1
<1>10. phase' # "none"
  BY <1>1
<1>11. /\ interrupt_level' = IF phase' = "none" THEN 0 ELSE 1
       /\ running' # NoInterrupt <=> phase' = "bottom"
  BY <1>1, Zenon DEF Irq!HandlerInv
<1> QED BY <1>6, <1>7, <1>8, <1>9, <1>10, <1>11, Zenon DEF Irq!HandlerInv

\* The loop takes the first entry and runs its bottom half.
LEMMA DequeueHandler ==
  ASSUME Irq!HandlerInv, NEW s, QueueIs(s), Irq!Dequeue
  PROVE  Irq!HandlerInv' /\ s # <<>> /\ QueueIs(Tail(s))' /\ running' = Head(s)
<1> USE InterruptsAssumption
<1>1. /\ phase \in {"loop", "masked"} /\ head # NoInterrupt /\ head' = next[head]
      /\ tail' = IF next[head] = NoInterrupt THEN NoInterrupt ELSE tail
      /\ next' = [next EXCEPT ![head] = NoInterrupt]
      /\ running' = head /\ dequeued' = TRUE /\ phase' = "bottom"
      /\ owed' = [owed EXCEPT ![head] = FALSE]
      /\ UNCHANGED <<top_half, bottom_half, enabled, queued, interrupt_level>>
  BY DEF Irq!Dequeue, Irq!Start, Irq!tableVars
<1>2. /\ next \in [Interrupts -> Interrupts \cup {NoInterrupt}] /\ dequeued \in BOOLEAN
      /\ owed \in [Interrupts -> BOOLEAN] /\ queued \in [Interrupts -> BOOLEAN]
      /\ head \in Interrupts \cup {NoInterrupt}
  BY Zenon DEF Irq!HandlerInv, Irq!HandlerTypeOK
<1>3. ~dequeued
  BY <1>1 DEF Irq!HandlerInv
<1>4. /\ s \in Seq(Interrupts) /\ Irq!IsChain(s) /\ Len(s) \in Nat
      /\ \A i, j \in 1..Len(s) : s[i] = s[j] => i = j
      /\ \A m \in Interrupts : (\E i \in 1..Len(s) : s[i] = m) <=>
                                   queued[m] /\ ~(dequeued /\ m = running)
  BY DEF QueueIs
<1>5. s # <<>> /\ Len(s) >= 1 /\ head = s[1] /\ head = Head(s) /\ head \in Interrupts
      /\ tail = s[Len(s)]
  BY <1>1, <1>4 DEF Irq!IsChain
<1>6. PICK t : t = Tail(s)
  OBVIOUS
<1>7. /\ t \in Seq(Interrupts) /\ Len(t) = Len(s) - 1
      /\ \A i \in 1..Len(t) : t[i] = s[i + 1] /\ i + 1 \in 1..Len(s)
  BY <1>4, <1>5, <1>6
<1>8. \A i \in 1..Len(s) : next[s[i]] = IF i = Len(s) THEN NoInterrupt ELSE s[i + 1]
  BY <1>4 DEF Irq!IsChain
<1>9. queued[head]
  BY <1>4, <1>5
<1>10. QueueIs(t)'
  <2>1. \A i, j \in 1..Len(t) : t[i] = t[j] => i = j
    BY <1>4, <1>7
  <2>2. \A i \in 1..Len(t) : t[i] # head /\ t[i] \in Interrupts
    BY <1>4, <1>5, <1>7
  <2>3. \A m \in Interrupts : (\E i \in 1..Len(t) : t[i] = m) <=>
                                  queued'[m] /\ ~(dequeued' /\ m = running')
    <3> SUFFICES ASSUME NEW m \in Interrupts
                 PROVE  (\E i \in 1..Len(t) : t[i] = m) <=>
                            queued'[m] /\ ~(dequeued' /\ m = running')
      OBVIOUS
    <3>1. (\E i \in 1..Len(s) : s[i] = m) <=> queued[m]
      BY <1>3, <1>4
    <3>2. (\E i \in 1..Len(t) : t[i] = m) <=> m # head /\ \E i \in 1..Len(s) : s[i] = m
      <4>1. ASSUME NEW i \in 1..Len(s), s[i] = m, m # head
            PROVE  \E j \in 1..Len(t) : t[j] = m
        <5>1. i - 1 \in 1..Len(t) /\ t[i - 1] = s[i]
          BY <1>4, <1>5, <1>7, <4>1
        <5> QED BY <4>1, <5>1
      <4>2. ASSUME NEW i \in 1..Len(t), t[i] = m
            PROVE  m # head /\ \E j \in 1..Len(s) : s[j] = m
        BY <1>7, <2>2, <4>2
      <4> QED BY <4>1, <4>2, Zenon
    <3> QED BY <1>1, <3>1, <3>2
  <2>4. Irq!IsChain(t)'
    <3>1. \A i \in 1..Len(t) : next'[t[i]] = IF i = Len(t) THEN NoInterrupt ELSE t[i + 1]
      <4> SUFFICES ASSUME NEW i \in 1..Len(t)
                   PROVE  next'[t[i]] = IF i = Len(t) THEN NoInterrupt ELSE t[i + 1]
        OBVIOUS
      <4>1. next'[t[i]] = next[t[i]]
        BY <1>1, <1>2, <2>2
      <4>2. next[t[i]] = IF i + 1 = Len(s) THEN NoInterrupt ELSE s[(i + 1) + 1]
        <5>1. t[i] = s[i + 1] /\ i + 1 \in 1..Len(s)
          BY <1>7
        <5> QED BY <1>8, <5>1
      <4>3. i # Len(t) => t[i + 1] = s[(i + 1) + 1]
        <5>1. i # Len(t) => i + 1 \in 1..Len(t)
          BY <1>4, <1>7
        <5> QED BY <1>7, <5>1
      <4> QED BY <1>4, <1>7, <4>1, <4>2, <4>3
    <3>2. CASE Len(s) = 1
      <4>1. t = <<>> /\ next[head] = NoInterrupt
        BY <1>5, <1>7, <1>8, <3>2
      <4> QED BY <1>1, <3>1, <4>1 DEF Irq!IsChain
    <3>3. CASE Len(s) # 1
      <4>1. /\ next[head] = s[2] /\ s[2] \in Interrupts /\ t[1] = s[2] /\ t # <<>>
            /\ t[Len(t)] = s[Len(s)]
        BY <1>4, <1>5, <1>7, <1>8, <3>3
      <4> QED BY <1>1, <1>5, <3>1, <4>1 DEF Irq!IsChain
    <3> QED BY <3>2, <3>3
  <2> QED BY <1>7, <2>1, <2>3, <2>4, Zenon DEF QueueIs
<1>11. Irq!QueueWellFormed'
  BY <1>10, NextChain, Zenon
<1>12. Irq!HandlerTypeOK'
  <2>1. /\ next' \in [Interrupts -> Interrupts \cup {NoInterrupt}]
        /\ owed' \in [Interrupts -> BOOLEAN]
    BY <1>1, <1>2
  <2>2. head' \in Interrupts \cup {NoInterrupt} /\ dequeued' \in BOOLEAN
    BY <1>1, <1>2, <1>5
  <2>3. running' \in Interrupts \cup {NoInterrupt}
        /\ phase' \in {"none", "bottom", "loop", "masked"}
    BY <1>1, <1>2
  <2> QED BY <1>1, <2>1, <2>2, <2>3, Zenon DEF Irq!HandlerInv, Irq!HandlerTypeOK
<1>13. interrupt_level' = IF phase' = "none" THEN 0 ELSE 1
  BY <1>1 DEF Irq!HandlerInv
<1>14. running' # NoInterrupt /\ phase' = "bottom" /\ phase' # "none" /\ queued'[running']
  BY <1>1, <1>9
<1>15. Irq!HandlerInv'
  BY <1>11, <1>12, <1>13, <1>14, Zenon DEF Irq!HandlerInv
<1> QED BY <1>1, <1>5, <1>6, <1>10, <1>15

\* The invariant is preserved, and the queue is a FIFO queue.
LEMMA HandlerStep == Irq!HandlerInv /\ [Irq!Next]_irqVars => Irq!HandlerInv' /\ FifoStep
<1> SUFFICES ASSUME Irq!HandlerInv, [Irq!Next]_irqVars
             PROVE  Irq!HandlerInv' /\ FifoStep
  OBVIOUS
<1>1. PICK s : QueueIs(s)
  BY WellFormedChain, Zenon DEF Irq!HandlerInv
<1>2. Irq!Line = s /\ s \in Seq(Interrupts)
  BY <1>1, LineIs DEF QueueIs
<1>3. QueueIs(s)' => FifoStep
  BY <1>2, NextChain, Zenon DEF FifoStep
<1>4. CASE UNCHANGED irqVars
  <2>1. UNCHANGED <<top_half, bottom_half, enabled, queued, next, head, tail, interrupt_level,
                    phase, running, dequeued, owed>>
    BY <1>4 DEF irqVars
  <2>2. QueueIs(s)'
    BY <1>1, <2>1, SameQueue, Zenon
  <2>3. Irq!QueueWellFormed'
    BY <2>2, NextChain, Zenon
  <2> QED BY <1>3, <2>1, <2>2, <2>3 DEF Irq!HandlerInv, Irq!HandlerTypeOK
<1>5. ASSUME NEW n \in Interrupts, Irq!Level1(n)
      PROVE  Irq!HandlerInv' /\ FifoStep
  BY <1>1, <1>3, <1>5, Level1Handler, Zenon
<1>6. ASSUME NEW n \in Interrupts, Irq!Level2(n)
      PROVE  Irq!HandlerInv' /\ FifoStep
  <2>1. QueueIs(Append(s, n))' => FifoStep
    BY <1>2, NextChain, Zenon DEF FifoStep
  <2> QED BY <1>1, <1>3, <1>6, <2>1, Level2Handler, Zenon
<1>7. ASSUME NEW n \in Interrupts, NEW top \in BOOLEAN, NEW bottom \in BOOLEAN,
             Irq!Register(n, top, bottom)
      PROVE  Irq!HandlerInv' /\ FifoStep
  BY <1>1, <1>3, <1>7, RegisterHandler, Zenon
<1>8. CASE Irq!BottomReturn
  BY <1>1, <1>3, <1>8, BottomReturnHandler, Zenon
<1>9. CASE Irq!Dequeue
  <2>1. Irq!HandlerInv' /\ s # <<>> /\ QueueIs(Tail(s))' /\ running' = Head(s)
    BY <1>1, <1>9, DequeueHandler, Zenon
  <2>2. Irq!Line' = Tail(s)
    BY <2>1, NextChain, Zenon
  <2> QED BY <1>2, <2>1, <2>2, Zenon DEF FifoStep
<1>10. CASE Irq!End
  BY <1>1, <1>3, <1>10, EndHandler, Zenon
<1> QED BY <1>4, <1>5, <1>6, <1>7, <1>8, <1>9, <1>10, Zenon DEF Irq!Next

\* interrupts.c: the linked list of bottom halves is well formed and holds exactly the entries
\* that are flagged and do not run; it is a FIFO queue, empty whenever the task goes on; for
\* any set of interrupts.
THEOREM CoreBottomHalvesInOrder == CoreSpec => BottomHalvesInOrder
<1>1. CoreInit => Irq!HandlerInv
  BY HandlerInitial DEF CoreInit
<1>2. CoreNext => [Irq!Next]_irqVars
  BY DEF CoreNext
<1>3. Irq!HandlerInv /\ [CoreNext]_allVars => Irq!HandlerInv' /\ FifoStep
  <2>1. UNCHANGED allVars => UNCHANGED irqVars
    BY DEF allVars
  <2> QED BY <1>2, <2>1, HandlerStep, Zenon
<1>4. Irq!HandlerInv => Irq!QueueWellFormed /\ Irq!QueueEmptyInTask
  <2> SUFFICES ASSUME Irq!HandlerInv PROVE Irq!QueueWellFormed /\ Irq!QueueEmptyInTask
    OBVIOUS
  <2>1. PICK s : QueueIs(s)
    BY WellFormedChain, Zenon DEF Irq!HandlerInv
  <2> SUFFICES ASSUME interrupt_level = 0
               PROVE  head = NoInterrupt /\ \A n \in Interrupts : ~queued[n]
    BY DEF Irq!HandlerInv, Irq!QueueEmptyInTask
  <2>2. phase = "none" /\ head = NoInterrupt /\ ~dequeued
    BY DEF Irq!HandlerInv
  <2>3. s \in Seq(Interrupts) /\ (s # <<>> => head = s[1])
    BY <2>1 DEF QueueIs, Irq!IsChain
  <2>4. s = <<>>
    BY <2>2, <2>3, InterruptsAssumption
  <2>5. \A n \in Interrupts : (\E i \in 1..Len(s) : s[i] = n) <=> queued[n]
    BY <2>1, <2>2, Zenon DEF QueueIs
  <2> QED BY <2>2, <2>4, <2>5
<1>5. FifoStep <=>
        \/ Irq!Line' = Irq!Line
        \/ \E n \in Interrupts : Irq!Line' = Append(Irq!Line, n)
        \/ Irq!Line # <<>> /\ Irq!Line' = Tail(Irq!Line) /\ running' = Head(Irq!Line)
  BY Zenon DEF FifoStep
<1> QED BY <1>1, <1>3, <1>4, <1>5, PTL
        DEF CoreSpec, BottomHalvesInOrder, Irq!QueueIsFifo

-----------------------------------------------------------------------------
\* What each step of init_interrupts() has established: a line is unmasked only once its
\* vector is in the interrupt table, after the vectors were remapped, and interrupts are
\* enabled last.
BootInOrder ==
    /\ boot \in {"idt", "pic", "drivers", "exceptions", "up"}
    /\ flag => boot = "up"
    /\ boot # "idt" => idt = Pic!Descriptors
    /\ boot \in {"drivers", "exceptions", "up"} =>
         /\ offset = Pic!PIC1_START_INTERRUPT
         /\ \A i \in 0..15 : i \notin mask => Pic!PIC1_START_INTERRUPT + i \in table

\* A driver's line is unmasked together with its entry in the table.
LEMMA RegisterInOrder ==
  ASSUME BootInOrder, NEW irq, Pic!pic_register_interrupt(irq), idt = Pic!Descriptors,
         \A i \in 0..15 : i \notin mask => Pic!PIC1_START_INTERRUPT + i \in table
  PROVE  \A i \in 0..15 : i \notin mask' => Pic!PIC1_START_INTERRUPT + i \in table'
<1> SUFFICES ASSUME NEW i \in 0..15, i \notin mask'
             PROVE  Pic!PIC1_START_INTERRUPT + i \in table'
  OBVIOUS
<1>1. table \subseteq table'
  BY DEF Pic!pic_register_interrupt
<1>2. CASE i \notin mask
  BY <1>1, <1>2
<1>3. CASE i \in mask
  <2>1. i = irq
    BY <1>3 DEF Pic!pic_register_interrupt, Pic!pic_irq_enable, Pic!Bit8
  <2>2. Pic!PIC1_START_INTERRUPT + i \in Pic!Descriptors
    BY DEF Pic!PIC1_START_INTERRUPT, Pic!Descriptors
  <2> QED BY <2>1, <2>2 DEF Pic!pic_register_interrupt
<1> QED BY <1>2, <1>3

\* The order of the boot is kept by every step.
LEMMA BootStepInOrder == BootInOrder /\ [Pic!Next]_picVars => BootInOrder'
<1> SUFFICES ASSUME BootInOrder, [Pic!Next]_picVars PROVE BootInOrder'
  OBVIOUS
<1>1. CASE UNCHANGED <<boot, flag, idt, table, offset, mask>>
  BY <1>1 DEF BootInOrder
<1>2. CASE Pic!LoadIdt
  BY <1>2 DEF BootInOrder, Pic!LoadIdt
<1>3. CASE Pic!SetUpPic
  BY <1>3 DEF BootInOrder, Pic!SetUpPic
<1>4. CASE Pic!RegisterDriver
  <2>1. PICK irq : Pic!pic_register_interrupt(irq)
    BY <1>4 DEF Pic!RegisterDriver
  <2>2. /\ boot = "drivers" /\ boot' \in {"drivers", "exceptions"}
        /\ UNCHANGED <<flag, idt, offset>>
    BY <1>4 DEF Pic!RegisterDriver
  <2>3. \A i \in 0..15 : i \notin mask' => Pic!PIC1_START_INTERRUPT + i \in table'
    BY <2>1, <2>2, RegisterInOrder DEF BootInOrder
  <2> QED BY <2>2, <2>3 DEF BootInOrder
<1>5. CASE Pic!RegisterExceptions
  BY <1>5 DEF BootInOrder, Pic!RegisterExceptions
<1>6. CASE \/ \E i \in Lines : Pic!Raise(i) \/ Pic!Interrupt(i)
           \/ \E i \in Spurious : Pic!SpuriousInterrupt(i)
  BY <1>1, <1>6 DEF Pic!Raise, Pic!Interrupt, Pic!SpuriousInterrupt
<1> QED BY <1>1, <1>2, <1>3, <1>4, <1>5, <1>6 DEF Pic!Next, Pic!Boot, picVars

\* interrupts.c, pic.c: while interrupts are enabled, a line that can be delivered has the
\* vector it was remapped to, a descriptor and an entry in the interrupt table; for any
\* drivers' lines and any spurious ones.
THEOREM CoreReadyWhenEnabled == CoreSpec => []Pic!ReadyWhenEnabled
<1>1. CoreInit => BootInOrder
  BY DEF CoreInit, Pic!Init, BootInOrder
<1>2. BootInOrder /\ [CoreNext]_allVars => BootInOrder'
  <2>1. [CoreNext]_allVars => [Pic!Next]_picVars
    BY DEF CoreNext, allVars
  <2> QED BY <2>1, BootStepInOrder
<1>3. BootInOrder => Pic!ReadyWhenEnabled
  <2> SUFFICES ASSUME BootInOrder, flag, NEW i \in 0..15, Pic!Unmasked(i)
               PROVE  offset + i \in idt \cap table
    BY DEF Pic!ReadyWhenEnabled
  <2>1. i \notin mask
    BY DEF Pic!Unmasked, Pic!Chain
  <2>2. Pic!PIC1_START_INTERRUPT + i \in Pic!Descriptors
    BY DEF Pic!PIC1_START_INTERRUPT, Pic!Descriptors
  <2> QED BY <2>1, <2>2 DEF BootInOrder
<1> QED BY <1>1, <1>2, <1>3, PTL DEF CoreSpec
=============================================================================
