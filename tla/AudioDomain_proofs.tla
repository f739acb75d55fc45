------------------------- MODULE AudioDomain_proofs -------------------------
(***************************************************************************)
(* For any set of streams, tasks and commands: the variables keep their    *)
(* types, a stream is in one clock domain at most, and what has arrived in *)
(* a domain is stored for it, however the commands of the shell and of the *)
(* slave task overlap.                                                     *)
(***************************************************************************)
EXTENDS AudioDomain, TLAPS

Block == [domain : Domains \cup {MAX}, data : {"null", "live", "freed"}]

\* The arrays are arrays of sets and of blocks.
Shape == active \in [Domains -> SUBSET Streams] /\ info \in [Streams -> Block]

\* ArrivedIsStored needs OneDomain: only because no two domains share a stream
\* does storing a block for one leave the blocks of the other as they are.
DomainInv == Shape /\ OneDomain /\ ArrivedIsStored

\* clock_domain_get returns a domain that has the stream, or CLOCK_DOMAIN_MAX.
LEMMA GetDomain ==
  ASSUME NEW s
  PROVE  /\ clock_domain_get(s) \in Domains \cup {MAX}
         /\ clock_domain_get(s) \in Domains => s \in mask[clock_domain_get(s)]
         /\ clock_domain_get(s) # MAX => clock_domain_get(s) \in Domains
<1>1. CASE \E d \in Domains : s \in mask[d]
  <2>1. clock_domain_get(s) = CHOOSE d \in Domains : s \in mask[d]
    BY <1>1 DEF clock_domain_get
  <2>2. /\ (CHOOSE d \in Domains : s \in mask[d]) \in Domains
        /\ s \in mask[CHOOSE d \in Domains : s \in mask[d]]
    BY <1>1
  <2> QED BY <2>1, <2>2
<1>2. CASE ~(\E d \in Domains : s \in mask[d])
  BY <1>2 DEF clock_domain_get, MAX, Domains
<1> QED BY <1>1, <1>2

\* What a callback brings in belongs to the domain of its stream.
LEMMA ArrivingTogether ==
  ASSUME NEW s \in Sports, NEW k \in Arriving(s)
  PROVE  k \in Streams /\ clock_domain_get(k) = clock_domain_get(s)
BY DEF Arriving, Streams

\* A callback keeps the invariant, whether its domain is complete or not.
LEMMA InterruptKeeps ==
  ASSUME DomainInv, NEW s \in Sports, Interrupt(s)
  PROVE  DomainInv'
<1> DEFINE d == clock_domain_get(s)
           stored == Stored(s)
<1>0. /\ active \in [Domains -> SUBSET Streams] /\ info \in [Streams -> Block]
      /\ OneDomain /\ ArrivedIsStored /\ mask' = mask
  BY DEF DomainInv, Shape, Interrupt
<1>1. /\ d \in Domains \cup {MAX} /\ (d # MAX => d \in Domains)
      /\ MAX \notin Domains
  BY GetDomain DEF MAX, Domains
<1>2. ASSUME NEW k \in Arriving(s)
      PROVE  /\ k \in Streams
             /\ d \in Domains => k \in mask[d]
  BY <1>2, ArrivingTogether, GetDomain
<1>3. stored \in [Streams -> Block]
  BY <1>0, <1>1 DEF Stored, Block
<1>4. /\ \A k \in Arriving(s) : stored[k].domain = d /\ stored[k].data = "live"
      /\ \A k \in Streams \ Arriving(s) : stored[k] = info[k]
  BY <1>2 DEF Stored
<1>5. OneDomain'
  BY <1>0 DEF OneDomain
<1>6. CASE Route(s, d, stored)
  <2>1. /\ info' = Invalidated(stored, d)
        /\ active' = [e \in Domains |-> IF e = d THEN {} ELSE active[e]]
    BY <1>6 DEF Route
  <2>2. active' \in [Domains -> SUBSET Streams]
    BY <1>0, <2>1
  <2>3. info' \in [Streams -> Block]
    <3>1. \A k \in Streams : [stored[k] EXCEPT !.data = "null"] \in Block
      BY <1>3 DEF Block
    <3> QED BY <1>3, <2>1, <3>1 DEF Invalidated
  <2>4. ASSUME NEW e \in Domains, NEW k \in active'[e]
        PROVE  k \in mask'[e] /\ info'[k].domain = e /\ info'[k].data # "null"
    <3>1. e # d /\ k \in active[e] /\ k \in Streams
      BY <1>0, <2>1, <2>4
    <3>2. k \in mask[e] /\ info[k].domain = e /\ info[k].data # "null"
      BY <1>0, <3>1 DEF ArrivedIsStored
    <3>3. ASSUME k \in Arriving(s) PROVE FALSE
      <4>1. CASE d \in Domains
        BY <1>0, <1>2, <3>1, <3>2, <3>3, <4>1 DEF OneDomain
      <4>2. CASE d = MAX
        <5>1. clock_domain_get(k) = MAX
          BY <3>3, <4>2, ArrivingTogether
        <5> QED BY <1>1, <3>2, <5>1 DEF clock_domain_get
      <4> QED BY <1>1, <4>1, <4>2
    <3>4. stored[k] = info[k]
      BY <1>4, <3>1, <3>3
    <3>5. info'[k] = stored[k]
      BY <2>1, <3>1, <3>2, <3>4 DEF Invalidated
    <3> QED BY <1>0, <3>2, <3>4, <3>5
  <2> QED BY <1>5, <2>2, <2>3, <2>4 DEF DomainInv, Shape, ArrivedIsStored
<1>7. CASE Wait(s, d, stored)
  <2>1. /\ info' = stored
        /\ active' = [e \in Domains |-> IF e = d THEN active[e] \cup Arriving(s) ELSE active[e]]
    BY <1>7 DEF Wait
  <2>2. active' \in [Domains -> SUBSET Streams]
    BY <1>0, <1>1, <1>2, <2>1
  <2>3. ASSUME NEW e \in Domains, NEW k \in active'[e]
        PROVE  k \in mask'[e] /\ info'[k].domain = e /\ info'[k].data # "null"
    <3>1. CASE k \in Arriving(s) /\ e = d
      BY <1>0, <1>2, <1>4, <2>1, <3>1
    <3>2. CASE ~(k \in Arriving(s) /\ e = d)
      <4>1. k \in active[e] /\ k \in Streams
        BY <1>0, <1>1, <2>1, <2>3, <3>2
      <4>2. k \in mask[e] /\ info[k].domain = e /\ info[k].data # "null"
        BY <1>0, <4>1 DEF ArrivedIsStored
      <4>3. CASE k \in Arriving(s)
        <5>1. d = MAX \/ (d \in Domains /\ k \in mask[d])
          BY <1>1, <1>2, <4>3
        <5>2. CASE d \in Domains /\ k \in mask[d]
          BY <1>0, <3>2, <4>2, <4>3, <5>2 DEF OneDomain
        <5>3. CASE d = MAX
          <6>1. clock_domain_get(k) = MAX
            BY <4>3, <5>3, ArrivingTogether
          <6> QED BY <1>1, <4>2, <6>1 DEF clock_domain_get
        <5> QED BY <5>1, <5>2, <5>3
      <4>4. CASE k \notin Arriving(s)
        BY <1>0, <1>4, <2>1, <4>1, <4>2, <4>4
      <4> QED BY <4>3, <4>4
    <3> QED BY <3>1, <3>2
  <2> QED BY <1>3, <1>5, <2>1, <2>2, <2>3 DEF DomainInv, Shape, ArrivedIsStored
<1> QED BY <1>6, <1>7 DEF Interrupt, processAudio

\* A call of a command keeps the invariant: only clock_domain_set changes who
\* belongs to a domain, and it takes the stream out of the others.
LEMMA WorkKeeps ==
  ASSUME DomainInv, NEW t \in Tasks, Work(t)
  PROVE  DomainInv'
<1>0. /\ active \in [Domains -> SUBSET Streams] /\ info \in [Streams -> Block]
      /\ OneDomain /\ ArrivedIsStored
  BY DEF DomainInv, Shape
<1>1. CASE SportDeinit(t)
  <2>1. active' = active /\ mask' = mask
    BY <1>1 DEF SportDeinit, domainVars
  <2>2. /\ info' \in [Streams -> Block]
        /\ \A k \in Streams : /\ info'[k].domain = info[k].domain
                              /\ info[k].data # "null" => info'[k].data # "null"
    BY <1>0, <1>1 DEF SportDeinit, Block
  <2> QED BY <1>0, <2>1, <2>2 DEF DomainInv, Shape, OneDomain, ArrivedIsStored
<1>2. CASE ClearActive(t)
  <2> DEFINE c == Head(todo[t])
  <2>1. /\ active' = [active EXCEPT ![c.domain] = @ \ {c.stream}]
        /\ mask' = mask /\ info' = info
    BY <1>2 DEF ClearActive
  <2> HIDE DEF c
  <2>2. /\ active' \in [Domains -> SUBSET Streams]
        /\ \A e \in Domains : active'[e] \subseteq active[e]
    BY <1>0, <2>1
  <2> QED BY <1>0, <2>1, <2>2 DEF DomainInv, Shape, OneDomain, ArrivedIsStored
<1>3. CASE SetDomain(t)
  <2> DEFINE d == Head(todo[t]).domain
             s == Head(todo[t]).stream
  <2>1. /\ mask' = [e \in Domains |-> IF e = d THEN mask[e] \cup {s} ELSE mask[e] \ {s}]
        /\ active' = [e \in Domains |-> IF e = d THEN active[e] ELSE active[e] \ {s}]
        /\ info' = info
    BY <1>3 DEF SetDomain, clock_domain_set
  <2> HIDE DEF d, s
  <2>2. active' \in [Domains -> SUBSET Streams] /\ OneDomain'
    BY <1>0, <2>1 DEF OneDomain
  <2>3. ArrivedIsStored'
    BY <1>0, <2>1 DEF ArrivedIsStored
  <2> QED BY <1>0, <2>1, <2>2, <2>3 DEF DomainInv, Shape
<1>4. CASE SportConfigured(t) \/ SportFails(t) \/ SportAborts(t) \/ SportStart(t) \/ Assign(t)
  <2>1. UNCHANGED <<mask, active, info>>
    BY <1>4 DEF SportConfigured, SportFails, SportAborts, SportStart, Assign, domainVars
  <2> QED BY <1>0, <2>1 DEF DomainInv, Shape, OneDomain, ArrivedIsStored
<1> QED BY <1>1, <1>2, <1>3, <1>4 DEF Work

\* DomainInv holds at start-up and every step keeps it.
THEOREM DomainsInvariant == Spec => []DomainInv
<1>1. Init => DomainInv
  <2> SUFFICES ASSUME Init PROVE DomainInv
    OBVIOUS
  <2>1. Shape
    BY DEF Init, Shape, Block
  <2>2. OneDomain
    BY DEF Init, OneDomain, Domains
  <2>3. ArrivedIsStored
    BY DEF Init, ArrivedIsStored
  <2> QED BY <2>1, <2>2, <2>3 DEF DomainInv
<1>2. DomainInv /\ [Next]_vars => DomainInv'
  <2> SUFFICES ASSUME DomainInv, [Next]_vars PROVE DomainInv'
    OBVIOUS
  <2>1. ASSUME NEW s \in Sports, Interrupt(s) PROVE DomainInv'
    BY <2>1, InterruptKeeps
  <2>2. ASSUME NEW t \in Tasks, Work(t) PROVE DomainInv'
    BY <2>2, WorkKeeps
  <2>3. ASSUME NEW t, NEW calls, Issue(t, calls) PROVE DomainInv'
    BY <2>3 DEF Issue, domainVars, DomainInv, Shape, OneDomain, ArrivedIsStored
  <2>4. CASE UNCHANGED vars
    BY <2>4 DEF vars, domainVars, DomainInv, Shape, OneDomain, ArrivedIsStored
  <2> QED BY <2>1, <2>2, <2>3, <2>4 DEF Next, ShellMode, ShellDomain, SlaveTask
<1> QED BY <1>1, <1>2, PTL DEF Spec

\* No stream is ever in two clock domains.
THEOREM StreamsHaveOneDomain == Spec => []OneDomain
<1>1. DomainInv => OneDomain
  BY DEF DomainInv
<1> QED BY <1>1, DomainsInvariant, PTL

\* A domain never starts on a stream that has left it or was routed already.
THEOREM ArrivedStreamsAreStored == Spec => []ArrivedIsStored
<1>1. DomainInv => ArrivedIsStored
  BY DEF DomainInv
<1> QED BY <1>1, DomainsInvariant, PTL

-----------------------------------------------------------------------------
(* What the commands have yet to do *)

Ops   == {"deinit", "clear", "set", "init", "start", "sub", "main", "slaveOn",
          "slaveOff", "mclkOff", "mclkOn"}

\* SPORT calls are about SPORTs, and only clock_domain_set takes no domain.
CallOK(c) == /\ c.op \in {"deinit", "init", "start"} => c.stream \in Sports
             /\ c.op \in {"init", "clear"} => c.domain \in Domains

Calls == {c \in [op : Ops, stream : Streams, domain : Domains \cup {MAX}] : CallOK(c)}
Plans == Seq(Calls)

TodoInv == todo \in [Tasks -> Plans]

LEMMA CallType ==
  ASSUME NEW op \in Ops, NEW s \in Streams, NEW d \in Domains \cup {MAX},
         op \in {"deinit", "init", "start"} => s \in Sports,
         op \in {"init", "clear"} => d \in Domains
  PROVE  Call(op, s, d) \in Calls
BY DEF Call, Calls, CallOK

LEMMA Names ==
  /\ "CODEC_IN" \in Sports /\ "CODEC_OUT" \in Sports
  /\ "A2B_IN" \in Sports /\ "A2B_OUT" \in Sports
  /\ "SYSTEM" \in Domains /\ "A2B" \in Domains /\ MAX \notin Domains
  /\ Sports \subseteq Streams
BY DEF Streams, Sports, Codec, A2B, Domains, MAX

\* Plans are closed under the ways they are put together and taken apart.
LEMMA PlanTypes ==
  /\ <<>> \in Plans
  /\ \A c \in Calls : <<c>> \in Plans
  /\ \A p, q \in Plans : p \o q \in Plans
  /\ \A q \in Plans : q # <<>> => Head(q) \in Calls /\ Tail(q) \in Plans
BY DEF Plans

LEMMA DeinitType == Deinit \in Plans
<1>1. /\ Call("deinit", "A2B_OUT", MAX) \in Calls /\ Call("clear", "A2B_OUT", "SYSTEM") \in Calls
      /\ Call("deinit", "A2B_IN", MAX) \in Calls /\ Call("clear", "A2B_IN", "SYSTEM") \in Calls
  BY CallType, Names DEF Ops
<1> QED BY <1>1 DEF Deinit, Plans

LEMMA SportInitType == ASSUME NEW d \in Domains PROVE SportInit(d) \in Plans
<1>1. Call("init", "A2B_OUT", d) \in Calls /\ Call("init", "A2B_IN", d) \in Calls
  BY CallType, Names DEF Ops
<1> QED BY <1>1 DEF SportInit, Plans

LEMMA SetSubType == SetSub \in Plans
<1> DEFINE r == <<Call("sub", "A2B_IN", MAX), Call("set", "A2B_IN", MAX),
                  Call("set", "A2B_OUT", MAX)>>
<1>1. /\ Call("sub", "A2B_IN", MAX) \in Calls /\ Call("set", "A2B_IN", MAX) \in Calls
      /\ Call("set", "A2B_OUT", MAX) \in Calls
  BY CallType, Names DEF Ops
<1>2. r \in Plans
  BY <1>1 DEF Plans
<1>3. SetSub = Deinit \o r
  BY DEF SetSub
<1> HIDE DEF r
<1> QED BY <1>2, <1>3, DeinitType, PlanTypes

LEMMA SetMainType == SetMain \in Plans
<1> DEFINE a == <<Call("deinit", "CODEC_OUT", MAX), Call("deinit", "CODEC_IN", MAX),
                  Call("mclkOff", "CODEC_IN", MAX),
                  Call("init", "CODEC_OUT", "SYSTEM"), Call("init", "CODEC_IN", "SYSTEM")>>
           c == <<Call("main", "A2B_IN", MAX), Call("mclkOn", "CODEC_IN", MAX)>>
<1>1. /\ Call("deinit", "CODEC_OUT", MAX) \in Calls /\ Call("deinit", "CODEC_IN", MAX) \in Calls
      /\ Call("mclkOff", "CODEC_IN", MAX) \in Calls
      /\ Call("init", "CODEC_OUT", "SYSTEM") \in Calls
      /\ Call("init", "CODEC_IN", "SYSTEM") \in Calls
      /\ Call("main", "A2B_IN", MAX) \in Calls /\ Call("mclkOn", "CODEC_IN", MAX) \in Calls
  BY CallType, Names DEF Ops
<1>2. a \in Plans /\ c \in Plans
  BY <1>1 DEF Plans
<1>3. SetMain = ((Deinit \o a) \o SportInit("SYSTEM")) \o c
  BY DEF SetMain
<1> HIDE DEF a, c
<1>4. Deinit \o a \in Plans
  BY <1>2, DeinitType, PlanTypes
<1>5. (Deinit \o a) \o SportInit("SYSTEM") \in Plans
  BY <1>4, SportInitType, Names, PlanTypes
<1> QED BY <1>2, <1>3, <1>5, PlanTypes

LEMMA SlaveTypes == SlaveOn \in Plans /\ SlaveStart \in Plans /\ SlaveStop \in Plans
<1>1. Call("slaveOn", "A2B_IN", MAX) \in Calls /\ Call("slaveOff", "A2B_IN", MAX) \in Calls
  BY CallType, Names DEF Ops
<1>2. SlaveOn \in Plans /\ <<Call("slaveOff", "A2B_IN", MAX)>> \in Plans
  BY <1>1, PlanTypes DEF SlaveOn
<1> QED BY <1>2, DeinitType, SportInitType, Names, PlanTypes DEF SlaveStart, SlaveStop

LEMMA DomainType ==
  ASSUME NEW k \in Clockless, NEW d \in Domains PROVE <<Call("set", k, d)>> \in Plans
BY CallType, PlanTypes DEF Ops, Streams

\* A task at work has a well-formed call to make.
LEMMA Doings ==
  ASSUME TodoInv, NEW t \in Tasks, NEW op, Doing(t, op)
  PROVE  /\ Head(todo[t]) \in Calls /\ Head(todo[t]).op = op
         /\ Tail(todo[t]) \in Plans
BY PlanTypes DEF TodoInv, Doing

\* What takes the place of a call is well-formed.
LEMMA ThenType ==
  ASSUME TodoInv, NEW t \in Tasks, Tail(todo[t]) \in Plans, NEW calls \in Plans,
         Then(t, calls)
  PROVE  TodoInv'
<1>1. calls \o Tail(todo[t]) \in Plans
  BY PlanTypes
<1> QED BY <1>1 DEF Then, TodoInv

LEMMA WorkTodo ==
  ASSUME TodoInv, NEW t \in Tasks, Work(t) PROVE TodoInv'
<1> DEFINE c == Head(todo[t])
<1>1. CASE SportDeinit(t) \/ ClearActive(t) \/ SetDomain(t) \/ SportStart(t) \/ Assign(t)
  <2>1. Then(t, <<>>) /\ \E op \in Ops : Doing(t, op)
    BY <1>1 DEF SportDeinit, ClearActive, SetDomain, SportStart, Assign, Ops
  <2> QED BY <2>1, Doings, ThenType, PlanTypes
<1>2. CASE SportConfigured(t)
  <2>1. c \in Calls /\ c.op = "init" /\ Tail(todo[t]) \in Plans
    BY <1>2, Doings DEF SportConfigured
  <2>2. c.stream \in Sports /\ c.domain \in Domains
    BY <2>1 DEF Calls, CallOK
  <2>3. Call("set", c.stream, c.domain) \in Calls /\ Call("start", c.stream, MAX) \in Calls
    BY <2>2, CallType, Names DEF Ops
  <2> DEFINE set   == IF c.stream \in A2B THEN <<Call("set", c.stream, c.domain)>> ELSE <<>>
             start == <<Call("start", c.stream, MAX)>>
  <2>4. set \in Plans /\ start \in Plans
    BY <2>3, PlanTypes
  <2>5. Then(t, set \o start)
    BY <1>2 DEF SportConfigured
  <2> HIDE DEF c, set, start
  <2>6. set \o start \in Plans
    BY <2>4, PlanTypes
  <2> QED BY <2>1, <2>5, <2>6, ThenType
<1>3. CASE SportFails(t)
  <2>1. c \in Calls /\ c.op = "init" /\ Tail(todo[t]) \in Plans
    BY <1>3, Doings DEF SportFails
  <2>2. c.stream \in Sports
    BY <2>1 DEF Calls, CallOK
  <2>3. Call("set", c.stream, MAX) \in Calls
    BY <2>2, CallType, Names DEF Ops
  <2> DEFINE set == IF c.stream \in A2B THEN <<Call("set", c.stream, MAX)>> ELSE <<>>
  <2>4. set \in Plans
    BY <2>3, PlanTypes
  <2>5. Then(t, set)
    BY <1>3 DEF SportFails
  <2> HIDE DEF c, set
  <2> QED BY <2>1, <2>4, <2>5, ThenType
<1>4. CASE SportAborts(t)
  BY <1>4, SlaveTypes DEF SportAborts, TodoInv
<1> QED BY <1>1, <1>2, <1>3, <1>4 DEF Work

\* The commands start with well-formed plans.
LEMMA IssueIs ==
  ASSUME ShellMode \/ SlaveTask \/ \E k \in Clockless, d \in Domains : ShellDomain(k, d)
  PROVE  \E t \in Tasks, q \in Plans : Issue(t, q)
<1>1. CASE ShellMode
  BY <1>1, SetSubType, SetMainType DEF ShellMode, Issue
<1>2. CASE SlaveTask
  BY <1>2, SlaveTypes DEF SlaveTask, Issue
<1>3. CASE \E k \in Clockless, d \in Domains : ShellDomain(k, d)
  BY <1>3, DomainType DEF ShellDomain, Issue
<1> QED BY <1>1, <1>2, <1>3

-----------------------------------------------------------------------------
(* Types *)

TypeInv == TypeOK /\ TodoInv

LEMMA StoredType ==
  ASSUME TypeOK, NEW s \in Sports
  PROVE  /\ Stored(s) \in [Streams -> Block] /\ Arriving(s) \subseteq Streams
         /\ \A d \in Domains \cup {MAX} : Invalidated(Stored(s), d) \in [Streams -> Block]
<1>1. /\ clock_domain_get(s) \in Domains \cup {MAX} /\ info \in [Streams -> Block]
      /\ Arriving(s) \subseteq Streams
  BY GetDomain, ArrivingTogether DEF TypeOK, Block
<1>2. Stored(s) \in [Streams -> Block]
  BY <1>1 DEF Stored, Block
<1>3. \A k \in Streams : [Stored(s)[k] EXCEPT !.data = "null"] \in Block
  BY <1>2 DEF Block
<1> QED BY <1>1, <1>2, <1>3 DEF Invalidated

LEMMA InterruptType ==
  ASSUME TypeInv, NEW s \in Sports, Interrupt(s) PROVE TypeInv'
<1> DEFINE d == clock_domain_get(s)
<1>0. TypeOK /\ UNCHANGED <<mask, open, handle, running, mclk, mode, slaveActive, todo, commands>>
  BY DEF TypeInv, Interrupt, sportVars, modeVars
<1>1. d \in Domains \cup {MAX}
  BY GetDomain
<1>2. active \in [Domains -> SUBSET Streams]
  BY <1>0 DEF TypeOK
<1>3. CASE Route(s, d, Stored(s))
  <2>1. /\ info' = Invalidated(Stored(s), d) /\ routed'.domain = d
        /\ active' = [e \in Domains |-> IF e = d THEN {} ELSE active[e]]
    BY <1>3 DEF Route
  <2>2. info' \in [Streams -> Block] /\ active' \in [Domains -> SUBSET Streams]
    BY <1>0, <1>1, <1>2, <2>1, StoredType
  <2> QED BY <1>0, <1>1, <2>1, <2>2 DEF TypeInv, TypeOK, TodoInv, Block
<1>4. CASE Wait(s, d, Stored(s))
  <2>1. /\ info' = Stored(s) /\ routed'.domain = MAX
        /\ active' = [e \in Domains |-> IF e = d THEN active[e] \cup Arriving(s) ELSE active[e]]
    BY <1>4 DEF Wait, Nothing
  <2>2. info' \in [Streams -> Block] /\ Arriving(s) \subseteq Streams
    BY <1>0, <2>1, StoredType
  <2>3. active' \in [Domains -> SUBSET Streams]
    BY <1>2, <2>1, <2>2
  <2> QED BY <1>0, <2>1, <2>2, <2>3 DEF TypeInv, TypeOK, TodoInv, Block
<1> QED BY <1>3, <1>4 DEF Interrupt, processAudio

LEMMA WorkType ==
  ASSUME TypeInv, NEW t \in Tasks, Work(t) PROVE TypeInv'
<1> DEFINE c == Head(todo[t])
<1> USE DEF domainVars, sportVars, modeVars
<1>0. TypeOK /\ TodoInv' /\ TodoInv
  BY WorkTodo DEF TypeInv
<1>1. Nothing.domain = MAX
  BY DEF Nothing
<1>2. ASSUME NEW op, Doing(t, op)
      PROVE  /\ c.op = op /\ c.stream \in Streams
             /\ c.domain \in Domains \cup {MAX} /\ CallOK(c)
  BY <1>0, <1>2, Doings DEF Calls
<1> HIDE DEF c
<1>3. CASE SportDeinit(t)
  <2>1. c.stream \in Sports /\ c.stream \in Streams
    BY <1>2, <1>3 DEF SportDeinit, CallOK
  <2>2. [info EXCEPT ![c.stream].data = "freed"]
          \in [Streams -> [domain : Domains \cup {MAX}, data : {"null", "live", "freed"}]]
    BY <1>0, <2>1 DEF TypeOK
  <2> QED BY <1>0, <1>1, <1>3, <2>1, <2>2 DEF c, SportDeinit, TypeInv, TypeOK
<1>4. CASE ClearActive(t)
  <2>1. c.domain \in Domains
    BY <1>2, <1>4 DEF ClearActive, CallOK
  <2>2. active' \in [Domains -> SUBSET Streams]
    BY <1>0, <1>4, <2>1 DEF c, ClearActive, TypeOK
  <2> QED BY <1>0, <1>1, <1>4, <2>2 DEF ClearActive, TypeInv, TypeOK
<1>5. CASE SetDomain(t)
  <2>1. c.stream \in Streams
    BY <1>2, <1>5 DEF SetDomain
  <2>2. mask' \in [Domains -> SUBSET Streams] /\ active' \in [Domains -> SUBSET Streams]
    BY <1>0, <1>5, <2>1 DEF c, SetDomain, clock_domain_set, TypeOK
  <2> QED BY <1>0, <1>1, <1>5, <2>2 DEF SetDomain, TypeInv, TypeOK
<1>6. CASE SportConfigured(t) \/ SportFails(t) \/ SportAborts(t)
  <2>1. /\ c.stream \in Sports
        /\ open' \in {open, open \cup {c.stream}}
        /\ handle' \in {handle, handle \cup {c.stream}, handle \ {c.stream}}
        /\ UNCHANGED <<mask, active, info, running, mclk, mode, slaveActive, commands>>
        /\ routed' = Nothing
    BY <1>2, <1>6 DEF c, SportConfigured, SportFails, SportAborts, CallOK
  <2> QED BY <1>0, <1>1, <2>1 DEF TypeInv, TypeOK
<1>7. CASE SportStart(t)
  <2>1. c.stream \in Sports
    BY <1>2, <1>7 DEF SportStart, CallOK
  <2> QED BY <1>0, <1>1, <1>7, <2>1 DEF c, SportStart, TypeInv, TypeOK
<1>8. CASE Assign(t)
  BY <1>0, <1>1, <1>8 DEF Assign, TypeInv, TypeOK
<1> QED BY <1>3, <1>4, <1>5, <1>6, <1>7, <1>8 DEF Work

\* The variables keep their types, whatever the tasks have yet to do.
THEOREM TypeCorrect == Spec => []TypeOK
<1>1. Init => TypeInv
  <2> SUFFICES ASSUME Init PROVE TypeInv
    OBVIOUS
  <2>1. TypeOK
    <3>1. /\ mask \in [Domains -> SUBSET Streams] /\ active \in [Domains -> SUBSET Streams]
          /\ info \in [Streams -> Block]
      BY DEF Init, Block
    <3>2. routed.domain \in Domains \cup {MAX} /\ commands \in 0 .. MaxCommands
      BY CommandAssumption DEF Init, Nothing
    <3> QED BY <3>1, <3>2 DEF Init, TypeOK, Block
  <2>2. TodoInv
    BY DEF Init, TodoInv, Plans
  <2> QED BY <2>1, <2>2 DEF TypeInv
<1>2. TypeInv /\ [Next]_vars => TypeInv'
  <2> SUFFICES ASSUME TypeInv, [Next]_vars PROVE TypeInv'
    OBVIOUS
  <2>1. ASSUME NEW s \in Sports, Interrupt(s) PROVE TypeInv'
    BY <2>1, InterruptType
  <2>2. ASSUME NEW t \in Tasks, Work(t) PROVE TypeInv'
    BY <2>2, WorkType
  <2>3. CASE ShellMode \/ SlaveTask \/ \E k \in Clockless, d \in Domains : ShellDomain(k, d)
    <3>1. PICK t \in Tasks, q \in Plans :
            Issue(t, q)
      BY <2>3, IssueIs
    <3>2. TodoInv'
      BY <3>1 DEF Issue, TypeInv, TodoInv
    <3>3. TypeOK'
      BY <3>1, CommandAssumption
         DEF Issue, TypeInv, TypeOK, domainVars, sportVars, modeVars, Nothing
    <3> QED BY <3>2, <3>3 DEF TypeInv
  <2>4. CASE UNCHANGED vars
    BY <2>4 DEF vars, domainVars, sportVars, modeVars, TypeInv, TypeOK, TodoInv
  <2> QED BY <2>1, <2>2, <2>3, <2>4 DEF Next
<1>3. TypeInv => TypeOK
  BY DEF TypeInv
<1> QED BY <1>1, <1>2, <1>3, PTL DEF Spec

=============================================================================
