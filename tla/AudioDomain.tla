---------------------------- MODULE AudioDomain ----------------------------
(***************************************************************************)
(* Clock domains on the ARM: src/ARM/src/clock_domain.c, process_audio.c,  *)
(* the SPORT set-up in init.c and the A2B slave task in a2b_slave.c.       *)
(*                                                                         *)
(* Every audio stream belongs to a clock domain.  SPORT interrupts bring   *)
(* the streams that have a clock; those of the codec also bring in the     *)
(* streams without one.  When every stream of a domain has arrived, the    *)
(* domain's audio is routed.  SPORT interrupts share one priority and mask *)
(* each other, so a callback is one step; tasks are interrupted between    *)
(* any two calls they make.                                                *)
(***************************************************************************)
EXTENDS Naturals, Sequences

CONSTANTS
  Clockless,    \* the streams without a clock that are configured
  Tasks,        \* which of "shell" and "slave" issue commands
  MaxCommands   \* bound: commands issued in a behaviour

Codec   == {"CODEC_IN", "CODEC_OUT"}
A2B     == {"A2B_IN", "A2B_OUT"}
Sports  == Codec \cup A2B
Streams == Sports \cup Clockless
Sources == {"CODEC_IN", "A2B_IN", "WAV_SRC", "RTP_RX", "VBAN_RX", "USB_RX"}
Domains == {"SYSTEM", "A2B"}
MAX     == "MAX"     \* CLOCK_DOMAIN_MAX: in no domain

ASSUME ClocklessAssumption == Clockless \cap Sports = {}
ASSUME TaskAssumption      == Tasks \subseteq {"shell", "slave"}
ASSUME CommandAssumption   == MaxCommands \in Nat

VARIABLES
  mask,      \* clockDomainMask: the streams of each domain
  active,    \* clockDomainActive: those that have arrived
  info,      \* STREAMS[]: domain and buffer of each stream's latest block
  open,      \* the SPORTs whose driver is open
  handle,    \* the SPORTs the application has a handle to
  running,   \* the SPORTs whose DMA runs
  mclk,      \* the main clock is enabled
  mode,      \* context->a2bmode
  slaveActive, \* context->a2bSlaveActive
  todo,      \* the calls each task's command has yet to make
  routed,    \* history: what the last step routed
  commands   \* history: commands issued

domainVars == <<mask, active>>
sportVars  == <<open, handle, running>>
modeVars   == <<mclk, mode, slaveActive>>
vars       == <<domainVars, info, sportVars, modeVars, todo, routed, commands>>

Nothing == [domain |-> MAX, data |-> {}]

-----------------------------------------------------------------------------
(* clock_domain.c *)

\* Mutant of clock_domain_set: the stream stays active where it was.
SetKeepsActive(d, s) ==
  /\ mask' = [e \in Domains |-> IF e = d THEN mask[e] \cup {s} ELSE mask[e] \ {s}]
  /\ UNCHANGED active

\* Mutant of clock_domain_set: the stream stays in the domain it was in.
SetKeepsMask(d, s) ==
  /\ mask' = [e \in Domains |-> IF e = d THEN mask[e] \cup {s} ELSE mask[e]]
  /\ UNCHANGED active

clock_domain_set(d, s) ==
  /\ mask'   = [e \in Domains |-> IF e = d THEN mask[e] \cup {s} ELSE mask[e] \ {s}]
  /\ active' = [e \in Domains |-> IF e = d THEN active[e] ELSE active[e] \ {s}]

clock_domain_get(s) ==
  IF \E d \in Domains : s \in mask[d] THEN CHOOSE d \in Domains : s \in mask[d] ELSE MAX

\* The domain's streams have all arrived.
ready(d, arrived) == mask[d] \subseteq arrived

-----------------------------------------------------------------------------
(* processAudio, called from the SPORT interrupt of stream s *)

CanInterrupt(s) == s \in running /\ (mclk \/ (s \in A2B /\ mode = "sub"))

\* Mutant of Arriving: nobody asks whether a stream is configured.
ArrivingAll(s) == {s} \cup IF s \in Codec THEN Sources \ Sports ELSE {}

\* The codec streams are the clock sources: each brings in the streams without
\* a clock of its own direction that are in its domain.
Arriving(s) ==
  {s} \cup IF s \in Codec
           THEN {k \in Clockless : /\ k \in Sources <=> s \in Sources
                                   /\ clock_domain_get(k) = clock_domain_get(s)}
           ELSE {}

\* setStreamInfo for every stream that arrives.
Stored(s) ==
  LET came  == Arriving(s)
      block == [domain |-> clock_domain_get(s), data |-> "live"]
  IN [k \in Streams |-> IF k \in came THEN block ELSE info[k]]

Invalidated(stored, d) ==
  [k \in Streams |-> IF stored[k].domain = d THEN [stored[k] EXCEPT !.data = "null"]
                                             ELSE stored[k]]

\* clock_domain_ready clears the domain and routeAudio uses every stream
\* stored for it.
Route(s, d, stored) ==
  /\ info' = Invalidated(stored, d)
  /\ active' = [e \in Domains |-> IF e = d THEN {} ELSE active[e]]
  /\ routed' = [domain |-> d, data |-> {stored[k].data : k \in {j \in Streams : stored[j].domain = d}}]

\* Nothing routed yet: the streams that came in are noted.
Wait(s, d, stored) ==
  /\ info' = stored
  /\ active' = [e \in Domains |-> IF e = d THEN active[e] \cup Arriving(s) ELSE active[e]]
  /\ routed' = Nothing

\* For a stream in no domain the code indexes its arrays with
\* CLOCK_DOMAIN_MAX.  What it reads behind them says ready or not; what it
\* overwrites there is outside the model.
processAudio(s) ==
  LET d == clock_domain_get(s)
  IN \/ /\ d # MAX => ready(d, active[d] \cup Arriving(s))
        /\ Route(s, d, Stored(s))
     \/ /\ d # MAX => ~ready(d, active[d] \cup Arriving(s))
        /\ Wait(s, d, Stored(s))

Interrupt(s) ==
  /\ CanInterrupt(s)
  /\ processAudio(s)
  /\ UNCHANGED <<mask, sportVars, modeVars, todo, commands>>

-----------------------------------------------------------------------------
(* The calls a command makes *)

Call(op, s, d) == [op |-> op, stream |-> s, domain |-> d]

\* a2b_sport_deinit: the active bits are cleared in the system domain.
Deinit == <<Call("deinit", "A2B_OUT", MAX), Call("clear", "A2B_OUT", "SYSTEM"),
            Call("deinit", "A2B_IN", MAX), Call("clear", "A2B_IN", "SYSTEM")>>

\* a2b_sport_init
SportInit(d) == <<Call("init", "A2B_OUT", d), Call("init", "A2B_IN", d)>>

\* Mutant of SetSub: the streams stay in their domain.
SetSubKeeps == Deinit \o <<Call("sub", "A2B_IN", MAX)>>

\* a2b_set_mode
SetSub  == Deinit \o <<Call("sub", "A2B_IN", MAX),
                       Call("set", "A2B_IN", MAX), Call("set", "A2B_OUT", MAX)>>
SetMain == Deinit \o <<Call("deinit", "CODEC_OUT", MAX), Call("deinit", "CODEC_IN", MAX),
                       Call("mclkOff", "CODEC_IN", MAX),
                       Call("init", "CODEC_OUT", "SYSTEM"), Call("init", "CODEC_IN", "SYSTEM")>>
           \o SportInit("SYSTEM") \o <<Call("main", "A2B_IN", MAX), Call("mclkOn", "CODEC_IN", MAX)>>

\* a2b_sport_start and a2b_sport_stop, and what the slave task records.
SlaveOn    == <<Call("slaveOn", "A2B_IN", MAX)>>
SlaveStart == SportInit("A2B") \o SlaveOn
SlaveStop  == Deinit \o <<Call("slaveOff", "A2B_IN", MAX)>>

Doing(t, op) == todo[t] # <<>> /\ Head(todo[t]).op = op
Then(t, calls) == todo' = [todo EXCEPT ![t] = calls \o Tail(@)]

\* single_sport_deinit: the driver is closed and the buffers given back, for
\* the codec only if there is a handle.
SportDeinit(t) ==
  LET s == Head(todo[t]).stream
      shut == IF s \in handle THEN {s} ELSE {}
  IN /\ Doing(t, "deinit")
     /\ open' = open \ shut /\ running' = running \ shut /\ handle' = handle \ shut
     /\ info' = IF (s \in A2B \/ s \in handle) /\ info[s].data = "live"
                THEN [info EXCEPT ![s].data = "freed"] ELSE info
     /\ Then(t, <<>>) /\ routed' = Nothing
     /\ UNCHANGED <<domainVars, modeVars, commands>>

\* clock_domain_clr_active
ClearActive(t) ==
  LET c == Head(todo[t])
  IN /\ Doing(t, "clear")
     /\ active' = [active EXCEPT ![c.domain] = @ \ {c.stream}]
     /\ Then(t, <<>>) /\ routed' = Nothing
     /\ UNCHANGED <<mask, info, sportVars, modeVars, commands>>

SetDomain(t) ==
  LET c == Head(todo[t])
  IN /\ Doing(t, "set")
     /\ clock_domain_set(c.domain, c.stream)
     /\ Then(t, <<>>) /\ routed' = Nothing
     /\ UNCHANGED <<info, sportVars, modeVars, commands>>

\* single_sport_init succeeds: the stream gets its domain, then starts.
SportConfigured(t) ==
  LET c == Head(todo[t])
  IN /\ Doing(t, "init") /\ c.stream \notin open
     /\ open' = open \cup {c.stream} /\ handle' = handle \cup {c.stream}
     /\ Then(t, (IF c.stream \in A2B THEN <<Call("set", c.stream, c.domain)>> ELSE <<>>)
                \o <<Call("start", c.stream, MAX)>>)
     /\ routed' = Nothing
     /\ UNCHANGED <<domainVars, info, running, modeVars, commands>>

\* The SPORT is busy, or the bus asks for a configuration it cannot have: a
\* handle is closed or lost, and an A2B stream leaves its domain.
SportFails(t) ==
  LET c == Head(todo[t])
  IN /\ Doing(t, "init") /\ (c.stream \in open \/ c.domain = "A2B")
     /\ handle' = handle \ {c.stream}
     /\ Then(t, IF c.stream \in A2B THEN <<Call("set", c.stream, MAX)>> ELSE <<>>)
     /\ routed' = Nothing
     /\ UNCHANGED <<domainVars, info, open, running, modeVars, commands>>

\* a2b_to_sport_cfg rejects what the bus asks for: a2b_sport_init gives up,
\* which leaves the slave task the flag to set.
SportAborts(t) ==
  /\ Doing(t, "init") /\ Head(todo[t]).domain = "A2B"
  /\ todo' = [todo EXCEPT ![t] = SlaveOn]
  /\ routed' = Nothing
  /\ UNCHANGED <<domainVars, info, sportVars, modeVars, commands>>

\* sport_start, given a handle
SportStart(t) ==
  LET s == Head(todo[t]).stream
  IN /\ Doing(t, "start")
     /\ running' = IF s \in handle THEN running \cup {s} ELSE running
     /\ Then(t, <<>>) /\ routed' = Nothing
     /\ UNCHANGED <<domainVars, info, open, handle, modeVars, commands>>

\* Assignments to the mode, the slave flag and the clock enable.
Assign(t) ==
  /\ \/ Doing(t, "sub")      /\ mode' = "sub"  /\ UNCHANGED <<mclk, slaveActive>>
     \/ Doing(t, "main")     /\ mode' = "main" /\ slaveActive' = FALSE /\ UNCHANGED mclk
     \/ Doing(t, "slaveOn")  /\ slaveActive' = TRUE  /\ UNCHANGED <<mclk, mode>>
     \/ Doing(t, "slaveOff") /\ slaveActive' = FALSE /\ UNCHANGED <<mclk, mode>>
     \/ Doing(t, "mclkOff")  /\ mclk' = FALSE /\ UNCHANGED <<mode, slaveActive>>
     \/ Doing(t, "mclkOn")   /\ mclk' = TRUE  /\ UNCHANGED <<mode, slaveActive>>
  /\ Then(t, <<>>) /\ routed' = Nothing
  /\ UNCHANGED <<domainVars, info, sportVars, commands>>

Work(t) == \/ SportDeinit(t) \/ ClearActive(t) \/ SetDomain(t) \/ SportConfigured(t)
           \/ SportFails(t) \/ SportAborts(t) \/ SportStart(t) \/ Assign(t)

-----------------------------------------------------------------------------
(* Commands *)

Issue(t, calls) ==
  /\ t \in Tasks /\ todo[t] = <<>> /\ commands < MaxCommands
  /\ todo' = [todo EXCEPT ![t] = calls]
  /\ commands' = commands + 1 /\ routed' = Nothing
  /\ UNCHANGED <<domainVars, info, sportVars, modeVars>>

\* The shell's "a2b mode" and "domain" commands.
ShellMode == \/ mode = "main" /\ Issue("shell", SetSub)
             \/ mode = "sub"  /\ Issue("shell", SetMain)
ShellDomain(k, d) == Issue("shell", <<Call("set", k, d)>>)

\* What the slave task does when it finds the node discovered, or not.
SlaveTask ==
  /\ mode = "sub"
  /\ Issue("slave", IF slaveActive THEN SlaveStop ELSE SlaveStart)

-----------------------------------------------------------------------------
(* After startupTask: the codec and A2B run in the system domain *)

Init ==
  /\ mask   = [d \in Domains |-> IF d = "SYSTEM" THEN Streams ELSE {}]
  /\ active = [d \in Domains |-> {}]
  /\ info   = [s \in Streams |-> [domain |-> MAX, data |-> "null"]]
  /\ open = Sports /\ handle = Sports /\ running = Sports
  /\ mclk = TRUE /\ mode = "main" /\ slaveActive = FALSE
  /\ todo = [t \in Tasks |-> <<>>]
  /\ routed = Nothing /\ commands = 0

Next == \/ \E s \in Sports : Interrupt(s)
        \/ \E t \in Tasks : Work(t)
        \/ ShellMode \/ SlaveTask
        \/ \E k \in Clockless, d \in Domains : ShellDomain(k, d)

Spec == Init /\ [][Next]_vars

\* SPORT DMA interrupts as long as its clock runs; tasks get the processor.
FairSpec == /\ Spec
            /\ \A s \in Sports : WF_vars(Interrupt(s))
            /\ \A t \in Tasks : WF_vars(Work(t))

-----------------------------------------------------------------------------
(* Properties *)

TypeOK ==
  /\ mask \in [Domains -> SUBSET Streams] /\ active \in [Domains -> SUBSET Streams]
  /\ info \in [Streams -> [domain : Domains \cup {MAX}, data : {"null", "live", "freed"}]]
  /\ open \subseteq Sports /\ handle \subseteq Sports /\ running \subseteq Sports
  /\ mclk \in BOOLEAN /\ mode \in {"main", "sub"} /\ slaveActive \in BOOLEAN
  /\ routed.domain \in Domains \cup {MAX} /\ commands \in 0 .. MaxCommands

\* A stream is in one domain at most, whatever commands and interrupts move it.
OneDomain == \A d, e \in Domains : d # e => mask[d] \cap mask[e] = {}

\* A stream counts as arrived in a domain only while it belongs to it and its
\* block is stored for that domain: a domain never starts on a stream that
\* was moved away or was routed already.
ArrivedIsStored ==
  \A d \in Domains : \A s \in active[d] :
    s \in mask[d] /\ info[s].domain = d /\ info[s].data # "null"

\* Every SPORT that can interrupt belongs to a domain: "Only audio
\* sources/sinks with inherent clocks call this function so always update the
\* clock domain" (process_audio.c:196), which indexes arrays of
\* CLOCK_DOMAIN_MAX domains.
CallbackHasDomain == \A s \in Sports : CanInterrupt(s) => clock_domain_get(s) # MAX

\* Routing never uses a buffer that was given back to the heap: a2b_init_slave
\* disconnects A2B from all clock domains (init.c:1374).
NoFreedBuffer == "freed" \notin routed.data

\* At most one command is in progress.
OneCommand == \A t, u \in Tasks : todo[t] # <<>> /\ todo[u] # <<>> => t = u

\* The SPORTs of the system domain all interrupt.
SystemRuns == \A s \in mask["SYSTEM"] \cap Sports : CanInterrupt(s)

\* The system domain is routed for ever, whatever moves in or out of it, when
\* commands do not overlap; and when they do, unless they leave behind in it a
\* SPORT that is stopped.
SystemServed == []OneCommand \/ <>[]SystemRuns => []<>(routed.domain = "SYSTEM")

=============================================================================
