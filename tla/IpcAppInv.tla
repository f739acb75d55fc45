------------------------------ MODULE IpcAppInv ------------------------------
(***************************************************************************)
(* The inductive invariants of IpcApp, part by part: of the references and *)
(* the start-up (IndInv), of the audio (AudioInv), and of what the threads *)
(* can have in hand (AllLimits, ShortQueues).                              *)
(***************************************************************************)
EXTENDS IpcApp

-----------------------------------------------------------------------------
(* The claims of a list of calls *)

\* How many of the elements of s from the k-th on are in S.
Places(s, k, S) == {i \in k .. Len(s) : s[i] \in S}
Number(s, k, S) == Cardinality(Places(s, k, S))

Elements(s) == {s[i] : i \in 1 .. Len(s)}

Msg  == Persistent \cup Short
OpName == {"ref", "unref", "send", "initialize", "register", "buffers", "enable", "wait",
           "cycles", "announce", "ping", "ask", "xfer", "domain", "route", "reply",
           "process", "audio", "heard"}
Call == [op : OpName, msg : Msg \cup {Nil}, core : Core]

Gives(m) == {x \in Call : x.msg = m /\ x.op \in {"send", "unref"}}
Takes(m) == {x \in Call : x.msg = m /\ x.op = "ref"}

Claim(s, k, m) == Number(s, k, Gives(m)) - Number(s, k, Takes(m))
Charge(x, m)   == IF x.msg # m THEN 0
                  ELSE IF x.op \in {"send", "unref"} THEN 1
                  ELSE IF x.op = "ref" THEN -1 ELSE 0

Mentions(s, k, m) == \E i \in k .. Len(s) : s[i].msg = m

\* Wherever a thread is in its list it owes no reference to a message, and it
\* holds one to every short message it will still use.
Balanced(s) ==
  \A m \in Msg : \A k \in 1 .. Len(s) :
    Claim(s, k, m) >= 0 /\ (m \in Short /\ Mentions(s, k, m) => Claim(s, k, m) >= 1)

-----------------------------------------------------------------------------
(* The references and the start-up *)

Total(g) == g[<<"ARM", "task">>] + g[<<"ARM", "irq">>]
            + g[<<"SHARC0", "task">>] + g[<<"SHARC0", "irq">>]
            + g[<<"SHARC1", "task">>] + g[<<"SHARC1", "irq">>]

\* The claims of all threads to m, and its places in the queues.
Held(f, m)    == Total([t \in Thread |-> Claim(f[t], 1, m)])
Waiting(q, m) == Number(q["ARM"], 1, {m}) + Number(q["SHARC0"], 1, {m}) + Number(q["SHARC1"], 1, {m})
Counter(r, m) == IF m \in DOMAIN r THEN r[m] ELSE 0
Own(r, m)     == IF m \in Persistent /\ m \in DOMAIN r THEN 1 ELSE 0

Counters == /\ ref = [m \in DOMAIN ref |-> ref[m]] /\ DOMAIN ref \subseteq Msg
            /\ \A m \in DOMAIN ref : ref[m] \in Nat /\ ref[m] > 0

PingPong == [{"IN", "OUT"} -> [Sharcs -> 0 .. 1]]

Types == /\ todo \in [Thread -> Seq(Call)] /\ queue \in [Core -> Seq(Msg)]
         /\ Counters
         /\ callback \subseteq Core /\ heard \subseteq Sharcs /\ running \in BOOLEAN
         /\ pp \in PingPong

StartupOps == {"initialize", "register", "buffers", "enable", "wait", "cycles", "announce"}
Late(t) == \A x \in Elements(todo[t]) : x.op \notin StartupOps

\* How far the startup of the ARM and of a SHARC has come.
ArmStage ==
  LET p == todo[<<"ARM", "task">>] IN
  \/ /\ p \in {ArmStartup, Tail(ArmStartup)}
     /\ "ARM" \notin callback /\ enabled = {"ARM"} /\ ~running /\ Audio \cap DOMAIN ref = {}
  \/ /\ p = <<Plain("buffers"), Plain("enable"), Plain("wait")>>
     /\ "ARM" \in callback /\ enabled = {"ARM"} /\ ~running /\ Audio \cap DOMAIN ref = {}
  \/ /\ p \in {<<Plain("enable"), Plain("wait")>>, <<Plain("wait")>>}
     /\ "ARM" \in callback /\ ~running /\ Audio \subseteq DOMAIN ref
     /\ Len(p) = 2 => enabled = {"ARM"}
  \/ /\ Late(<<"ARM", "task">>)
     /\ "ARM" \in callback /\ running /\ Audio \subseteq DOMAIN ref

SharcStage(s) ==
  LET p == todo[<<s, "task">>] IN
  \/ /\ p \in {SharcStartup, Tail(SharcStartup)} /\ s \notin callback /\ Cycles(s) \notin DOMAIN ref
  \/ p = <<Plain("register"), Plain("announce")>> /\ s \notin callback /\ Cycles(s) \in DOMAIN ref
  \/ p = <<Plain("announce")>> /\ s \in callback /\ Cycles(s) \in DOMAIN ref
  \/ Late(<<s, "task">>) /\ s \in callback /\ Cycles(s) \in DOMAIN ref

Stages ==
  /\ ArmStage /\ \A s \in Sharcs : SharcStage(s)
  /\ \A c \in Core : Late(<<c, "irq">>)
  /\ heard \subseteq callback /\ (running => heard = Sharcs)

\* What a message that is on its way says of the state.
Sound(m) ==
  /\ m \in Persistent => m \in DOMAIN ref
  /\ m.type = "READY" => m.core \in callback \cap Sharcs

\* A call thread t may still have to make.
Proper(t, x) ==
  /\ Sound(x.msg)
  /\ x.op = "send" => x.msg \in Msg /\ x.core \in callback /\ (x.core \in Sharcs => running)
  /\ x.op \in {"ref", "unref"} => x.msg \in Msg
  /\ x.op \in {"ping", "ask", "xfer", "domain", "route"} => t[1] = "ARM" /\ running
  /\ x.op = "xfer" => x.msg \in Audio /\ x.core \in Sharcs
  /\ x.op = "reply" => t[1] \in Sharcs
  /\ x.op = "heard" => x.msg.type = "READY"

Queues == \A c \in Core : /\ \A m \in Elements(queue[c]) : Sound(m)
                          /\ queue[c] # <<>> => c \in callback /\ (c \in Sharcs => running)

Flow == /\ \A t \in Thread : \A x \in Elements(todo[t]) : Proper(t, x)
        /\ Queues

Balance(r, q, f, m) == Counter(r, m) = Own(r, m) + Waiting(q, m) + Held(f, m)

Counted == /\ \A t \in Thread : Balanced(todo[t])
           /\ \A m \in Msg : Balance(ref, queue, todo, m)

IndInv == Types /\ Stages /\ Flow /\ Counted

-----------------------------------------------------------------------------
(* The line of a SHARC: what is under way to it *)

Dirs   == {"IN", "OUT"}
ArmIrq == <<"ARM", "irq">>

\* A process message, whichever it is.
Mark == Message("PROCESS", "ARM", 0)

\* What a message asks of a SHARC's audio, and what a call does about it.
ItemOf(m)   == IF m \in Audio THEN m ELSE IF m.type = "PROCESS" THEN Mark ELSE Nil
CallItem(x) == IF x.op = "audio" THEN x.msg ELSE IF x.op = "process" THEN Mark ELSE Nil
First(l)    == IF l = <<>> THEN Nil ELSE CallItem(l[1])

\* The call under way, then the queue.
LineOf(f, q) == [i \in 0 .. Len(q) |-> IF i = 0 THEN f ELSE ItemOf(q[i])]
Items(L)     == {L[i] : i \in DOMAIN L} \ {Nil}
IsLine(L, k) == k \in Nat /\ L \in [0 .. k -> Audio \cup {Mark, Nil}]

\* Of the two buffers of a pair the ARM keeps one while a block is routed
\* and has sent the other.
Kept(n) == n % 2
Sent(n) == 1 - (n % 2)
Prev(n) == IF n = 0 THEN 0 ELSE n - 1

\* The buffers the next process message works on: those of the block before
\* until it has been dealt with.  ps: the message of this block is sent.
Now(H, n, ps) == IF Mark \in H /\ ~ps THEN Kept(n) ELSE Sent(n)

\* Nothing is in the line twice, and a process message stands behind the
\* buffers it works on and before the others.
Order(L, w) ==
  /\ \A i, j \in DOMAIN L : L[i] = L[j] /\ L[i] # Nil => i = j
  /\ \A i, j \in DOMAIN L : L[i] \in Audio /\ L[j] = Mark => (i < j <=> L[i].id = w)

\* H: what is in the line of s; S: the directions whose buffers are sent in
\* the block n.
LineOK(s, H, n, S, ps) ==
  /\ H \subseteq Audio \cup {Mark}
  /\ \A x \in H \cap Audio : /\ x.core = s
                             /\ x.id = Sent(n) => x.type \in S
                             /\ x.id = Kept(n) => Now(H, n, ps) = Kept(n)
  /\ ps /\ Mark \notin H => H \cap Audio = {}
  /\ Now(H, n, ps) = Kept(n) => \A d \in S : Buffer(d, s, Sent(n)) \in H

\* The buffers s knows of are those the next process message works on, as far
\* as they have left the line.
InfoOK(s, H, n, S, ps, inf) ==
  \A d \in Dirs :
    inf[d] = IF Now(H, n, ps) = Kept(n)
             THEN (IF Buffer(d, s, Kept(n)) \in H THEN None ELSE Kept(n))
             ELSE (IF d \in S /\ Buffer(d, s, Sent(n)) \notin H /\ (ps => Mark \in H) THEN Sent(n) ELSE None)

\* What is in the buffers of s.
DataOK(s, H, n, ps, dat) ==
  /\ dat[Buffer("IN", s, Sent(n))] = n /\ dat[Buffer("IN", s, Kept(n))] = Prev(n)
  /\ Now(H, n, ps) = Sent(n) => dat[Buffer("OUT", s, Kept(n))] = Prev(n)
  /\ ps /\ Mark \notin H => dat[Buffer("OUT", s, Sent(n))] = n

Content(s, H, n, S, ps, inf, dat) ==
  LineOK(s, H, n, S, ps) /\ InfoOK(s, H, n, S, ps, inf) /\ DataOK(s, H, n, ps, dat)

Pipe(s, L, n, S, ps, inf, dat) ==
  Order(L, Now(Items(L), n, ps)) /\ Content(s, Items(L), n, S, ps, inf, dat)

-----------------------------------------------------------------------------
(* What every list of calls keeps to *)

Audible == {"audio", "process"}
Routing == {"xfer", "domain", "route"}

\* A call that has nothing to do with the audio.
Meek(x) == x.op \notin Audible \cup Routing /\ (x.op = "send" => ItemOf(x.msg) = Nil)

\* Only the ARM's interrupt moves buffers and tells the SHARCs to process; only
\* the SHARCs' interrupts take buffers over and process.
Quiet(t, x) ==
  /\ x.op \in Audible => t[1] \in Sharcs /\ t[2] = "irq"
  /\ x.op = "audio" => x.msg \in Audio /\ x.core = t[1]
  /\ t # ArmIrq => x.op \notin Routing /\ (x.op = "send" => ItemOf(x.msg) = Nil)

Talk == /\ \A t \in Thread : \A x \in Elements(todo[t]) : Quiet(t, x)
        /\ \A s \in Sharcs : \A i \in 2 .. Len(todo[<<s, "irq">>]) : todo[<<s, "irq">>][i].op \notin Audible

Doing(s)  == First(todo[<<s, "irq">>])
LineAt(s) == LineOf(Doing(s), queue[s])

AudioTypes ==
  /\ block \in Nat /\ active \subseteq {"CODEC_IN", "CODEC_OUT"}
  /\ stream \in [Dirs -> [Sharcs -> {None, 0, 1}]] /\ info \in [Sharcs -> [Dirs -> {None, 0, 1}]]
  /\ data \in [Audio -> Nat]

\* The buffers are silent until the first block is routed, which is after the
\* startup.
Silence == (~running => block = 0) /\ (block = 0 => \A m \in Audio : data[m] = 0)

Prepared == \A c \in Core : c \in ready \/ todo[<<c, "task">>] \in {ArmStartup, SharcStartup}

Basics == IndInv /\ Talk /\ AudioTypes /\ Silence /\ Prepared

-----------------------------------------------------------------------------
(* The stages of the ARM's interrupt *)

\* The calls left at the stage k: of the transfer of the direction d up to 6,
\* then of the telling of both SHARCs with the message m, n the block.
Calls(k, d, n, m) ==
  LET x    == Buffer(d, "SHARC0", Sent(n))
      y    == Buffer(d, "SHARC1", Sent(n))
      next == Op("xfer", Buffer(d, "SHARC1", 0), "SHARC1")
  IN CASE k = 0  -> <<Op("xfer", Buffer(d, "SHARC0", 0), "SHARC0"), next, Plain("domain")>>
       [] k = 1  -> <<Ref(x), Send(x, "SHARC0"), next, Plain("domain")>>
       [] k = 2  -> <<Send(x, "SHARC0"), next, Plain("domain")>>
       [] k = 3  -> <<next, Plain("domain")>>
       [] k = 4  -> <<Ref(y), Send(y, "SHARC1"), Plain("domain")>>
       [] k = 5  -> <<Send(y, "SHARC1"), Plain("domain")>>
       [] k = 6  -> <<Plain("domain")>>
       [] k = 7  -> <<Ref(m), Send(m, "SHARC0"), Ref(m), Send(m, "SHARC1"), Unref(m), Plain("route")>>
       [] k = 8  -> <<Send(m, "SHARC0"), Ref(m), Send(m, "SHARC1"), Unref(m), Plain("route")>>
       [] k = 9  -> <<Ref(m), Send(m, "SHARC1"), Unref(m), Plain("route")>>
       [] k = 10 -> <<Send(m, "SHARC1"), Unref(m), Plain("route")>>
       [] k = 11 -> <<Unref(m), Plain("route")>>
       [] k = 12 -> <<Plain("route")>>

\* The directions that have arrived in this block; those whose pair of s has
\* changed its parts, those whose buffer is sent to s, and whether s has been
\* told to process.  At the stage 13 the interrupt has nothing to do with audio.
DirOf(c)   == IF c = "CODEC_IN" THEN "OUT" ELSE "IN"
Arrived    == {DirOf(c) : c \in active}
Telling(k) == k \in 7 .. 12
At(s, i)   == IF s = "SHARC0" THEN i ELSE i + 3
Swapped(k, d, s)  == IF Telling(k) THEN Dirs ELSE IF k < At(s, 1) THEN Arrived \ {d} ELSE Arrived
SentDirs(k, d, s) == IF Telling(k) THEN Dirs ELSE IF k < At(s, 3) THEN Arrived \ {d} ELSE Arrived
Told(k, s)        == Telling(k) /\ k >= (IF s = "SHARC0" THEN 9 ELSE 11)

Listed(k, d, m) ==
  \/ /\ k \in 0 .. 12 /\ todo[ArmIrq] = Calls(k, d, block, m)
     /\ k <= 6 => d \in Arrived
     /\ k >= 7 => active = {} /\ m \in Short /\ m.type = "PROCESS"
  \/ k = 13 /\ Arrived # Dirs /\ \A x \in Elements(todo[ArmIrq]) : x.op \in {"heard", "unref"}

Pair(k, d, s) ==
  \A e \in Dirs : /\ pp[e][s] = IF e \in Swapped(k, d, s) THEN Sent(block) ELSE Kept(block)
                  /\ stream[e][s] = IF e \in Swapped(k, d, s) THEN Kept(block) ELSE None
LineIs(k, d, s) ==
  Pipe(s, LineAt(s), block, SentDirs(k, d, s), Told(k, s), info[s], data)

\* When a block is complete the SHARCs have dealt with the one before it.
InTime(k, s) == Arrived = Dirs \/ Telling(k) => (Mark \in Items(LineAt(s)) => Told(k, s))

Phase(k, d, m) ==
  Listed(k, d, m) /\ \A s \in Sharcs : Pair(k, d, s) /\ LineIs(k, d, s) /\ InTime(k, s)

Staged == \E k \in 0 .. 13, d \in Dirs, m \in Msg : Phase(k, d, m)

AudioInv == Basics /\ BlocksReturn /\ Staged

-----------------------------------------------------------------------------
(* How much a thread can have in hand *)

\* How many of a few calls are in S.
In(x, S) == IF x \in S THEN 1 ELSE 0

\* replaced by gives it away.
Makes  == {"announce", "reply", "ping", "ask", "domain"}
GivesShort == {x \in Call : \/ x.op \in Makes
                            \/ x.op \in {"send", "unref"} /\ x.msg \in Short}
GivesTwice == {x \in Call : x.op \in {"ping", "ask", "domain"}}
GivesThrice == {x \in Call : x.op = "domain"}
Load(l)   == Number(l, 1, GivesShort) + Number(l, 1, GivesTwice) + Number(l, 1, GivesThrice)
Weight(x) == In(x, GivesShort) + In(x, GivesTwice) + In(x, GivesThrice)
Cap(t) == IF t = <<"ARM", "task">> THEN 4
          ELSE IF t = ArmIrq THEN 3
          ELSE IF t[2] = "irq" THEN 2 ELSE 1

\* The calls that give m away, now or when the transfer is begun.
Gifts(m) == Gives(m) \cup {x \in Call : x.op = "xfer" /\ m \in Audio /\ x.msg.type = m.type /\ x.core = m.core}

\* A call that may be in the list of t.
Apt(t, x) ==
  /\ x.op \in Routing => t = ArmIrq
  /\ x.op \in Audible => t[1] \in Sharcs
  /\ x.op = "audio" => x.msg \in Audio /\ x.core \in Sharcs

\* What the list l of the thread t keeps to: it gives few short messages away, no
\* message more than three times, and ends with the call that routes.
Limits(l, t) ==
  /\ Load(l) <= Cap(t)
  /\ \A m \in Msg : Number(l, 1, Gifts(m)) <= 3
  /\ \A i \in 1 .. Len(l) : l[i].op \in {"domain", "route"} => i = Len(l)
  /\ \A x \in Elements(l) : Apt(t, x)

\* Every thread is within its limits.
AllLimits == \A u \in Thread : Limits(todo[u], u)

\* A queue never takes more than its ring has room for.
ShortQueues == \A c \in Core : Len(queue[c]) < QSize

-----------------------------------------------------------------------------
(* The types of the audio's variables *)

\* The calls the ARM's interrupt has yet to make, by their kind; the buffers
\* it has yet to transfer; the directions whose codec stream has arrived.
Has(S)        == \E x \in Elements(todo[ArmIrq]) : x.op \in S
Pending(d, s) == \E x \in Elements(todo[ArmIrq]) : x.op = "xfer" /\ x.msg.type = d /\ x.core = s
Brought(d)    == \E a \in active : d = IF a = "CODEC_IN" THEN "OUT" ELSE "IN"

\* A block that is to be routed is within the bound, and the buffers it is
\* routed between are there or about to be.
Turn ==
  /\ Has({"domain", "route"}) => block < MaxBlocks
  /\ Has({"route"}) => active = {}
  /\ \A d \in Dirs, s \in Sharcs :
       Brought(d) \/ Has({"route"}) => stream[d][s] \in 0 .. 1 \/ Pending(d, s)

\* The types of the variables IndInv leaves out.
Fields ==
  /\ ready \subseteq Core /\ enabled \subseteq Core /\ active \subseteq {"CODEC_IN", "CODEC_OUT"}
  /\ stream \in [Dirs -> [Sharcs -> {None, 0, 1}]] /\ info \in [Sharcs -> [Dirs -> {None, 0, 1}]]
  /\ data \in [Audio -> 0 .. MaxBlocks] /\ got \in [Sharcs -> 0 .. MaxBlocks] /\ block \in 0 .. MaxBlocks

=============================================================================
