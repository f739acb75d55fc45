---------------------------- MODULE IpcApp_proofs ----------------------------
(***************************************************************************)
(* Theorems about IpcApp.  A thread is a list of calls, so its claim to a  *)
(* message is counted on that list: the references it will give away, less *)
(* those it will take.  A counter is the sum of the claims of the threads, *)
(* the places the message has in queues and, for a persistent one, its     *)
(* creator's reference.                                                    *)
(*                                                                         *)
(* The second half is about the audio.  What is under way to a SHARC is a  *)
(* line: the call its interrupt works on, then its queue.  The ARM's       *)
(* interrupt goes through the stages of a block, and the stage says which  *)
(* buffers and which process message are in each line, in which order, and *)
(* which block the samples of every buffer are of.                         *)
(*                                                                         *)
(* The last part counts what a thread can have in hand: how many short     *)
(* messages it may still give away, and how often each.  With the places   *)
(* in the queues this bounds the short messages that exist at once.        *)
(***************************************************************************)
EXTENDS IpcAppInv, FiniteSetTheorems, SequenceTheorems, TLAPS

-----------------------------------------------------------------------------
(* Counting in a sequence *)

LEMMA PlacesFinite ==
  ASSUME NEW T, NEW s \in Seq(T), NEW k \in Nat, NEW S
  PROVE  IsFiniteSet(Places(s, k, S)) /\ Number(s, k, S) \in Nat
<1>1. IsFiniteSet(k .. Len(s))
  BY FS_Interval
<1>2. Places(s, k, S) \in SUBSET (k .. Len(s))
  BY DEF Places
<1> QED BY <1>1, <1>2, FS_Subset, FS_CardinalityType DEF Number

LEMMA NumberOfNone ==
  ASSUME NEW T, NEW s \in Seq(T), NEW S, NEW k \in Nat, \A i \in k .. Len(s) : s[i] \notin S
  PROVE  Number(s, k, S) = 0
<1>1. Places(s, k, S) = {}
  BY DEF Places
<1> QED BY <1>1, FS_EmptySet DEF Number

LEMMA NumberStep ==
  ASSUME NEW T, NEW s \in Seq(T), NEW k \in 1 .. Len(s), NEW S
  PROVE  Number(s, k, S) = Number(s, k + 1, S) + (IF s[k] \in S THEN 1 ELSE 0)
<1> DEFINE P == Places(s, k + 1, S)
<1>1. IsFiniteSet(P) /\ Cardinality(P) \in Nat /\ k \notin P
  <2>1. k + 1 \in Nat
    OBVIOUS
  <2>2. IsFiniteSet(P) /\ Cardinality(P) \in Nat
    BY <2>1, PlacesFinite DEF Number
  <2> QED BY <2>2 DEF Places
<1>2. CASE s[k] \in S
  <2>1. Places(s, k, S) = P \cup {k}
    BY <1>2 DEF Places
  <2> QED BY <1>1, <1>2, <2>1, FS_AddElement DEF Number
<1>3. CASE s[k] \notin S
  <2>1. Places(s, k, S) = P
    BY <1>3 DEF Places
  <2> QED BY <1>1, <1>3, <2>1 DEF Number
<1> QED BY <1>2, <1>3

\* r has what s has from its k-th place on, d places further on.
Shifted(s, k, r, d) == Len(r) = Len(s) + d /\ \A i \in k .. Len(s) : r[i + d] = s[i]

LEMMA NumberShift ==
  ASSUME NEW T, NEW s \in Seq(T), NEW r \in Seq(T), NEW S, NEW k \in Nat, NEW d \in Int,
         k + d \in Nat, Shifted(s, k, r, d)
  PROVE  Number(r, k + d, S) = Number(s, k, S)
<1> DEFINE j == k + d
<1> USE DEF Shifted
<1> DEFINE A == Places(s, k, S)
           B == Places(r, j, S)
           f == [i \in A |-> i + d]
<1>1. \A i \in A : i \in Int /\ i + d \in B
  BY DEF Places
<1>2. \A b \in B : b - d \in A /\ (b - d) + d = b
  BY DEF Places
<1> HIDE DEF A, B
<1>3. f \in Bijection(A, B)
  <2>1. f \in [A -> B]
    BY <1>1
  <2>2. \A a, b \in A : f[a] = f[b] => a = b
    BY <1>1
  <2>3. \A b \in B : \E a \in A : f[a] = b
    BY <1>2
  <2> HIDE DEF f
  <2> QED BY <2>1, <2>2, <2>3 DEF Bijection, Injection, IsInjective, Surjection
<1>4. IsFiniteSet(A)
  BY PlacesFinite DEF A
<1>5. ExistsBijection(A, B)
  BY <1>3 DEF ExistsBijection
<1> QED BY <1>4, <1>5, FS_Bijection DEF Number, A, B

\* r is a, followed by b.
Joined(a, b, r) ==
  /\ Len(r) = Len(a) + Len(b)
  /\ \A i \in 1 .. Len(a) : r[i] = a[i]
  /\ \A i \in 1 .. Len(b) : r[i + Len(a)] = b[i]

LEMMA NumberOfBoth ==
  ASSUME NEW T, NEW a \in Seq(T), NEW b \in Seq(T), NEW r \in Seq(T), NEW S,
         NEW k \in 1 .. Len(a) + 1, Joined(a, b, r)
  PROVE  Number(r, k, S) = Number(a, k, S) + Number(b, 1, S)
<1> USE DEF Joined
<1> DEFINE A == Places(a, k, S)
           B == Places(r, 1 + Len(a), S)
<1>1. IsFiniteSet(A) /\ IsFiniteSet(B) /\ Cardinality(A) \in Nat /\ Cardinality(B) \in Nat
  BY PlacesFinite DEF Number
<1>2. Places(r, k, S) = A \cup B /\ A \cap B = {}
  <2>1. \A i \in k .. Len(r) : \/ i \in k .. Len(a) /\ r[i] = a[i]
                               \/ i \in 1 + Len(a) .. Len(r)
    OBVIOUS
  <2>2. \A i \in k .. Len(a) : i \in k .. Len(r) /\ r[i] = a[i] /\ i \notin 1 + Len(a) .. Len(r)
    OBVIOUS
  <2> QED BY <2>1, <2>2 DEF Places
<1>3. Cardinality(B) = Number(b, 1, S)
  <2>1. Shifted(b, 1, r, Len(a)) /\ Len(a) \in Int /\ 1 + Len(a) \in Nat
    BY DEF Shifted
  <2>2. Number(r, 1 + Len(a), S) = Number(b, 1, S)
    BY <2>1, NumberShift
  <2> QED BY <2>2 DEF Number
<1> HIDE DEF A, B
<1>4. Cardinality(A \cup B) = Cardinality(A) + Cardinality(B)
  <2>1. Cardinality(A \cup B) = Cardinality(A) + Cardinality(B) - Cardinality(A \cap B)
    BY <1>1, FS_Union
  <2>2. Cardinality(A \cap B) = 0
    BY <1>2, FS_EmptySet
  <2> QED BY <1>1, <2>1, <2>2
<1> QED BY <1>2, <1>3, <1>4 DEF Number, A

-----------------------------------------------------------------------------
(* The claims of a list of calls *)

\* A claim is the sum of the charges of the calls.
Summed(s, m) ==
  /\ \A k \in 1 .. Len(s) : Claim(s, k, m) = Claim(s, k + 1, m) + Charge(s[k], m)
  /\ Claim(s, Len(s) + 1, m) = 0
  /\ \A k \in 1 .. Len(s) + 1 : Claim(s, k, m) \in Int

LEMMA ClaimSteps ==
  ASSUME NEW s \in Seq(Call), NEW m
  PROVE  Summed(s, m)
<1>1. \A k \in 1 .. Len(s) : /\ k \in Nat /\ k + 1 \in Nat
                             /\ s[k] \in Call
  OBVIOUS
<1>2. \A k \in 1 .. Len(s) :
        /\ Number(s, k, Gives(m)) = Number(s, k + 1, Gives(m)) + (IF s[k] \in Gives(m) THEN 1 ELSE 0)
        /\ Number(s, k, Takes(m)) = Number(s, k + 1, Takes(m)) + (IF s[k] \in Takes(m) THEN 1 ELSE 0)
  BY NumberStep
<1>3. \A k \in 1 .. Len(s) + 1 : Number(s, k, Gives(m)) \in Nat /\ Number(s, k, Takes(m)) \in Nat
  BY PlacesFinite
<1>4. \A x \in Call : Charge(x, m) = (IF x \in Gives(m) THEN 1 ELSE 0) - (IF x \in Takes(m) THEN 1 ELSE 0)
  BY DEF Charge, Gives, Takes
<1>5. \A k \in 1 .. Len(s) : Claim(s, k, m) = Claim(s, k + 1, m) + Charge(s[k], m)
  <2> SUFFICES ASSUME NEW k \in 1 .. Len(s)
               PROVE  Claim(s, k, m) = Claim(s, k + 1, m) + Charge(s[k], m)
    OBVIOUS
  <2>1. k + 1 \in 1 .. Len(s) + 1 /\ k \in 1 .. Len(s) + 1
    OBVIOUS
  <2>2. /\ Number(s, k + 1, Gives(m)) \in Nat /\ Number(s, k + 1, Takes(m)) \in Nat
        /\ Number(s, k, Gives(m)) \in Nat /\ Number(s, k, Takes(m)) \in Nat
    BY <1>3, <2>1
  <2>3. Charge(s[k], m) = (IF s[k] \in Gives(m) THEN 1 ELSE 0) - (IF s[k] \in Takes(m) THEN 1 ELSE 0)
    BY <1>1, <1>4
  <2>4. /\ Number(s, k, Gives(m)) = Number(s, k + 1, Gives(m)) + (IF s[k] \in Gives(m) THEN 1 ELSE 0)
        /\ Number(s, k, Takes(m)) = Number(s, k + 1, Takes(m)) + (IF s[k] \in Takes(m) THEN 1 ELSE 0)
    BY <1>2
  <2> HIDE DEF Number, Gives, Takes, Charge
  <2> QED BY <2>2, <2>3, <2>4 DEF Claim
<1>6. Number(s, Len(s) + 1, Gives(m)) = 0 /\ Number(s, Len(s) + 1, Takes(m)) = 0
  <2>1. Len(s) + 1 \in Nat /\ \A i \in Len(s) + 1 .. Len(s) : FALSE
    OBVIOUS
  <2> QED BY <2>1, NumberOfNone
<1> QED BY <1>3, <1>5, <1>6 DEF Claim, Summed

LEMMA ClaimOfBoth ==
  ASSUME NEW a \in Seq(Call), NEW b \in Seq(Call), NEW r \in Seq(Call), Joined(a, b, r), NEW m,
         NEW k \in 1 .. Len(a) + 1
  PROVE  Claim(r, k, m) = Claim(a, k, m) + Claim(b, 1, m)
<1>1. /\ Number(r, k, Gives(m)) = Number(a, k, Gives(m)) + Number(b, 1, Gives(m))
      /\ Number(r, k, Takes(m)) = Number(a, k, Takes(m)) + Number(b, 1, Takes(m))
  BY NumberOfBoth
<1>2. \A S : Number(a, k, S) \in Nat /\ Number(b, 1, S) \in Nat
  <2>1. k \in Nat /\ 1 \in Nat
    OBVIOUS
  <2> QED BY <2>1, PlacesFinite
<1> QED BY <1>1, <1>2 DEF Claim

LEMMA ClaimShift ==
  ASSUME NEW s \in Seq(Call), NEW r \in Seq(Call), NEW k \in Nat, NEW d \in Int, NEW m,
         k + d \in Nat, Shifted(s, k, r, d)
  PROVE  Claim(r, k + d, m) = Claim(s, k, m)
BY NumberShift DEF Claim

LEMMA BalancedBoth ==
  ASSUME NEW a \in Seq(Call), NEW b \in Seq(Call), NEW r \in Seq(Call), Joined(a, b, r),
         Balanced(a), Balanced(b)
  PROVE  Balanced(r)
<1> SUFFICES ASSUME NEW m \in Msg, NEW k \in 1 .. Len(r)
             PROVE  Claim(r, k, m) >= 0 /\ (m \in Short /\ Mentions(r, k, m) => Claim(r, k, m) >= 1)
  BY DEF Balanced
<1>1. /\ Claim(b, 1, m) \in Int /\ Claim(b, 1, m) >= 0
      /\ m \in Short /\ Mentions(b, 1, m) => Claim(b, 1, m) >= 1
  <2>1. Summed(b, m)
    BY ClaimSteps
  <2>2. CASE Len(b) = 0
    BY <2>1, <2>2 DEF Mentions, Summed
  <2>3. CASE Len(b) # 0
    <3>1. 1 \in 1 .. Len(b) /\ 1 \in 1 .. Len(b) + 1
      BY <2>3
    <3> QED BY <2>1, <3>1 DEF Balanced, Summed
  <2> QED BY <2>2, <2>3
<1>2. CASE k <= Len(a)
  <2>1. Claim(r, k, m) = Claim(a, k, m) + Claim(b, 1, m) /\ Claim(a, k, m) \in Int
    <3>1. k \in 1 .. Len(a) + 1 /\ Summed(a, m)
      BY <1>2, ClaimSteps
    <3> QED BY <3>1, ClaimOfBoth DEF Summed
  <2>2. Mentions(r, k, m) => Mentions(a, k, m) \/ Mentions(b, 1, m)
    <3> SUFFICES ASSUME NEW i \in k .. Len(r), r[i].msg = m
                 PROVE  Mentions(a, k, m) \/ Mentions(b, 1, m)
      BY DEF Mentions
    <3>1. CASE i <= Len(a)
      BY <3>1 DEF Mentions, Joined
    <3>2. CASE i > Len(a)
      <4>1. i - Len(a) \in 1 .. Len(b) /\ (i - Len(a)) + Len(a) = i
        BY <3>2 DEF Joined
      <4>2. b[i - Len(a)].msg = m
        BY <4>1 DEF Joined
      <4> QED BY <4>1, <4>2 DEF Mentions
    <3> QED BY <3>1, <3>2
  <2>3. Claim(a, k, m) >= 0 /\ (m \in Short /\ Mentions(a, k, m) => Claim(a, k, m) >= 1)
    BY <1>2 DEF Balanced
  <2> QED BY <1>1, <2>1, <2>2, <2>3
<1>3. CASE k > Len(a)
  <2> DEFINE d == -Len(a)
             j == k + d
  <2>1. d \in Int /\ j \in 1 .. Len(b) /\ k \in Nat /\ j \in Nat /\ Shifted(r, k, b, d)
    <3>1. d \in Int /\ j \in 1 .. Len(b) /\ k \in Nat /\ j \in Nat /\ Len(b) = Len(r) + d
      BY <1>3 DEF Joined
    <3>2. \A i \in k .. Len(r) : i + d \in 1 .. Len(b) /\ (i + d) + Len(a) = i
      BY <1>3 DEF Joined
    <3>3. \A i \in k .. Len(r) : b[i + d] = r[i]
      BY <3>2 DEF Joined
    <3> QED BY <3>1, <3>3 DEF Shifted
  <2>2. Claim(b, j, m) = Claim(r, k, m)
    BY <2>1, ClaimShift
  <2>3. Mentions(r, k, m) => Mentions(b, j, m)
    <3> SUFFICES ASSUME NEW i \in k .. Len(r), r[i].msg = m PROVE Mentions(b, j, m)
      BY DEF Mentions
    <3>1. i + d \in j .. Len(b) /\ b[i + d].msg = m
      BY <2>1 DEF Shifted
    <3> QED BY <3>1 DEF Mentions
  <2> HIDE DEF j, d
  <2> QED BY <2>1, <2>2, <2>3 DEF Balanced
<1> QED BY <1>2, <1>3

LEMMA TailOfCalls ==
  ASSUME NEW s \in Seq(Call), s # <<>>
  PROVE  /\ Tail(s) \in Seq(Call) /\ Len(Tail(s)) = Len(s) - 1
         /\ \A i \in 1 .. Len(Tail(s)) : Tail(s)[i] = s[i + 1]
         /\ Head(s) = s[1] /\ s[1] \in Call /\ 1 \in 1 .. Len(s)
OBVIOUS

LEMMA ClaimOfTail ==
  ASSUME NEW s \in Seq(Call), s # <<>>, NEW m
  PROVE  /\ \A k \in 1 .. Len(Tail(s)) + 1 : Claim(Tail(s), k, m) = Claim(s, k + 1, m)
         /\ Claim(Tail(s), 1, m) = Claim(s, 1, m) - Charge(Head(s), m)
<1> DEFINE r == Tail(s)
<1>1. /\ r \in Seq(Call) /\ Len(r) = Len(s) - 1 /\ 1 \in 1 .. Len(s)
      /\ \A i \in 1 .. Len(r) : r[i] = s[i + 1]
      /\ Head(s) = s[1] /\ s[1] \in Call
  BY TailOfCalls
<1> HIDE DEF r
<1>2. ASSUME NEW k \in 1 .. Len(r) + 1 PROVE Claim(r, k, m) = Claim(s, k + 1, m)
  <2>1. Shifted(r, k, s, 1) /\ k \in Nat /\ 1 \in Int /\ k + 1 \in Nat
    BY <1>1 DEF Shifted
  <2> QED BY <1>1, <2>1, ClaimShift
<1>3. Summed(s, m) /\ 1 \in 1 .. Len(r) + 1
  BY <1>1, ClaimSteps
<1>4. Claim(s, 1, m) = Claim(s, 2, m) + Charge(s[1], m) /\ Claim(s, 2, m) \in Int
  <2>1. 2 \in 1 .. Len(s) + 1
    BY <1>1
  <2> QED BY <1>1, <1>3, <2>1 DEF Summed
<1>5. Charge(s[1], m) \in Int
  BY DEF Charge
<1>6. Claim(r, 1, m) = Claim(s, 2, m)
  BY <1>2, <1>3
<1> HIDE DEF Charge, Claim
<1> QED BY <1>1, <1>2, <1>4, <1>5, <1>6 DEF r

LEMMA BalancedTail ==
  ASSUME NEW s \in Seq(Call), s # <<>>, Balanced(s)
  PROVE  Balanced(Tail(s))
<1> SUFFICES ASSUME NEW m \in Msg, NEW k \in 1 .. Len(Tail(s))
             PROVE  /\ Claim(Tail(s), k, m) >= 0
                    /\ m \in Short /\ Mentions(Tail(s), k, m) => Claim(Tail(s), k, m) >= 1
  BY DEF Balanced
<1>1. k + 1 \in 1 .. Len(s) /\ k \in 1 .. Len(Tail(s)) + 1
  BY TailOfCalls
<1>2. Claim(Tail(s), k, m) = Claim(s, k + 1, m)
  BY <1>1, ClaimOfTail
<1>3. Mentions(Tail(s), k, m) => Mentions(s, k + 1, m)
  <2> SUFFICES ASSUME NEW i \in k .. Len(Tail(s)), Tail(s)[i].msg = m PROVE Mentions(s, k + 1, m)
    BY DEF Mentions
  <2>1. i + 1 \in k + 1 .. Len(s) /\ s[i + 1].msg = m
    BY TailOfCalls
  <2> QED BY <2>1 DEF Mentions
<1> QED BY <1>1, <1>2, <1>3 DEF Balanced

\* A thread that goes on with "then" after the first of its calls.
LEMMA GoesOn ==
  ASSUME NEW s \in Seq(Call), s # <<>>, NEW then \in Seq(Call)
  PROVE  /\ then \o Tail(s) \in Seq(Call)
         /\ Elements(then \o Tail(s)) \subseteq Elements(then) \cup Elements(s)
         /\ Balanced(s) /\ Balanced(then) => Balanced(then \o Tail(s))
         /\ \A m : Claim(then \o Tail(s), 1, m) = Claim(then, 1, m) + Claim(s, 1, m) - Charge(Head(s), m)
<1> DEFINE r == then \o Tail(s)
<1>1. Tail(s) \in Seq(Call) /\ \A i \in 1 .. Len(Tail(s)) : i + 1 \in 1 .. Len(s) /\ Tail(s)[i] = s[i + 1]
  BY TailOfCalls
<1>2. r \in Seq(Call) /\ Joined(then, Tail(s), r)
  BY <1>1 DEF Joined
<1>3. Elements(r) \subseteq Elements(then) \cup Elements(s)
  <2> SUFFICES ASSUME NEW i \in 1 .. Len(r) PROVE r[i] \in Elements(then) \cup Elements(s)
    BY DEF Elements
  <2>1. CASE i \in 1 .. Len(then)
    BY <1>2, <2>1 DEF Elements, Joined
  <2>2. CASE i \notin 1 .. Len(then)
    <3>1. i - Len(then) \in 1 .. Len(Tail(s)) /\ (i - Len(then)) + Len(then) = i
      BY <1>1, <1>2, <2>2 DEF Joined
    <3>2. r[i] = s[i - Len(then) + 1] /\ i - Len(then) + 1 \in 1 .. Len(s)
      BY <1>1, <1>2, <3>1 DEF Joined
    <3> QED BY <3>2 DEF Elements
  <2> QED BY <2>1, <2>2
<1>4. Balanced(s) /\ Balanced(then) => Balanced(r)
  BY <1>1, <1>2, BalancedTail, BalancedBoth
<1>5. ASSUME NEW m PROVE Claim(r, 1, m) = Claim(then, 1, m) + Claim(s, 1, m) - Charge(Head(s), m)
  <2>1. 1 \in 1 .. Len(then) + 1
    OBVIOUS
  <2> HIDE DEF r
  <2>2. Claim(r, 1, m) = Claim(then, 1, m) + Claim(Tail(s), 1, m)
    <3>1. \A b \in Seq(Call) : Joined(then, b, r) => Claim(r, 1, m) = Claim(then, 1, m) + Claim(b, 1, m)
      BY <1>2, <2>1, ClaimOfBoth
    <3> QED BY <1>1, <1>2, <3>1
  <2>3. Claim(Tail(s), 1, m) = Claim(s, 1, m) - Charge(Head(s), m)
    BY ClaimOfTail
  <2>4. Summed(then, m) /\ Summed(s, m) /\ Charge(Head(s), m) \in Int
    BY ClaimSteps DEF Charge
  <2>5. Claim(then, 1, m) \in Int /\ Claim(s, 1, m) \in Int
    BY <2>1, <2>4 DEF Summed
  <2> HIDE DEF Claim, Charge
  <2> QED BY <2>2, <2>3, <2>4, <2>5
<1> QED BY <1>2, <1>3, <1>4, <1>5

-----------------------------------------------------------------------------
(* Messages, totals and queues *)

LEMMA Threads ==
  /\ Thread = {<<"ARM", "task">>, <<"ARM", "irq">>, <<"SHARC0", "task">>,
               <<"SHARC0", "irq">>, <<"SHARC1", "task">>, <<"SHARC1", "irq">>}
  /\ Core = {"ARM", "SHARC0", "SHARC1"} /\ Sharcs = {"SHARC0", "SHARC1"}
BY DEF Thread, Core, Sharcs

LEMMA Messages ==
  /\ Persistent \cap Short = {} /\ Nil \notin Msg /\ Audio \subseteq Persistent
  /\ \A s \in Sharcs : Cycles(s) \in Persistent \ Audio
  /\ \A m \in Persistent : m.type # "READY" /\ m.core \in Sharcs
  /\ \A m \in Short : m.core \in Core /\ m.type \notin {"IN", "OUT"}
  /\ Nil.type = "NULL"
<1>1. \A m \in Audio : m.type \in {"IN", "OUT"} /\ m.core \in Sharcs /\ m.id \in 0 .. 1
  BY DEF Audio, Message
<1>2. \A s \in Sharcs : Cycles(s).type = "CYCLES" /\ Cycles(s).id = 0 /\ Cycles(s).core = s
  BY DEF Cycles, Message
<1>3. \A m \in Short : /\ m.type \in {"PING", "CYCLES", "READY", "PROCESS"}
                       /\ m.core \in Core /\ m.id \in 1 .. Heap
  BY DEF Short, Message
<1>4. \A m \in Persistent : m \in Audio \/ \E s \in Sharcs : m = Cycles(s)
  BY DEF Persistent
<1>5. Nil.type = "NULL"
  BY DEF Nil, Message
<1>6. Persistent \cap Short = {}
  BY <1>1, <1>2, <1>3, <1>4, HeapAssumption
<1>7. Nil \notin Msg
  BY <1>1, <1>2, <1>3, <1>4, <1>5 DEF Msg
<1>8. \A s \in Sharcs : Cycles(s) \in Persistent \ Audio
  BY <1>1, <1>2 DEF Persistent
<1> QED BY <1>1, <1>2, <1>3, <1>4, <1>5, <1>6, <1>7, <1>8 DEF Persistent

LEMMA BufferIsAudio ==
  \A d \in {"IN", "OUT"}, s \in Sharcs, i \in 0 .. 1 : Buffer(d, s, i) \in Audio
BY DEF Buffer, Audio

\* A set of positive numbers that is not empty has a least one.
LEMMA LeastId ==
  ASSUME NEW S \in SUBSET Nat, S # {}
  PROVE  \E i \in S : \A j \in S : i <= j
<1> DEFINE Less == {ss \in Nat \X Nat : ss[1] < ss[2]}
<1>1. IsWellFoundedOn(Less, Nat)
  BY NatLessThanWellFounded DEF OpToRel
<1> HIDE DEF Less
<1>2. PICK i \in S : \A j \in S : ~(<<j, i>> \in Less)
  BY <1>1, WFMin
<1>3. ASSUME NEW j \in S, ~(i <= j) PROVE FALSE
  <2>1. j \in Nat /\ i \in Nat /\ j < i
    BY <1>3
  <2>2. <<j, i>> \in Less
    BY <2>1 DEF Less
  <2> QED BY <1>2, <2>2
<1> QED BY <1>3

LEMMA FreshIsFree ==
  ASSUME NEW t \in {"PING", "CYCLES", "READY", "PROCESS"}, NEW c \in Core
  PROVE  \/ Fresh(t, c) = Nil
         \/ /\ Fresh(t, c) \in Short /\ Fresh(t, c) \notin DOMAIN ref
            /\ Fresh(t, c).type = t /\ Fresh(t, c).core = c
<1>1. CASE FreeIds = {}
  BY <1>1 DEF Fresh
<1>2. CASE FreeIds # {}
  <2> DEFINE i == CHOOSE i \in FreeIds : \A j \in FreeIds : i <= j
  <2>1. FreeIds \in SUBSET Nat
    BY DEF FreeIds
  <2>2. i \in FreeIds
    BY <1>2, <2>1, LeastId
  <2> HIDE DEF i
  <2>3. Message(t, c, i) \in Short
    BY <2>2 DEF FreeIds, Short
  <2>4. Message(t, c, i) \notin DOMAIN ref
    <3>1. Message(t, c, i).id = i
      BY DEF Message
    <3> QED BY <2>2, <2>3, <3>1, Messages DEF FreeIds
  <2>5. Fresh(t, c) = Message(t, c, i)
    BY <1>2 DEF Fresh, i
  <2> QED BY <2>3, <2>4, <2>5 DEF Message
<1> QED BY <1>1, <1>2

LEMMA TotalChanges ==
  ASSUME NEW g \in [Thread -> Int], NEW t \in Thread, NEW h \in [Thread -> Int],
         \A u \in Thread \ {t} : h[u] = g[u]
  PROVE  Total(h) = Total(g) - g[t] + h[t] /\ Total(g) \in Int
BY Threads DEF Total

LEMMA TotalCovers ==
  ASSUME NEW g \in [Thread -> Int], \A u \in Thread : g[u] >= 0
  PROVE  Total(g) \in Int /\ Total(g) >= 0 /\ \A t \in Thread : Total(g) >= g[t]
BY Threads DEF Total

-----------------------------------------------------------------------------
(* One thread, or one queue, changes *)

LEMMA ClaimIsInt ==
  ASSUME NEW s \in Seq(Call), NEW m
  PROVE  /\ Claim(s, 1, m) \in Int
         /\ Balanced(s) /\ m \in Msg => Claim(s, 1, m) >= 0
<1>1. Summed(s, m) /\ 1 \in 1 .. Len(s) + 1
  BY ClaimSteps
<1>2. CASE Len(s) = 0
  BY <1>1, <1>2 DEF Summed
<1>3. CASE Len(s) # 0
  <2>1. 1 \in 1 .. Len(s)
    BY <1>3
  <2> QED BY <1>1, <2>1 DEF Balanced, Summed
<1> QED BY <1>2, <1>3

\* The claims of a thread that goes on.
\* f and e differ in the list of thread t only.
OnlyAt(t, f, e) == \A u \in Thread \ {t} : e[u] = f[u]

LEMMA HeldMoves ==
  ASSUME NEW m, NEW t \in Thread, NEW f \in [Thread -> Seq(Call)], NEW e \in [Thread -> Seq(Call)],
         OnlyAt(t, f, e)
  PROVE  /\ Held(e, m) = Held(f, m) - Claim(f[t], 1, m) + Claim(e[t], 1, m)
         /\ Held(f, m) \in Int
<1> DEFINE g == [u \in Thread |-> Claim(f[u], 1, m)]
           h == [u \in Thread |-> Claim(e[u], 1, m)]
<1>1. g \in [Thread -> Int] /\ h \in [Thread -> Int] /\ \A u \in Thread \ {t} : h[u] = g[u]
  BY ClaimIsInt DEF OnlyAt
<1>2. g[t] = Claim(f[t], 1, m) /\ h[t] = Claim(e[t], 1, m)
  OBVIOUS
<1>3. Held(f, m) = Total(g) /\ Held(e, m) = Total(h)
  BY DEF Held
<1> HIDE DEF g, h
<1>4. Total(h) = Total(g) - g[t] + h[t] /\ Total(g) \in Int
  BY <1>1, TotalChanges
<1> QED BY <1>2, <1>3, <1>4

\* No thread owes anything, so each claim is covered by the sum.
LEMMA HeldCovers ==
  ASSUME NEW f \in [Thread -> Seq(Call)], \A t \in Thread : Balanced(f[t]), NEW m \in Msg
  PROVE  /\ Held(f, m) \in Int /\ Held(f, m) >= 0
         /\ \A t \in Thread : Held(f, m) >= Claim(f[t], 1, m)
<1> DEFINE g == [u \in Thread |-> Claim(f[u], 1, m)]
<1>1. ASSUME NEW t \in Thread PROVE Claim(f[t], 1, m) \in Int /\ Claim(f[t], 1, m) >= 0
  BY ClaimIsInt
<1>2. g \in [Thread -> Int] /\ \A u \in Thread : g[u] >= 0 /\ g[u] = Claim(f[u], 1, m)
  BY <1>1
<1>3. Held(f, m) = Total(g)
  BY DEF Held
<1> HIDE DEF g
<1> QED BY <1>2, <1>3, TotalCovers

\* A message is appended to, or taken from, a queue.
LEMMA QueueAppends ==
  ASSUME NEW s \in Seq(Msg), NEW x \in Msg, NEW m
  PROVE  /\ Append(s, x) \in Seq(Msg) /\ Elements(Append(s, x)) = Elements(s) \cup {x}
         /\ Number(Append(s, x), 1, {m}) = Number(s, 1, {m}) + (IF x = m THEN 1 ELSE 0)
<1> DEFINE r == Append(s, x)
           b == <<x>>
<1>1. r \in Seq(Msg) /\ b \in Seq(Msg) /\ Joined(s, b, r) /\ Len(b) = 1 /\ b[1] = x
  BY DEF Joined
<1>2. Len(r) = Len(s) + 1 /\ r[Len(s) + 1] = x /\ \A i \in 1 .. Len(s) : r[i] = s[i]
  OBVIOUS
<1> HIDE DEF r, b
<1>3. Elements(r) = Elements(s) \cup {x}
  BY <1>2 DEF Elements
<1>4. Number(b, 1, {m}) = IF x = m THEN 1 ELSE 0
  <2>1. 1 \in 1 .. Len(b) /\ 2 \in Nat /\ \A i \in 2 .. Len(b) : b[i] \notin {m}
    BY <1>1
  <2>2. Number(b, 1, {m}) = Number(b, 1 + 1, {m}) + (IF b[1] \in {m} THEN 1 ELSE 0)
    BY <1>1, <2>1, NumberStep
  <2>3. Number(b, 2, {m}) = 0
    BY <1>1, <2>1, NumberOfNone
  <2> QED BY <1>1, <2>2, <2>3
<1>5. Number(r, 1, {m}) = Number(s, 1, {m}) + Number(b, 1, {m})
  <2>1. 1 \in 1 .. Len(s) + 1
    OBVIOUS
  <2> QED BY <1>1, <2>1, NumberOfBoth
<1> QED BY <1>1, <1>3, <1>4, <1>5 DEF r

LEMMA QueueTail ==
  ASSUME NEW s \in Seq(Msg), s # <<>>, NEW m
  PROVE  /\ Tail(s) \in Seq(Msg) /\ Elements(Tail(s)) \subseteq Elements(s) /\ Head(s) \in Elements(s)
         /\ Number(Tail(s), 1, {m}) = Number(s, 1, {m}) - (IF Head(s) = m THEN 1 ELSE 0)
<1> DEFINE r == Tail(s)
<1>1. /\ r \in Seq(Msg) /\ Len(r) = Len(s) - 1 /\ 1 \in 1 .. Len(s) /\ Head(s) = s[1]
      /\ \A i \in 1 .. Len(r) : r[i] = s[i + 1]
  OBVIOUS
<1> HIDE DEF r
<1>2. Elements(r) \subseteq Elements(s) /\ Head(s) \in Elements(s)
  BY <1>1 DEF Elements
<1>3. Number(s, 2, {m}) = Number(r, 1, {m})
  <2>1. Shifted(r, 1, s, 1) /\ 1 \in Nat /\ 1 \in Int /\ 1 + 1 \in Nat
    BY <1>1 DEF Shifted
  <2>2. Number(s, 1 + 1, {m}) = Number(r, 1, {m})
    BY <1>1, <2>1, NumberShift
  <2> QED BY <2>2
<1>4. Number(s, 1, {m}) = Number(s, 1 + 1, {m}) + (IF s[1] \in {m} THEN 1 ELSE 0)
  BY <1>1, NumberStep
<1>5. Number(r, 1, {m}) \in Nat
  <2>1. 1 \in Nat
    OBVIOUS
  <2> QED BY <1>1, <2>1, PlacesFinite
<1> QED BY <1>1, <1>2, <1>3, <1>4, <1>5 DEF r

\* q and p differ in the queue of core c only.
OnlyQueue(c, q, p) == \A d \in Core \ {c} : p[d] = q[d]

LEMMA WaitingMoves ==
  ASSUME NEW m, NEW c \in Core, NEW q \in [Core -> Seq(Msg)], NEW p \in [Core -> Seq(Msg)],
         OnlyQueue(c, q, p)
  PROVE  /\ Waiting(p, m) = Waiting(q, m) - Number(q[c], 1, {m}) + Number(p[c], 1, {m})
         /\ Waiting(q, m) \in Nat /\ Number(q[c], 1, {m}) \in Nat /\ Waiting(q, m) >= Number(q[c], 1, {m})
         /\ Number(p[c], 1, {m}) \in Nat
<1>1. \A s \in Seq(Msg) : Number(s, 1, {m}) \in Nat
  <2>1. 1 \in Nat
    OBVIOUS
  <2> QED BY <2>1, PlacesFinite
<1> DEFINE n == [d \in Core |-> Number(q[d], 1, {m})]
           k == [d \in Core |-> Number(p[d], 1, {m})]
<1>2. /\ n \in [Core -> Nat] /\ k \in [Core -> Nat] /\ \A d \in Core \ {c} : k[d] = n[d]
      /\ n[c] = Number(q[c], 1, {m}) /\ k[c] = Number(p[c], 1, {m})
  BY <1>1 DEF OnlyQueue
<1>3. /\ Waiting(q, m) = n["ARM"] + n["SHARC0"] + n["SHARC1"]
      /\ Waiting(p, m) = k["ARM"] + k["SHARC0"] + k["SHARC1"]
  BY Threads DEF Waiting
<1> HIDE DEF n, k
<1>4. Core = {"ARM", "SHARC0", "SHARC1"}
  BY Threads
<1>5. /\ Waiting(p, m) = Waiting(q, m) - n[c] + k[c] /\ Waiting(q, m) \in Nat
      /\ n[c] \in Nat /\ k[c] \in Nat /\ Waiting(q, m) >= n[c]
  <2>1. /\ n["ARM"] \in Nat /\ n["SHARC0"] \in Nat /\ n["SHARC1"] \in Nat
        /\ k["ARM"] \in Nat /\ k["SHARC0"] \in Nat /\ k["SHARC1"] \in Nat
    BY <1>2, <1>4
  <2>2. CASE c = "ARM"
    <3>1. k["SHARC0"] = n["SHARC0"] /\ k["SHARC1"] = n["SHARC1"]
      BY <1>2, <1>4, <2>2
    <3> QED BY <1>3, <2>1, <2>2, <3>1
  <2>3. CASE c = "SHARC0"
    <3>1. k["ARM"] = n["ARM"] /\ k["SHARC1"] = n["SHARC1"]
      BY <1>2, <1>4, <2>3
    <3> QED BY <1>3, <2>1, <2>3, <3>1
  <2>4. CASE c = "SHARC1"
    <3>1. k["ARM"] = n["ARM"] /\ k["SHARC0"] = n["SHARC0"]
      BY <1>2, <1>4, <2>4
    <3> QED BY <1>3, <2>1, <2>4, <3>1
  <2> QED BY <1>4, <2>2, <2>3, <2>4
<1> QED BY <1>2, <1>5

LEMMA WaitingIsNat ==
  ASSUME NEW m, NEW q \in [Core -> Seq(Msg)]
  PROVE  /\ Waiting(q, m) \in Nat
         /\ \A c \in Core : Number(q[c], 1, {m}) \in Nat /\ Waiting(q, m) >= Number(q[c], 1, {m})
<1>1. \A c \in Core : OnlyQueue(c, q, q)
  BY DEF OnlyQueue
<1>2. "ARM" \in Core
  BY Threads
<1> QED BY <1>1, <1>2, WaitingMoves

-----------------------------------------------------------------------------
(* The lists of calls the code makes *)

LEMMA CallsAreCalls ==
  /\ \A m \in Msg : Ref(m) \in Call /\ Unref(m) \in Call /\ \A c \in Core : Send(m, c) \in Call
  /\ \A m \in Msg, c \in Core : Op("xfer", m, c) \in Call /\ Op("audio", m, c) \in Call /\ Op("heard", m, c) \in Call
  /\ \A o \in {"ping", "ask", "route", "reply", "process", "domain"} : Plain(o) \in Call
<1>1. "ARM" \in Core
  BY Threads
<1>2. \A o \in OpName, m \in Msg \cup {Nil}, c \in Core : Op(o, m, c) \in Call
  BY DEF Op, Call
<1>3. \A m \in Msg : Ref(m) \in Call /\ Unref(m) \in Call /\ \A c \in Core : Send(m, c) \in Call
  BY <1>1, <1>2 DEF Ref, Unref, Send, OpName
<1>4. ASSUME NEW m \in Msg, NEW c \in Core
      PROVE  Op("xfer", m, c) \in Call /\ Op("audio", m, c) \in Call /\ Op("heard", m, c) \in Call
  BY <1>2 DEF OpName
<1>5. ASSUME NEW o \in {"ping", "ask", "route", "reply", "process", "domain"}
      PROVE  Plain(o) \in Call
  <2>1. o \in OpName
    BY DEF OpName
  <2> QED BY <1>1, <1>2, <2>1 DEF Plain
<1> QED BY <1>3, <1>4, <1>5

LEMMA Charges ==
  /\ \A m, n : /\ Charge(Ref(m), n) = IF m = n THEN -1 ELSE 0
               /\ Charge(Unref(m), n) = IF m = n THEN 1 ELSE 0
               /\ \A c : Charge(Send(m, c), n) = IF m = n THEN 1 ELSE 0
  /\ \A o, m, c, n : o \notin {"ref", "send", "unref"} => Charge(Op(o, m, c), n) = 0
  /\ \A o, n : o \notin {"ref", "send", "unref"} => Charge(Plain(o), n) = 0
BY DEF Charge, Ref, Unref, Send, Plain, Op

LEMMA MessagesOfCalls ==
  /\ \A m : Ref(m).msg = m /\ Unref(m).msg = m /\ \A c : Send(m, c).msg = m
  /\ \A o, m, c : Op(o, m, c).msg = m
  /\ \A o : Plain(o).msg = Nil
BY DEF Ref, Unref, Send, Plain, Op

LEMMA EmptyList ==
  <<>> \in Seq(Call) /\ Balanced(<<>>) /\ Elements(<<>>) = {} /\ \A m : Claim(<<>>, 1, m) = 0
<1>1. <<>> \in Seq(Call) /\ Len(<<>>) = 0
  OBVIOUS
<1>2. \A m : Summed(<<>>, m)
  BY <1>1, ClaimSteps
<1> QED BY <1>1, <1>2 DEF Balanced, Elements, Summed

LEMMA ListOfOne ==
  ASSUME NEW a \in Call
  PROVE  /\ <<a>> \in Seq(Call) /\ Elements(<<a>>) = {a}
         /\ \A m : Claim(<<a>>, 1, m) = Charge(a, m)
         /\ (\A m \in Msg : Charge(a, m) >= 0 /\ (m \in Short /\ a.msg = m => Charge(a, m) >= 1))
              => Balanced(<<a>>)
<1> DEFINE s == <<a>>
<1>1. s \in Seq(Call) /\ Len(s) = 1 /\ s[1] = a
  OBVIOUS
<1> HIDE DEF s
<1>2. ASSUME NEW m PROVE Claim(s, 1, m) = Charge(a, m)
  <2>1. Summed(s, m) /\ Charge(a, m) \in Int
    BY <1>1, ClaimSteps DEF Charge
  <2> QED BY <1>1, <2>1 DEF Summed
<1>3. Elements(s) = {a}
  BY <1>1 DEF Elements
<1>4. \A m : Mentions(s, 1, m) => a.msg = m
  BY <1>1 DEF Mentions
<1> QED BY <1>1, <1>2, <1>3, <1>4 DEF Balanced, s

LEMMA ListOfTwo ==
  ASSUME NEW a \in Call, NEW b \in Call
  PROVE  /\ <<a, b>> \in Seq(Call) /\ Elements(<<a, b>>) = {a, b}
         /\ \A m : Claim(<<a, b>>, 1, m) = Charge(a, m) + Charge(b, m)
         /\ (\A m \in Msg :
               /\ Charge(b, m) >= 0 /\ Charge(a, m) + Charge(b, m) >= 0
               /\ m \in Short /\ b.msg = m => Charge(b, m) >= 1
               /\ m \in Short /\ (a.msg = m \/ b.msg = m) => Charge(a, m) + Charge(b, m) >= 1)
              => Balanced(<<a, b>>)
<1> DEFINE s == <<a, b>>
<1>1. s \in Seq(Call) /\ Len(s) = 2 /\ s[1] = a /\ s[2] = b
  OBVIOUS
<1> HIDE DEF s
<1>2. ASSUME NEW m PROVE Claim(s, 2, m) = Charge(b, m) /\ Claim(s, 1, m) = Charge(a, m) + Charge(b, m)
  <2>1. Summed(s, m) /\ Charge(a, m) \in Int /\ Charge(b, m) \in Int
    BY <1>1, ClaimSteps DEF Charge
  <2> QED BY <1>1, <2>1 DEF Summed
<1>3. Elements(s) = {a, b}
  BY <1>1 DEF Elements
<1>4. \A m : /\ Mentions(s, 2, m) => b.msg = m
             /\ Mentions(s, 1, m) => a.msg = m \/ b.msg = m
  BY <1>1 DEF Mentions
<1>5. \A k \in 1 .. Len(s) : k = 1 \/ k = 2
  BY <1>1
<1> QED BY <1>1, <1>2, <1>3, <1>4, <1>5 DEF Balanced, s

LEMMA ListOfThree ==
  ASSUME NEW a \in Call, NEW b \in Call, NEW c \in Call
  PROVE  /\ <<a, b, c>> \in Seq(Call) /\ Elements(<<a, b, c>>) = {a, b, c}
         /\ \A m : Claim(<<a, b, c>>, 1, m) = Charge(a, m) + Charge(b, m) + Charge(c, m)
         /\ (\A m \in Msg :
               /\ Charge(c, m) >= 0 /\ Charge(b, m) + Charge(c, m) >= 0
               /\ Charge(a, m) + Charge(b, m) + Charge(c, m) >= 0
               /\ m \in Short /\ c.msg = m => Charge(c, m) >= 1
               /\ m \in Short /\ (b.msg = m \/ c.msg = m) => Charge(b, m) + Charge(c, m) >= 1
               /\ m \in Short /\ (a.msg = m \/ b.msg = m \/ c.msg = m)
                    => Charge(a, m) + Charge(b, m) + Charge(c, m) >= 1)
              => Balanced(<<a, b, c>>)
<1> DEFINE s == <<a, b, c>>
<1>1. s \in Seq(Call) /\ Len(s) = 3 /\ s[1] = a /\ s[2] = b /\ s[3] = c
  OBVIOUS
<1> HIDE DEF s
<1>2. ASSUME NEW m
      PROVE  /\ Claim(s, 3, m) = Charge(c, m) /\ Claim(s, 2, m) = Charge(b, m) + Charge(c, m)
             /\ Claim(s, 1, m) = Charge(a, m) + Charge(b, m) + Charge(c, m)
  <2>1. Summed(s, m) /\ Charge(a, m) \in Int /\ Charge(b, m) \in Int /\ Charge(c, m) \in Int
    BY <1>1, ClaimSteps DEF Charge
  <2> QED BY <1>1, <2>1 DEF Summed
<1>3. Elements(s) = {a, b, c}
  BY <1>1 DEF Elements
<1>4. \A m : /\ Mentions(s, 3, m) => c.msg = m
             /\ Mentions(s, 2, m) => b.msg = m \/ c.msg = m
             /\ Mentions(s, 1, m) => a.msg = m \/ b.msg = m \/ c.msg = m
  BY <1>1 DEF Mentions
<1>5. \A k \in 1 .. Len(s) : k = 1 \/ k = 2 \/ k = 3
  BY <1>1
<1> QED BY <1>1, <1>2, <1>3, <1>4, <1>5 DEF Balanced, s

\* A list that may be put before what a thread still has to do: it takes over
\* n references to m and none to any other message.
Adds(then, m, n) ==
  /\ then \in Seq(Call) /\ Balanced(then)
  /\ Claim(then, 1, m) = n /\ \A k \in Msg \ {m} : Claim(then, 1, k) = 0

LEMMA OneAdds ==
  ASSUME NEW m \in Msg, NEW c \in Core
  PROVE  Adds(<<Unref(m)>>, m, 1) /\ Adds(<<Send(m, c)>>, m, 1)
BY CallsAreCalls, Charges, MessagesOfCalls, ListOfOne DEF Adds

LEMMA RefAndSend ==
  ASSUME NEW m \in Persistent, NEW c \in Core
  PROVE  Adds(<<Ref(m), Send(m, c)>>, m, 0)
<1>1. m \in Msg /\ m \notin Short
  BY Messages DEF Msg
<1>2. Ref(m) \in Call /\ Send(m, c) \in Call
  BY <1>1, CallsAreCalls
<1> QED BY <1>1, <1>2, Charges, MessagesOfCalls, ListOfTwo DEF Adds

LEMMA ToBothAdds ==
  ASSUME NEW m \in Short
  PROVE  Adds(ToBoth(m), m, 1) /\ Elements(ToBoth(m)) = {Ref(m), Send(m, "SHARC0"), Send(m, "SHARC1")}
<1>1. m \in Msg /\ "SHARC0" \in Core /\ "SHARC1" \in Core
  BY Threads DEF Msg
<1>2. Ref(m) \in Call /\ Send(m, "SHARC0") \in Call /\ Send(m, "SHARC1") \in Call
  BY <1>1, CallsAreCalls
<1> QED BY <1>1, <1>2, Charges, MessagesOfCalls, ListOfThree DEF Adds, ToBoth

LEMMA ProcessAdds ==
  ASSUME NEW m \in Short
  PROVE  /\ Adds(ProcessCalls(m), m, 1)
         /\ Elements(ProcessCalls(m)) = {Ref(m), Send(m, "SHARC0"), Send(m, "SHARC1"), Unref(m)}
<1> DEFINE s == ProcessCalls(m)
<1>1. m \in Msg /\ "SHARC0" \in Core /\ "SHARC1" \in Core
  BY Threads DEF Msg
<1>2. Ref(m) \in Call /\ Send(m, "SHARC0") \in Call /\ Send(m, "SHARC1") \in Call /\ Unref(m) \in Call
  BY <1>1, CallsAreCalls
<1>3. /\ s \in Seq(Call) /\ Len(s) = 5
      /\ s[1] = Ref(m) /\ s[2] = Send(m, "SHARC0") /\ s[3] = Ref(m)
      /\ s[4] = Send(m, "SHARC1") /\ s[5] = Unref(m)
  BY <1>2 DEF ProcessCalls
<1> HIDE DEF s
<1>4. Elements(s) = {Ref(m), Send(m, "SHARC0"), Send(m, "SHARC1"), Unref(m)}
  BY <1>3 DEF Elements
<1>5. ASSUME NEW n
      PROVE  /\ Claim(s, 5, n) = IF m = n THEN 1 ELSE 0
             /\ Claim(s, 4, n) = IF m = n THEN 2 ELSE 0
             /\ Claim(s, 3, n) = IF m = n THEN 1 ELSE 0
             /\ Claim(s, 2, n) = IF m = n THEN 2 ELSE 0
             /\ Claim(s, 1, n) = IF m = n THEN 1 ELSE 0
  <2>1. Summed(s, n)
    BY <1>3, ClaimSteps
  <2>2. Claim(s, 5, n) = IF m = n THEN 1 ELSE 0
    BY <1>3, <2>1, Charges DEF Summed
  <2>3. Claim(s, 4, n) = IF m = n THEN 2 ELSE 0
    BY <1>3, <2>1, <2>2, Charges DEF Summed
  <2>4. Claim(s, 3, n) = IF m = n THEN 1 ELSE 0
    BY <1>3, <2>1, <2>3, Charges DEF Summed
  <2>5. Claim(s, 2, n) = IF m = n THEN 2 ELSE 0
    BY <1>3, <2>1, <2>4, Charges DEF Summed
  <2>6. Claim(s, 1, n) = IF m = n THEN 1 ELSE 0
    BY <1>3, <2>1, <2>5, Charges DEF Summed
  <2> QED BY <2>2, <2>3, <2>4, <2>5, <2>6
<1>6. \A n : \A k \in 1 .. 5 : Mentions(s, k, n) => m = n
  BY <1>3, MessagesOfCalls DEF Mentions
<1>7. \A k \in 1 .. Len(s) : k = 1 \/ k = 2 \/ k = 3 \/ k = 4 \/ k = 5
  BY <1>3
<1>8. Balanced(s)
  BY <1>3, <1>5, <1>6, <1>7 DEF Balanced
<1> QED BY <1>3, <1>4, <1>5, <1>8 DEF Adds, s

\* A list of neutral calls about nothing.
LEMMA PlainAdds ==
  ASSUME NEW o \in {"ping", "ask", "route", "reply", "process", "domain"}
  PROVE  /\ <<Plain(o)>> \in Seq(Call) /\ Balanced(<<Plain(o)>>) /\ Elements(<<Plain(o)>>) = {Plain(o)}
         /\ \A m : Claim(<<Plain(o)>>, 1, m) = 0
<1>1. Plain(o) \in Call /\ \A m \in Msg : Plain(o).msg # m
  BY CallsAreCalls, MessagesOfCalls, Messages
<1>2. \A m : Charge(Plain(o), m) = 0
  BY Charges
<1> QED BY <1>1, <1>2, ListOfOne

\* What a message callback does with m takes over the reference the queue had.
LEMMA HandleAdds ==
  ASSUME NEW c \in Core, NEW m \in Msg
  PROVE  /\ Adds(Handle(c, m), m, 1)
         /\ Elements(Handle(c, m)) \subseteq
              {Unref(m), Op("audio", m, c), Plain("process")}
              \cup (IF c \in Sharcs THEN {Plain("reply"), Ref(Cycles(c)), Send(Cycles(c), "ARM")} ELSE {})
              \cup (IF c = "ARM" /\ m.type = "READY" THEN {Op("heard", m, c)} ELSE {})
<1> DEFINE u == Unref(m)
<1>1. u \in Call /\ "ARM" \in Core
  BY CallsAreCalls, Threads
<1>2. Adds(<<u>>, m, 1) /\ Elements(<<u>>) = {u}
  BY <1>1, OneAdds, ListOfOne
<1>3. ASSUME NEW o \in {"reply", "process"}
      PROVE  Adds(<<Plain(o), u>>, m, 1) /\ Elements(<<Plain(o), u>>) = {Plain(o), u}
  <2>1. Plain(o) \in Call /\ \A n \in Msg : Plain(o).msg # n
    BY CallsAreCalls, MessagesOfCalls, Messages
  <2>2. \A n : Charge(Plain(o), n) = 0 /\ Charge(u, n) = IF m = n THEN 1 ELSE 0
    BY Charges
  <2>3. u.msg = m
    BY MessagesOfCalls
  <2> HIDE DEF u
  <2> QED BY <1>1, <2>1, <2>2, <2>3, ListOfTwo DEF Adds
<1>4. ASSUME NEW o \in {"audio", "heard"}
      PROVE  Adds(<<Op(o, m, c), u>>, m, 1) /\ Elements(<<Op(o, m, c), u>>) = {Op(o, m, c), u}
  <2>1. Op(o, m, c) \in Call /\ Op(o, m, c).msg = m
    BY CallsAreCalls, MessagesOfCalls
  <2>2. \A n : Charge(Op(o, m, c), n) = 0 /\ Charge(u, n) = IF m = n THEN 1 ELSE 0
    BY Charges
  <2>3. u.msg = m
    BY MessagesOfCalls
  <2> HIDE DEF u
  <2> QED BY <1>1, <2>1, <2>2, <2>3, ListOfTwo DEF Adds
<1>5. ASSUME c \in Sharcs
      PROVE  LET l == <<Ref(Cycles(c)), Send(Cycles(c), "ARM"), u>>
             IN Adds(l, m, 1) /\ Elements(l) = {Ref(Cycles(c)), Send(Cycles(c), "ARM"), u}
  <2> DEFINE y == Cycles(c)
  <2>1. y \in Msg /\ y \notin Short
    BY <1>5, Messages DEF Msg
  <2>2. Ref(y) \in Call /\ Send(y, "ARM") \in Call
    BY <1>1, <2>1, CallsAreCalls
  <2>3. /\ \A n : /\ Charge(Ref(y), n) = IF y = n THEN -1 ELSE 0
                  /\ Charge(Send(y, "ARM"), n) = IF y = n THEN 1 ELSE 0
                  /\ Charge(u, n) = IF m = n THEN 1 ELSE 0
        /\ Ref(y).msg = y /\ Send(y, "ARM").msg = y /\ u.msg = m
    BY Charges, MessagesOfCalls
  <2> HIDE DEF u, y
  <2>4. LET l == <<Ref(y), Send(y, "ARM"), u>>
        IN Adds(l, m, 1) /\ Elements(l) = {Ref(y), Send(y, "ARM"), u}
    BY <1>1, <2>1, <2>2, <2>3, ListOfThree DEF Adds
  <2> QED BY <2>4 DEF y
<1> HIDE DEF u
<1>6. \A a, b \in Call : /\ <<>> \o <<u>> = <<u>> /\ <<a>> \o <<u>> = <<a, u>>
                         /\ <<a, b>> \o <<u>> = <<a, b, u>>
  <2>1. <<>> \o <<u>> = <<u>>
    OBVIOUS
  <2>2. ASSUME NEW a \in Call PROVE <<a>> \o <<u>> = <<a, u>>
    <3> DEFINE r == <<a>> \o <<u>>
               s == <<a, u>>
    <3>1. /\ r \in Seq(Call) /\ Len(r) = 2 /\ r[1] = a /\ r[2] = u
          /\ s \in Seq(Call) /\ Len(s) = 2 /\ s[1] = a /\ s[2] = u
      BY <1>1
    <3> HIDE DEF r, s
    <3>2. \A i \in 1 .. Len(r) : r[i] = s[i]
      BY <3>1
    <3>3. r = s
      BY <3>1, <3>2, SeqEqual
    <3> QED BY <3>3 DEF r, s
  <2>3. ASSUME NEW a \in Call, NEW b \in Call PROVE <<a, b>> \o <<u>> = <<a, b, u>>
    <3> DEFINE r == <<a, b>> \o <<u>>
               s == <<a, b, u>>
    <3>1. /\ r \in Seq(Call) /\ Len(r) = 3 /\ r[1] = a /\ r[2] = b /\ r[3] = u
          /\ s \in Seq(Call) /\ Len(s) = 3 /\ s[1] = a /\ s[2] = b /\ s[3] = u
      BY <1>1
    <3> HIDE DEF r, s
    <3>2. \A i \in 1 .. Len(r) : r[i] = s[i]
      BY <3>1
    <3>3. r = s
      BY <3>1, <3>2, SeqEqual
    <3> QED BY <3>3 DEF r, s
  <2> QED BY <2>1, <2>2, <2>3
<1>7. Handle(c, m) = Work(c, m) \o <<u>>
  BY DEF Handle, u
<1>8. CASE c \in Sharcs /\ m.type = "PING"
  <2>1. Handle(c, m) = <<Plain("reply"), u>>
    BY <1>6, <1>7, <1>8, CallsAreCalls DEF Work
  <2> QED BY <1>3, <1>8, <2>1 DEF u
<1>9. CASE c \in Sharcs /\ m.type \in {"IN", "OUT"}
  <2>1. Handle(c, m) = <<Op("audio", m, c), u>>
    BY <1>6, <1>7, <1>9, CallsAreCalls DEF Work
  <2> QED BY <1>4, <1>9, <2>1 DEF u
<1>10. CASE c \in Sharcs /\ m.type = "PROCESS"
  <2>1. Handle(c, m) = <<Plain("process"), u>>
    BY <1>6, <1>7, <1>10, CallsAreCalls DEF Work
  <2> QED BY <1>3, <1>10, <2>1 DEF u
<1>11. CASE c \in Sharcs /\ m.type = "CYCLES"
  <2>1. Cycles(c) \in Msg
    BY <1>11, Messages DEF Msg
  <2>2. Handle(c, m) = <<Ref(Cycles(c)), Send(Cycles(c), "ARM"), u>>
    BY <1>1, <1>6, <1>7, <1>11, <2>1, CallsAreCalls DEF Work
  <2> QED BY <1>5, <1>11, <2>2 DEF u
<1>12. CASE c = "ARM" /\ m.type = "READY"
  <2>1. Handle(c, m) = <<Op("heard", m, c), u>>
    BY <1>6, <1>7, <1>12, CallsAreCalls, Threads DEF Work
  <2> QED BY <1>4, <1>12, <2>1 DEF u
<1>13. CASE /\ ~(c \in Sharcs /\ m.type \in {"PING", "IN", "OUT", "PROCESS", "CYCLES"})
            /\ ~(c = "ARM" /\ m.type = "READY")
  <2>1. Work(c, m) = <<>>
    BY <1>13 DEF Work
  <2>2. Handle(c, m) = <<u>>
    BY <1>6, <1>7, <2>1, EmptyList
  <2> QED BY <1>2, <2>2 DEF u
<1> QED BY <1>8, <1>9, <1>10, <1>11, <1>12, <1>13

-----------------------------------------------------------------------------
(* Steps after the startup *)

\* Nothing that was sound stops being so.
Grows == /\ callback \subseteq callback' /\ (running => running')
         /\ \A m \in Persistent : m \in DOMAIN ref => m \in DOMAIN ref'

LEMMA SoundGrows ==
  ASSUME Grows
  PROVE  /\ \A m : Sound(m) => Sound(m)'
         /\ \A t, x : Proper(t, x) => Proper(t, x)'
<1>1. \A m : Sound(m) => Sound(m)'
  BY DEF Grows, Sound
<1> QED BY <1>1 DEF Grows, Proper

\* Neither the startup nor the persistent messages change.
SameStage ==
  /\ callback' = callback /\ enabled' = enabled /\ running' = running
  /\ heard \subseteq heard' /\ heard' \subseteq callback \cap Sharcs
  /\ \A m \in Persistent : m \in DOMAIN ref' <=> m \in DOMAIN ref

\* The lists of the startups, one call after another.
LEMMA StartupLists ==
  /\ \A o : Plain(o).op = o
  /\ ArmStartup # <<>> /\ Head(ArmStartup) = Plain("initialize")
  /\ Tail(ArmStartup) = <<Plain("register"), Plain("buffers"), Plain("enable"), Plain("wait")>>
  /\ Head(Tail(ArmStartup)) = Plain("register") /\ Tail(ArmStartup) # <<>>
  /\ Tail(Tail(ArmStartup)) = <<Plain("buffers"), Plain("enable"), Plain("wait")>>
  /\ Tail(<<Plain("buffers"), Plain("enable"), Plain("wait")>>) = <<Plain("enable"), Plain("wait")>>
  /\ Tail(<<Plain("enable"), Plain("wait")>>) = <<Plain("wait")>>
  /\ SharcStartup # <<>> /\ Head(SharcStartup) = Plain("initialize")
  /\ Tail(SharcStartup) = <<Plain("cycles"), Plain("register"), Plain("announce")>>
  /\ Head(Tail(SharcStartup)) = Plain("cycles") /\ Tail(SharcStartup) # <<>>
  /\ Tail(Tail(SharcStartup)) = <<Plain("register"), Plain("announce")>>
  /\ Tail(<<Plain("register"), Plain("announce")>>) = <<Plain("announce")>>
<1>1. \A o : Plain(o).op = o
  BY DEF Plain, Op
<1>2. \A a, b, c, d, e : /\ Tail(<<a, b, c, d, e>>) = <<b, c, d, e>> /\ Tail(<<a, b, c, d>>) = <<b, c, d>>
                         /\ Tail(<<a, b, c>>) = <<b, c>> /\ Tail(<<a, b>>) = <<b>>
                         /\ Head(<<a, b, c, d, e>>) = a /\ Head(<<a, b, c, d>>) = a /\ Head(<<a, b, c>>) = a
                         /\ <<a, b, c, d, e>> # <<>> /\ <<a, b, c, d>> # <<>> /\ <<a, b, c>> # <<>>
  OBVIOUS
<1> QED BY <1>1, <1>2 DEF ArmStartup, SharcStartup

\* A startup that is not over has a startup call to make next.
LEMMA StartupHeads ==
  /\ \A p \in {ArmStartup, Tail(ArmStartup), <<Plain("buffers"), Plain("enable"), Plain("wait")>>,
              <<Plain("enable"), Plain("wait")>>, <<Plain("wait")>>,
              SharcStartup, Tail(SharcStartup), <<Plain("register"), Plain("announce")>>,
              <<Plain("announce")>>} : p # <<>> /\ Head(p).op \in StartupOps
<1>1. \A a, b, c : /\ Head(<<a, b, c>>) = a /\ Head(<<a, b>>) = a /\ Head(<<a>>) = a
                   /\ <<a, b, c>> # <<>> /\ <<a, b>> # <<>> /\ <<a>> # <<>>
  OBVIOUS
<1>2. \A o \in StartupOps : Plain(o).op \in StartupOps
  BY StartupLists
<1>3. /\ ArmStartup # <<>> /\ Head(ArmStartup).op \in StartupOps
      /\ Tail(ArmStartup) # <<>> /\ Head(Tail(ArmStartup)).op \in StartupOps
      /\ SharcStartup # <<>> /\ Head(SharcStartup).op \in StartupOps
      /\ Tail(SharcStartup) # <<>> /\ Head(Tail(SharcStartup)).op \in StartupOps
  BY <1>2, StartupLists DEF StartupOps
<1>4. \A p \in {<<Plain("buffers"), Plain("enable"), Plain("wait")>>, <<Plain("enable"), Plain("wait")>>,
                <<Plain("wait")>>, <<Plain("register"), Plain("announce")>>, <<Plain("announce")>>} :
        p # <<>> /\ Head(p) \in {Plain(o) : o \in StartupOps}
  BY <1>1 DEF StartupOps
<1>5. \A p \in {<<Plain("buffers"), Plain("enable"), Plain("wait")>>, <<Plain("enable"), Plain("wait")>>,
                <<Plain("wait")>>, <<Plain("register"), Plain("announce")>>, <<Plain("announce")>>} :
        p # <<>> /\ Head(p).op \in StartupOps
  BY <1>2, <1>4
<1> QED BY <1>3, <1>5

LEMMA LateKeepsStages ==
  ASSUME IndInv, SameStage, NEW t \in Thread, Late(t), Late(t)',
         \A u \in Thread \ {t} : todo'[u] = todo[u]
  PROVE  Stages'
<1>1. \/ Late(<<"ARM", "task">>) /\ Late(<<"ARM", "task">>)'
      \/ todo'[<<"ARM", "task">>] = todo[<<"ARM", "task">>]
  BY Threads
<1>2. \A s \in Sharcs : \/ Late(<<s, "task">>) /\ Late(<<s, "task">>)'
                        \/ todo'[<<s, "task">>] = todo[<<s, "task">>]
  BY Threads
<1>3. \A c \in Core : Late(<<c, "irq">>)'
  <2> SUFFICES ASSUME NEW c \in Core PROVE Late(<<c, "irq">>)'
    OBVIOUS
  <2>1. <<c, "irq">> \in Thread /\ Late(<<c, "irq">>)
    BY DEF Thread, IndInv, Stages
  <2>2. CASE t = <<c, "irq">>
    BY <2>2
  <2>3. CASE t # <<c, "irq">>
    BY <2>1, <2>3 DEF Late
  <2> QED BY <2>2, <2>3
<1>4. (Audio \cap DOMAIN ref = {} => Audio \cap DOMAIN ref' = {}) /\ (Audio \subseteq DOMAIN ref => Audio \subseteq DOMAIN ref')
  BY Messages DEF SameStage
<1>5. \A s \in Sharcs : Cycles(s) \in DOMAIN ref' <=> Cycles(s) \in DOMAIN ref
  BY Messages DEF SameStage
<1>6. ArmStage'
  <2>1. ArmStage
    BY DEF IndInv, Stages
  <2>2. CASE todo'[<<"ARM", "task">>] = todo[<<"ARM", "task">>]
    BY <1>4, <2>1, <2>2 DEF ArmStage, Late, SameStage
  <2>3. CASE Late(<<"ARM", "task">>) /\ Late(<<"ARM", "task">>)'
    <3>1. todo[<<"ARM", "task">>] = <<>> \/ Head(todo[<<"ARM", "task">>]).op \notin StartupOps
      <4>1. todo[<<"ARM", "task">>] \in Seq(Call)
        BY Threads DEF IndInv, Types
      <4> QED BY <2>3, <4>1 DEF Late, Elements
    <3>2. "ARM" \in callback /\ running /\ Audio \subseteq DOMAIN ref
      BY <2>1, <3>1, StartupHeads DEF ArmStage
    <3> QED BY <1>4, <2>3, <3>2 DEF ArmStage, SameStage
  <2> QED BY <1>1, <2>2, <2>3
<1>7. ASSUME NEW s \in Sharcs PROVE SharcStage(s)'
  <2>1. SharcStage(s)
    BY DEF IndInv, Stages
  <2>2. CASE todo'[<<s, "task">>] = todo[<<s, "task">>]
    BY <1>5, <2>1, <2>2 DEF SharcStage, Late, SameStage
  <2>3. CASE Late(<<s, "task">>) /\ Late(<<s, "task">>)'
    <3>1. todo[<<s, "task">>] = <<>> \/ Head(todo[<<s, "task">>]).op \notin StartupOps
      <4>1. todo[<<s, "task">>] \in Seq(Call)
        BY Threads DEF IndInv, Types
      <4> QED BY <2>3, <4>1 DEF Late, Elements
    <3>2. s \in callback /\ Cycles(s) \in DOMAIN ref
      BY <2>1, <3>1, StartupHeads DEF SharcStage
    <3> QED BY <1>5, <2>3, <3>2 DEF SharcStage, SameStage
  <2> QED BY <1>2, <2>2, <2>3
<1>8. heard' \subseteq callback' /\ (running' => heard' = Sharcs)
  BY DEF IndInv, Stages, SameStage
<1> QED BY <1>3, <1>6, <1>7, <1>8 DEF Stages

LEMMA NumbersTyped ==
  ASSUME Types, NEW m \in Msg
  PROVE  /\ Counter(ref, m) \in Nat /\ Own(ref, m) \in Nat /\ Waiting(queue, m) \in Nat
         /\ Counter(ref, m) > 0 <=> m \in DOMAIN ref
<1>1. Waiting(queue, m) \in Nat
  BY WaitingIsNat DEF Types
<1>2. Counter(ref, m) \in Nat /\ Own(ref, m) \in Nat
  BY DEF Counter, Own, Types, Counters
<1>3. Counter(ref, m) > 0 <=> m \in DOMAIN ref
  BY DEF Counter, Types, Counters
<1> QED BY <1>1, <1>2, <1>3

\* What a step of a thread, whose list becomes l, has to do to the counters
\* and the queues.
Evens(t, l) ==
  \A m \in Msg : Counter(ref', m) - Own(ref', m) - Waiting(queue', m)
                 = Counter(ref, m) - Own(ref, m) - Waiting(queue, m)
                   + Claim(l, 1, m) - Claim(todo[t], 1, m)

\* The calls of l may be made after the step.
Fits(t, l) == \A x \in Elements(l) : x.op \notin StartupOps /\ Proper(t, x)'

LEMMA ListGoesOn ==
  ASSUME IndInv, NEW t \in Thread, Stages',
         NEW l \in Seq(Call), Balanced(l), todo' = [todo EXCEPT ![t] = l], Evens(t, l), Fits(t, l),
         SameStage, Counters', Queues', queue' \in [Core -> Seq(Msg)], pp' \in PingPong
  PROVE  IndInv'
<1>1. /\ todo \in [Thread -> Seq(Call)] /\ todo' \in [Thread -> Seq(Call)]
      /\ todo'[t] = l /\ \A u \in Thread \ {t} : todo'[u] = todo[u]
  BY DEF IndInv, Types
<1>2. Types'
  BY <1>1 DEF IndInv, Types, SameStage
<1>4. Flow'
  <2>1. Grows
    BY DEF Grows, SameStage
  <2>2. ASSUME NEW u \in Thread, NEW x \in Elements(todo'[u]) PROVE Proper(u, x)'
    <3>1. \A w \in Thread : \A y \in Elements(todo[w]) : Proper(w, y)'
      BY <2>1, SoundGrows DEF IndInv, Flow
    <3>2. CASE u = t
      BY <1>1, <2>2, <3>1, <3>2 DEF Fits
    <3>3. CASE u # t
      BY <1>1, <2>2, <3>1, <3>3
    <3> QED BY <3>2, <3>3
  <2>3. \A u \in Thread : \A x \in Elements(todo[u])' : Proper(u, x)'
    BY <2>2 DEF Elements
  <2> QED BY <2>3 DEF Flow
<1>5. ASSUME NEW m
      PROVE  /\ Held(todo', m) = Held(todo, m) - Claim(todo[t], 1, m) + Claim(l, 1, m)
             /\ Held(todo, m) \in Int /\ Claim(todo[t], 1, m) \in Int /\ Claim(l, 1, m) \in Int
  <2>1. Claim(todo[t], 1, m) \in Int /\ Claim(l, 1, m) \in Int
    BY <1>1, ClaimIsInt
  <2>2. Held(todo', m) = Held(todo, m) - Claim(todo[t], 1, m) + Claim(todo'[t], 1, m) /\ Held(todo, m) \in Int
    <3>1. OnlyAt(t, todo, todo')
      BY <1>1 DEF OnlyAt
    <3> QED BY <1>1, <3>1, HeldMoves
  <2> QED BY <1>1, <2>1, <2>2
<1>6. Counted'
  <2>1. \A u \in Thread : Balanced(todo[u])'
    <3>1. \A u \in Thread : Balanced(todo'[u])
      BY <1>1 DEF IndInv, Counted
    <3> QED BY <3>1 DEF Balanced, Claim, Number, Places, Mentions
  <2>2. ASSUME NEW m \in Msg PROVE Balance(ref, queue, todo, m)'
    <3> DEFINE c == Counter(ref, m)
               d == Counter(ref', m)
               o == Own(ref, m)
               p == Own(ref', m)
               w == Waiting(queue, m)
               v == Waiting(queue', m)
               h == Held(todo, m)
               k == Held(todo', m)
               n == Claim(l, 1, m)
               e == Claim(todo[t], 1, m)
    <3>1. c = o + w + h
      BY DEF IndInv, Counted, Balance
    <3>2. c \in Nat /\ o \in Nat /\ w \in Nat
      BY NumbersTyped DEF IndInv
    <3>3. d \in Nat /\ p \in Nat /\ v \in Nat
      <4>1. v \in Nat
        BY WaitingIsNat
      <4>2. d \in Nat /\ p \in Nat
        BY DEF Counter, Own, Counters
      <4> QED BY <4>1, <4>2
    <3>4. h \in Int /\ n \in Int /\ e \in Int /\ k = h - e + n
      BY <1>5
    <3>5. d - p - v = c - o - w + n - e
      BY DEF Evens
    <3> HIDE DEF c, d, o, p, w, v, h, k, n, e
    <3>6. d = p + v + k
      <4>1. d - p - v = h + n - e
        BY <3>1, <3>2, <3>3, <3>4, <3>5
      <4>2. d - p - v = k
        BY <3>4, <4>1
      <4>3. k \in Int
        BY <3>4
      <4> QED BY <3>3, <4>2, <4>3
    <3> QED BY <3>6 DEF Balance, d, p, v, k
  <2> QED BY <2>1, <2>2 DEF Counted
<1> QED BY <1>2, <1>4, <1>6 DEF IndInv

LEMMA ListStep ==
  ASSUME IndInv, NEW t \in Thread, Late(t),
         NEW l \in Seq(Call), Balanced(l), todo' = [todo EXCEPT ![t] = l], Evens(t, l), Fits(t, l),
         SameStage, Counters', Queues', queue' \in [Core -> Seq(Msg)], pp' \in PingPong
  PROVE  IndInv'
<1>1. todo'[t] = l /\ \A u \in Thread \ {t} : todo'[u] = todo[u]
  BY DEF IndInv, Types
<1>2. Late(t)'
  BY <1>1 DEF Late, Fits
<1>3. Stages'
  BY <1>1, <1>2, LateKeepsStages
<1> QED BY <1>3, ListGoesOn

\* A thread whose next call is not one of the startup has done with it.
LEMMA LateByHead ==
  ASSUME IndInv, NEW t \in Thread, todo[t] = <<>> \/ Head(todo[t]).op \notin StartupOps
  PROVE  Late(t)
<1>1. ArmStage /\ (\A s \in Sharcs : SharcStage(s)) /\ (\A c \in Core : Late(<<c, "irq">>))
  BY DEF IndInv, Stages
<1>2. CASE t = <<"ARM", "task">>
  BY <1>1, <1>2, StartupHeads DEF ArmStage
<1>3. ASSUME NEW s \in Sharcs, t = <<s, "task">> PROVE Late(t)
  <2>1. SharcStage(s)
    BY <1>1
  <2> QED BY <1>3, <2>1, StartupHeads DEF SharcStage
<1>4. ASSUME NEW c \in Core, t = <<c, "irq">> PROVE Late(t)
  BY <1>1, <1>4
<1> QED BY <1>2, <1>3, <1>4, Threads

\* A thread goes on with "then"; the counters and queues change by as much as
\* its claim.
Pays(t, then) ==
  \A m \in Msg : Counter(ref', m) - Own(ref', m) - Waiting(queue', m)
                 = Counter(ref, m) - Own(ref, m) - Waiting(queue, m)
                   + Claim(then, 1, m) - Charge(Head(todo[t]), m)

LEMMA OrdinaryStep ==
  ASSUME IndInv, NEW t \in Thread, todo[t] # <<>>, Head(todo[t]).op \notin StartupOps,
         NEW then \in Seq(Call), Balanced(then), Continue(t, then), Pays(t, then), Fits(t, then),
         SameStage, Counters', Queues', queue' \in [Core -> Seq(Msg)], pp' \in PingPong
  PROVE  IndInv'
<1> DEFINE l == then \o Tail(todo[t])
<1>1. todo \in [Thread -> Seq(Call)] /\ todo[t] \in Seq(Call) /\ Balanced(todo[t])
  BY DEF IndInv, Types, Counted
<1>2. /\ l \in Seq(Call) /\ Elements(l) \subseteq Elements(then) \cup Elements(todo[t]) /\ Balanced(l)
      /\ \A m : Claim(l, 1, m) = Claim(then, 1, m) + Claim(todo[t], 1, m) - Charge(Head(todo[t]), m)
  BY <1>1, GoesOn
<1>3. todo' = [todo EXCEPT ![t] = l]
  BY <1>1 DEF Continue
<1> HIDE DEF l
<1>4. Late(t)
  BY LateByHead
<1>5. Fits(t, l)
  <2>1. Grows
    BY DEF Grows, SameStage
  <2>2. \A x \in Elements(todo[t]) : x.op \notin StartupOps /\ Proper(t, x)'
    BY <1>4, <2>1, SoundGrows DEF IndInv, Flow, Late
  <2> QED BY <1>2, <2>2 DEF Fits
<1>6. Evens(t, l)
  <2> SUFFICES ASSUME NEW m \in Msg
               PROVE  Counter(ref', m) - Own(ref', m) - Waiting(queue', m)
                      = Counter(ref, m) - Own(ref, m) - Waiting(queue, m)
                        + Claim(l, 1, m) - Claim(todo[t], 1, m)
    BY DEF Evens
  <2> DEFINE a == Claim(then, 1, m)
             b == Claim(todo[t], 1, m)
             e == Charge(Head(todo[t]), m)
             x == Counter(ref, m) - Own(ref, m) - Waiting(queue, m)
  <2>1. a \in Int /\ b \in Int /\ e \in Int
    <3>1. e \in Int
      BY DEF Charge
    <3> QED BY <1>1, <3>1, ClaimIsInt
  <2>2. x \in Int
    BY NumbersTyped DEF IndInv
  <2>3. Claim(l, 1, m) = a + b - e
    BY <1>2
  <2>4. Counter(ref', m) - Own(ref', m) - Waiting(queue', m) = x + a - e
    BY DEF Pays
  <2> HIDE DEF a, b, e, x
  <2>5. x + (a + b - e) - b = x + a - e
    BY <2>1, <2>2
  <2>6. Counter(ref', m) - Own(ref', m) - Waiting(queue', m) = x + Claim(l, 1, m) - b
    BY <2>3, <2>4, <2>5
  <2> QED BY <2>6 DEF x, b
<1> QED BY <1>2, <1>3, <1>4, <1>5, <1>6, ListStep

\* A step that changes neither counters nor queues.
LEMMA NeutralStep ==
  ASSUME IndInv, NEW t \in Thread, todo[t] # <<>>, Head(todo[t]).op \notin StartupOps,
         NEW then \in Seq(Call), Balanced(then), Continue(t, then),
         \A m \in Msg : Claim(then, 1, m) = Charge(Head(todo[t]), m), Fits(t, then),
         SameStage, UNCHANGED <<ref, queue>>, pp' \in PingPong
  PROVE  IndInv'
<1>1. Counters' /\ Queues' /\ queue' \in [Core -> Seq(Msg)]
  BY DEF IndInv, Types, Flow, Queues, Counters, SameStage, Sound, Elements
<1>2. Pays(t, then)
  <2> SUFFICES ASSUME NEW m \in Msg
               PROVE  Counter(ref', m) - Own(ref', m) - Waiting(queue', m)
                      = Counter(ref, m) - Own(ref, m) - Waiting(queue, m)
                        + Claim(then, 1, m) - Charge(Head(todo[t]), m)
    BY DEF Pays
  <2>1. Counter(ref, m) \in Nat /\ Own(ref, m) \in Nat /\ Waiting(queue, m) \in Nat
    BY NumbersTyped DEF IndInv
  <2>2. Claim(then, 1, m) = Charge(Head(todo[t]), m) /\ Charge(Head(todo[t]), m) \in Int
    BY DEF Charge
  <2>3. /\ Counter(ref', m) = Counter(ref, m) /\ Own(ref', m) = Own(ref, m)
        /\ Waiting(queue', m) = Waiting(queue, m)
    BY DEF Counter, Own
  <2> QED BY <2>1, <2>2, <2>3
<1> QED BY <1>1, <1>2, OrdinaryStep

LEMMA HeadIsProper ==
  ASSUME IndInv, NEW t \in Thread, todo[t] # <<>>
  PROVE  /\ Head(todo[t]) \in Call /\ Head(todo[t]) \in Elements(todo[t]) /\ Proper(t, Head(todo[t]))
         /\ todo[t] \in Seq(Call)
<1>1. todo[t] \in Seq(Call)
  BY DEF IndInv, Types
<1>2. Head(todo[t]) = todo[t][1] /\ 1 \in 1 .. Len(todo[t]) /\ todo[t][1] \in Call
  BY <1>1, TailOfCalls
<1>3. Head(todo[t]) \in Elements(todo[t])
  BY <1>2 DEF Elements
<1> QED BY <1>1, <1>2, <1>3 DEF IndInv, Flow

\* Whatever message a thread has in hand, or a queue holds, exists.
LEMMA InHandExists ==
  ASSUME IndInv, NEW t \in Thread, NEW x \in Elements(todo[t]), x.msg \in Msg
  PROVE  x.msg \in DOMAIN ref
<1> DEFINE m == x.msg
<1>1. m \in Persistent => m \in DOMAIN ref
  BY DEF IndInv, Flow, Proper, Sound
<1>2. CASE m \in Short
  <2>1. Mentions(todo[t], 1, m) /\ 1 \in 1 .. Len(todo[t])
    BY DEF Elements, Mentions
  <2>2. todo \in [Thread -> Seq(Call)] /\ \A u \in Thread : Balanced(todo[u])
    BY DEF IndInv, Types, Counted
  <2>3. Claim(todo[t], 1, m) >= 1
    BY <1>2, <2>1, <2>2 DEF Balanced
  <2>4. Held(todo, m) \in Int /\ Held(todo, m) >= Claim(todo[t], 1, m) /\ Claim(todo[t], 1, m) \in Int
    BY <2>2, HeldCovers, ClaimIsInt
  <2>5. /\ Counter(ref, m) \in Nat /\ Own(ref, m) \in Nat /\ Waiting(queue, m) \in Nat
        /\ Counter(ref, m) > 0 <=> m \in DOMAIN ref
    BY NumbersTyped DEF IndInv
  <2>6. Counter(ref, m) = Own(ref, m) + Waiting(queue, m) + Held(todo, m)
    BY DEF IndInv, Counted, Balance
  <2>7. Counter(ref, m) > 0
    BY <2>3, <2>4, <2>5, <2>6
  <2> QED BY <2>5, <2>7
<1> QED BY <1>1, <1>2 DEF Msg

LEMMA QueuedExists ==
  ASSUME IndInv, NEW c \in Core, NEW m \in Elements(queue[c])
  PROVE  m \in DOMAIN ref /\ m \in Msg
<1>1. queue \in [Core -> Seq(Msg)] /\ queue[c] \in Seq(Msg) /\ m \in Msg
  BY DEF IndInv, Types, Elements
<1>2. m \in Persistent => m \in DOMAIN ref
  BY DEF IndInv, Flow, Queues, Sound
<1>3. CASE m \in Short
  <2>1. Waiting(queue, m) > 0
    <3>1. PICK i \in 1 .. Len(queue[c]) : queue[c][i] = m
      BY DEF Elements
    <3>2. IsFiniteSet(Places(queue[c], 1, {m})) /\ i \in Places(queue[c], 1, {m})
      <4>1. 1 \in Nat
        OBVIOUS
      <4> QED BY <1>1, <3>1, <4>1, PlacesFinite DEF Places
    <3>3. Number(queue[c], 1, {m}) # 0
      BY <3>2, FS_EmptySet DEF Number
    <3>4. /\ Number(queue[c], 1, {m}) \in Nat /\ Waiting(queue, m) \in Nat
          /\ Waiting(queue, m) >= Number(queue[c], 1, {m})
      BY <1>1, WaitingIsNat
    <3> QED BY <3>3, <3>4
  <2>2. \A u \in Thread : Balanced(todo[u])
    BY DEF IndInv, Counted
  <2>3. Held(todo, m) \in Int /\ Held(todo, m) >= 0
    BY <1>1, <2>2, HeldCovers DEF IndInv, Types
  <2>4. /\ Counter(ref, m) \in Nat /\ Own(ref, m) \in Nat /\ Waiting(queue, m) \in Nat
        /\ Counter(ref, m) > 0 <=> m \in DOMAIN ref
    BY <1>1, NumbersTyped DEF IndInv
  <2>5. Counter(ref, m) = Own(ref, m) + Waiting(queue, m) + Held(todo, m)
    BY <1>1 DEF IndInv, Counted, Balance
  <2>6. Counter(ref, m) > 0
    BY <2>1, <2>3, <2>4, <2>5
  <2> QED BY <1>1, <2>4, <2>6
<1> QED BY <1>1, <1>2, <1>3 DEF Msg

-----------------------------------------------------------------------------
(* The library's calls *)

LEMMA EmptyFits == ASSUME NEW t PROVE Fits(t, <<>>)
BY EmptyList DEF Fits

LEMMA RefKeeps ==
  ASSUME IndInv, NEW t \in Thread, todo[t] # <<>>, DoRef(t, Head(todo[t]))
  PROVE  IndInv'
<1> DEFINE x == Head(todo[t])
           m == x.msg
<1>1. x \in Call /\ x \in Elements(todo[t]) /\ Proper(t, x) /\ x.op = "ref" /\ m \in Msg
  BY HeadIsProper DEF DoRef, Proper
<1>2. m \in DOMAIN ref
  BY <1>1, InHandExists
<1>3. ref' = [ref EXCEPT ![m] = @ + 1] /\ UNCHANGED <<queue, bootVars, appVars>> /\ Continue(t, <<>>)
  BY <1>2 DEF DoRef
<1>4. Counters /\ Types
  BY DEF IndInv, Types
<1>5. DOMAIN ref' = DOMAIN ref /\ ref'[m] = ref[m] + 1 /\ \A n \in DOMAIN ref \ {m} : ref'[n] = ref[n]
  BY <1>2, <1>3, <1>4 DEF Counters
<1>6. Counters'
  <2>1. ref' = [n \in DOMAIN ref |-> IF n = m THEN ref[m] + 1 ELSE ref[n]]
    BY <1>3, <1>4 DEF Counters
  <2>2. ref' = [n \in DOMAIN ref' |-> ref'[n]]
    BY <2>1
  <2>3. \A n \in DOMAIN ref' : ref'[n] \in Nat /\ ref'[n] > 0
    BY <1>2, <1>4, <1>5 DEF Counters
  <2> QED BY <1>4, <1>5, <2>2, <2>3 DEF Counters
<1>7. SameStage
  BY <1>3, <1>5 DEF SameStage, bootVars, IndInv, Types, Stages
<1>8. Queues' /\ queue' \in [Core -> Seq(Msg)] /\ pp' \in PingPong
  BY <1>3, <1>5 DEF IndInv, Types, Flow, Queues, Sound, Elements, bootVars, appVars, armVars
<1>9. Pays(t, <<>>)
  <2> SUFFICES ASSUME NEW n \in Msg
               PROVE  Counter(ref', n) - Own(ref', n) - Waiting(queue', n)
                      = Counter(ref, n) - Own(ref, n) - Waiting(queue, n)
                        + Claim(<<>>, 1, n) - Charge(x, n)
    BY DEF Pays
  <2>1. Counter(ref, n) \in Nat /\ Own(ref, n) \in Nat /\ Waiting(queue, n) \in Nat
    BY <1>4, NumbersTyped
  <2>2. Claim(<<>>, 1, n) = 0 /\ Charge(x, n) = IF m = n THEN -1 ELSE 0
    BY <1>1, EmptyList DEF Charge
  <2>3. Own(ref', n) = Own(ref, n) /\ Waiting(queue', n) = Waiting(queue, n)
    BY <1>3, <1>5 DEF Own
  <2>4. Counter(ref', n) = Counter(ref, n) + IF m = n THEN 1 ELSE 0
    BY <1>2, <1>4, <1>5 DEF Counter, Counters
  <2> HIDE DEF x, m
  <2> QED BY <2>1, <2>2, <2>3, <2>4
<1>10. x.op \notin StartupOps
  BY <1>1 DEF StartupOps
<1> HIDE DEF m
<1> QED BY <1>3, <1>6, <1>7, <1>8, <1>9, <1>10, EmptyList, EmptyFits, OrdinaryStep

LEMMA UnrefKeeps ==
  ASSUME IndInv, NEW t \in Thread, todo[t] # <<>>, DoUnref(t, Head(todo[t]))
  PROVE  IndInv'
<1> DEFINE x == Head(todo[t])
           m == x.msg
<1>1. x \in Call /\ x \in Elements(todo[t]) /\ Proper(t, x) /\ x.op = "unref" /\ m \in Msg
  BY HeadIsProper DEF DoUnref, Proper
<1>2. m \in DOMAIN ref
  BY <1>1, InHandExists
<1>3. Counters /\ Types
  BY DEF IndInv, Types
<1>4. /\ ref' = IF ref[m] = 1 THEN [k \in DOMAIN ref \ {m} |-> ref[k]] ELSE [ref EXCEPT ![m] = @ - 1]
      /\ UNCHANGED <<queue, bootVars, appVars>> /\ Continue(t, <<>>)
  BY <1>2 DEF DoUnref, Unreffed
\* The reference is the thread's, beside that of the creator.
<1>5. m \in Persistent => ref[m] # 1
  <2>1. \A u \in Thread : Balanced(todo[u])
    BY DEF IndInv, Counted
  <2>2. todo[t] \in Seq(Call) /\ Tail(todo[t]) \in Seq(Call) /\ Balanced(Tail(todo[t]))
    BY <1>3, <2>1, TailOfCalls, BalancedTail DEF Types
  <2>3. Claim(Tail(todo[t]), 1, m) >= 0 /\ Claim(Tail(todo[t]), 1, m) \in Int /\ Claim(todo[t], 1, m) \in Int
    BY <1>1, <2>2, ClaimIsInt
  <2>4. Claim(Tail(todo[t]), 1, m) = Claim(todo[t], 1, m) - Charge(x, m)
    BY <2>2, ClaimOfTail
  <2>5. Charge(x, m) = 1
    BY <1>1 DEF Charge
  <2>6. Held(todo, m) \in Int /\ Held(todo, m) >= Claim(todo[t], 1, m)
    BY <1>1, <1>3, <2>1, HeldCovers DEF Types
  <2>7. /\ Counter(ref, m) \in Nat /\ Own(ref, m) \in Nat /\ Waiting(queue, m) \in Nat
        /\ Counter(ref, m) = Own(ref, m) + Waiting(queue, m) + Held(todo, m)
    BY <1>1, <1>3, NumbersTyped DEF IndInv, Counted, Balance
  <2>8. m \in Persistent => Own(ref, m) = 1
    BY <1>2 DEF Own
  <2>9. Held(todo, m) >= 1
    BY <2>3, <2>4, <2>5, <2>6
  <2>10. m \in Persistent => Counter(ref, m) >= 2
    BY <2>6, <2>7, <2>8, <2>9
  <2> QED BY <1>2, <2>10 DEF Counter
<1>6. /\ ref' = [k \in DOMAIN ref' |-> ref'[k]]
      /\ DOMAIN ref' = IF ref[m] = 1 THEN DOMAIN ref \ {m} ELSE DOMAIN ref
      /\ \A n \in DOMAIN ref' : ref'[n] = IF n = m THEN ref[m] - 1 ELSE ref[n]
  <2>1. CASE ref[m] = 1
    BY <1>4, <2>1
  <2>2. CASE ref[m] # 1
    <3>1. ref' = [n \in DOMAIN ref |-> IF n = m THEN ref[m] - 1 ELSE ref[n]]
      BY <1>3, <1>4, <2>2 DEF Counters
    <3> QED BY <2>2, <3>1
  <2> QED BY <2>1, <2>2
<1>7. Counters'
  <2>1. \A n \in DOMAIN ref' : n \in DOMAIN ref /\ ref'[n] \in Nat /\ ref'[n] > 0
    BY <1>2, <1>3, <1>6 DEF Counters
  <2> QED BY <1>3, <1>6, <2>1 DEF Counters
<1>8. \A n \in Persistent : n \in DOMAIN ref' <=> n \in DOMAIN ref
  BY <1>5, <1>6
<1>9. SameStage
  BY <1>4, <1>8 DEF SameStage, bootVars, IndInv, Types, Stages
<1>10. Queues' /\ queue' \in [Core -> Seq(Msg)] /\ pp' \in PingPong
  BY <1>4, <1>8 DEF IndInv, Types, Flow, Queues, Sound, Elements, bootVars, appVars, armVars
<1>11. Pays(t, <<>>)
  <2> SUFFICES ASSUME NEW n \in Msg
               PROVE  Counter(ref', n) - Own(ref', n) - Waiting(queue', n)
                      = Counter(ref, n) - Own(ref, n) - Waiting(queue, n)
                        + Claim(<<>>, 1, n) - Charge(x, n)
    BY DEF Pays
  <2>1. Counter(ref, n) \in Nat /\ Own(ref, n) \in Nat /\ Waiting(queue, n) \in Nat
    BY <1>3, NumbersTyped
  <2>2. Claim(<<>>, 1, n) = 0 /\ Charge(x, n) = IF m = n THEN 1 ELSE 0
    BY <1>1, EmptyList DEF Charge
  <2>3. Own(ref', n) = Own(ref, n) /\ Waiting(queue', n) = Waiting(queue, n)
    BY <1>4, <1>8 DEF Own
  <2>4. Counter(ref', n) = Counter(ref, n) - (IF m = n THEN 1 ELSE 0)
    <3>1. CASE ref[m] = 1
      BY <1>2, <1>3, <1>6, <2>1, <3>1 DEF Counter, Counters
    <3>2. CASE ref[m] # 1
      BY <1>2, <1>3, <1>6, <2>1, <3>2 DEF Counter, Counters
    <3> QED BY <3>1, <3>2
  <2> HIDE DEF x, m
  <2> QED BY <2>1, <2>2, <2>3, <2>4
<1>12. x.op \notin StartupOps
  BY <1>1 DEF StartupOps
<1> HIDE DEF m
<1> QED BY <1>4, <1>7, <1>9, <1>10, <1>11, <1>12, EmptyList, EmptyFits, OrdinaryStep

LEMMA SendKeeps ==
  ASSUME IndInv, NEW t \in Thread, todo[t] # <<>>, ipcToCore(t, Head(todo[t]))
  PROVE  IndInv'
<1> DEFINE x == Head(todo[t])
           m == x.msg
           c == x.core
<1>1. /\ x \in Call /\ x \in Elements(todo[t]) /\ Proper(t, x) /\ x.op = "send" /\ m \in Msg
      /\ c \in Core /\ c \in callback /\ (c \in Sharcs => running) /\ Sound(m)
  BY HeadIsProper DEF ipcToCore, Proper, Call
<1>2. UNCHANGED <<ref, bootVars, appVars>>
  BY DEF ipcToCore
<1>3. Types /\ Counters' /\ pp' \in PingPong
  BY <1>2 DEF IndInv, Types, Counters, appVars, armVars
<1>4. SameStage
  BY <1>2 DEF SameStage, bootVars, IndInv, Types, Stages
<1>5. x.op \notin StartupOps
  BY <1>1 DEF StartupOps
<1>6. \A n : Charge(x, n) = IF m = n THEN 1 ELSE 0
  BY <1>1 DEF Charge
<1>7. CASE queue' = [queue EXCEPT ![c] = Append(@, m)] /\ Continue(t, <<>>)
  <2> DEFINE r == Append(queue[c], m)
  <2>1. queue \in [Core -> Seq(Msg)] /\ queue[c] \in Seq(Msg)
    BY <1>1, <1>3 DEF Types
  <2>2. /\ r \in Seq(Msg) /\ Elements(r) = Elements(queue[c]) \cup {m}
        /\ \A n : Number(r, 1, {n}) = Number(queue[c], 1, {n}) + (IF m = n THEN 1 ELSE 0)
    <3> HIDE DEF m, c
    <3> QED BY <1>1, <2>1, QueueAppends
  <2>3. queue' \in [Core -> Seq(Msg)] /\ queue'[c] = r /\ \A d \in Core \ {c} : queue'[d] = queue[d]
    BY <1>1, <1>7, <2>1, <2>2
  <2>4. ASSUME NEW n
        PROVE  Waiting(queue', n) = Waiting(queue, n) + (IF m = n THEN 1 ELSE 0) /\ Waiting(queue, n) \in Nat
    <3>1. OnlyQueue(c, queue, queue')
      BY <2>3 DEF OnlyQueue
    <3> HIDE DEF m, c, r
    <3>2. /\ Waiting(queue', n) = Waiting(queue, n) - Number(queue[c], 1, {n}) + Number(queue'[c], 1, {n})
          /\ Waiting(queue, n) \in Nat /\ Number(queue[c], 1, {n}) \in Nat
      BY <1>1, <2>1, <2>3, <3>1, WaitingMoves
    <3>3. Number(queue'[c], 1, {n}) = Number(queue[c], 1, {n}) + (IF m = n THEN 1 ELSE 0)
      BY <2>2, <2>3
    <3> DEFINE a == Number(queue[c], 1, {n})
               b == Number(queue'[c], 1, {n})
               w == Waiting(queue, n)
               v == Waiting(queue', n)
    <3>4. v = w - a + b /\ w \in Nat /\ a \in Nat /\ b = a + (IF m = n THEN 1 ELSE 0)
      BY <3>2, <3>3
    <3> HIDE DEF a, b, w, v
    <3>5. v = w + (IF m = n THEN 1 ELSE 0) /\ w \in Nat
      BY <3>4
    <3> QED BY <3>5 DEF v, w
  <2> HIDE DEF r
  <2>5. Queues'
    <3>1. \A d \in Core : \A n \in Elements(queue'[d]) : Sound(n)
      BY <1>1, <2>2, <2>3 DEF IndInv, Flow, Queues
    <3>2. \A d \in Core : queue'[d] # <<>> => d \in callback /\ (d \in Sharcs => running)
      BY <1>1, <2>3 DEF IndInv, Flow, Queues
    <3> QED BY <1>2, <3>1, <3>2 DEF Queues, Sound, bootVars, Elements
  <2>6. Pays(t, <<>>)
    <3> SUFFICES ASSUME NEW n \in Msg
                 PROVE  Counter(ref', n) - Own(ref', n) - Waiting(queue', n)
                        = Counter(ref, n) - Own(ref, n) - Waiting(queue, n)
                          + Claim(<<>>, 1, n) - Charge(x, n)
      BY DEF Pays
    <3>1. Counter(ref, n) \in Nat /\ Own(ref, n) \in Nat /\ Waiting(queue, n) \in Nat
      BY <1>3, NumbersTyped
    <3>2. Claim(<<>>, 1, n) = 0 /\ Charge(x, n) = IF m = n THEN 1 ELSE 0
      BY <1>6, EmptyList
    <3>3. Own(ref', n) = Own(ref, n) /\ Counter(ref', n) = Counter(ref, n)
      BY <1>2 DEF Own, Counter
    <3>4. Waiting(queue', n) = Waiting(queue, n) + IF m = n THEN 1 ELSE 0
      BY <2>4
    <3> HIDE DEF x, m
    <3> QED BY <3>1, <3>2, <3>3, <3>4
  <2> HIDE DEF m, c
  <2> QED BY <1>3, <1>4, <1>5, <1>7, <2>3, <2>5, <2>6, EmptyList, EmptyFits, OrdinaryStep
<1>8. CASE UNCHANGED queue /\ Continue(t, <<Unref(m)>>)
  <2> DEFINE then == <<Unref(m)>>
  <2>1. Adds(then, m, 1) /\ Elements(then) = {Unref(m)}
    BY <1>1, CallsAreCalls, OneAdds, ListOfOne
  <2>2. \A n \in Msg : Claim(then, 1, n) = Charge(x, n)
    BY <1>6, <2>1 DEF Adds
  <2>3. Unref(m).op = "unref" /\ Unref(m).msg = m
    BY DEF Unref, Op
  <2>4. Fits(t, then)
    BY <1>1, <1>2, <2>1, <2>3 DEF Fits, Proper, Sound, StartupOps, bootVars
  <2> HIDE DEF then, m
  <2> QED BY <1>2, <1>3, <1>4, <1>5, <1>8, <2>1, <2>2, <2>4, NeutralStep DEF Adds, then
<1> QED BY <1>7, <1>8 DEF ipcToCore

-----------------------------------------------------------------------------
(* The startup *)

LEMMA StartupOpsOf ==
  /\ Head(ArmStartup).op = "initialize" /\ Head(Tail(ArmStartup)).op = "register"
  /\ Head(<<Plain("buffers"), Plain("enable"), Plain("wait")>>).op = "buffers"
  /\ Head(<<Plain("enable"), Plain("wait")>>).op = "enable" /\ Head(<<Plain("wait")>>).op = "wait"
  /\ Head(SharcStartup).op = "initialize" /\ Head(Tail(SharcStartup)).op = "cycles"
  /\ Head(<<Plain("register"), Plain("announce")>>).op = "register"
  /\ Head(<<Plain("announce")>>).op = "announce"
  /\ Len(<<Plain("enable"), Plain("wait")>>) = 2
<1>1. \A a, b, c : /\ Head(<<a, b, c>>) = a /\ Head(<<a, b>>) = a /\ Head(<<a>>) = a
                   /\ Len(<<a, b>>) = 2
  OBVIOUS
<1>2. \A o : Plain(o).op = o
  BY StartupLists
<1>3. /\ Head(ArmStartup) = Plain("initialize") /\ Head(Tail(ArmStartup)) = Plain("register")
      /\ Head(SharcStartup) = Plain("initialize") /\ Head(Tail(SharcStartup)) = Plain("cycles")
  BY StartupLists
<1>4. /\ Head(<<Plain("buffers"), Plain("enable"), Plain("wait")>>) = Plain("buffers")
      /\ Head(<<Plain("enable"), Plain("wait")>>) = Plain("enable")
      /\ Head(<<Plain("wait")>>) = Plain("wait")
      /\ Head(<<Plain("register"), Plain("announce")>>) = Plain("register")
      /\ Head(<<Plain("announce")>>) = Plain("announce")
      /\ Len(<<Plain("enable"), Plain("wait")>>) = 2
  BY <1>1
<1>5. /\ Head(ArmStartup).op = "initialize" /\ Head(Tail(ArmStartup)).op = "register"
      /\ Head(SharcStartup).op = "initialize" /\ Head(Tail(SharcStartup)).op = "cycles"
  BY <1>2, <1>3
<1>6. /\ Plain("buffers").op = "buffers" /\ Plain("enable").op = "enable" /\ Plain("wait").op = "wait"
      /\ Plain("register").op = "register" /\ Plain("announce").op = "announce"
  BY <1>2
<1> QED BY <1>4, <1>5, <1>6

LEMMA LateHead ==
  ASSUME Types, NEW t \in Thread, Late(t), todo[t] # <<>>
  PROVE  Head(todo[t]).op \notin StartupOps
<1>1. todo[t] \in Seq(Call)
  BY DEF Types
<1>2. Head(todo[t]) \in Elements(todo[t])
  BY <1>1, TailOfCalls DEF Elements
<1> QED BY <1>2 DEF Late

ArmAt(p, o) ==
  \/ /\ (o = "initialize" /\ p = ArmStartup) \/ (o = "register" /\ p = Tail(ArmStartup))
     /\ "ARM" \notin callback /\ enabled = {"ARM"} /\ ~running /\ Audio \cap DOMAIN ref = {}
  \/ /\ o = "buffers" /\ p = <<Plain("buffers"), Plain("enable"), Plain("wait")>>
     /\ "ARM" \in callback /\ enabled = {"ARM"} /\ ~running /\ Audio \cap DOMAIN ref = {}
  \/ /\ o = "enable" /\ p = <<Plain("enable"), Plain("wait")>>
     /\ "ARM" \in callback /\ enabled = {"ARM"} /\ ~running /\ Audio \subseteq DOMAIN ref
  \/ /\ o = "wait" /\ p = <<Plain("wait")>>
     /\ "ARM" \in callback /\ ~running /\ Audio \subseteq DOMAIN ref

SharcAt(s, p, o) ==
  \/ /\ (o = "initialize" /\ p = SharcStartup) \/ (o = "cycles" /\ p = Tail(SharcStartup))
     /\ s \notin callback /\ Cycles(s) \notin DOMAIN ref
  \/ /\ o = "register" /\ p = <<Plain("register"), Plain("announce")>>
     /\ s \notin callback /\ Cycles(s) \in DOMAIN ref
  \/ /\ o = "announce" /\ p = <<Plain("announce")>>
     /\ s \in callback /\ Cycles(s) \in DOMAIN ref

\* The next call of a startup says how far it has come.
LEMMA StageByHead ==
  ASSUME IndInv, NEW t \in Thread, todo[t] # <<>>, Head(todo[t]).op \in StartupOps
  PROVE  \/ t = <<"ARM", "task">> /\ ArmAt(todo[t], Head(todo[t]).op)
         \/ \E s \in Sharcs : t = <<s, "task">> /\ SharcAt(s, todo[t], Head(todo[t]).op)
<1>1. ~Late(t)
  BY LateHead DEF IndInv
<1>2. ArmStage /\ (\A s \in Sharcs : SharcStage(s)) /\ (\A c \in Core : Late(<<c, "irq">>))
  BY DEF IndInv, Stages
<1>3. CASE t = <<"ARM", "task">>
  <2>1. ArmAt(todo[t], Head(todo[t]).op)
    <3> DEFINE p == todo[<<"ARM", "task">>]
    <3>1. ~Late(<<"ARM", "task">>) /\ todo[t] = p
      BY <1>1, <1>3
    <3>2. CASE p = ArmStartup
      BY <1>2, <3>1, <3>2, StartupOpsOf, StartupHeads DEF ArmStage, ArmAt
    <3>3. CASE p = Tail(ArmStartup)
      BY <1>2, <3>1, <3>3, StartupOpsOf, StartupHeads DEF ArmStage, ArmAt
    <3>4. CASE p = <<Plain("buffers"), Plain("enable"), Plain("wait")>>
      BY <1>2, <3>1, <3>4, StartupOpsOf, StartupHeads DEF ArmStage, ArmAt
    <3>5. CASE p = <<Plain("enable"), Plain("wait")>>
      BY <1>2, <3>1, <3>5, StartupOpsOf, StartupHeads DEF ArmStage, ArmAt
    <3>6. CASE p = <<Plain("wait")>>
      BY <1>2, <3>1, <3>6, StartupOpsOf, StartupHeads DEF ArmStage, ArmAt
    <3> QED BY <1>2, <3>1, <3>2, <3>3, <3>4, <3>5, <3>6 DEF ArmStage
  <2> QED BY <1>3, <2>1
<1>4. ASSUME NEW s \in Sharcs, t = <<s, "task">> PROVE SharcAt(s, todo[t], Head(todo[t]).op)
  <2>1. SharcStage(s)
    BY <1>2
  <2> DEFINE p == todo[<<s, "task">>]
  <2>2. ~Late(<<s, "task">>) /\ todo[t] = p
    BY <1>1, <1>4
  <2>3. CASE p = SharcStartup
    BY <2>1, <2>2, <2>3, StartupOpsOf, StartupHeads DEF SharcStage, SharcAt
  <2>4. CASE p = Tail(SharcStartup)
    BY <2>1, <2>2, <2>4, StartupOpsOf, StartupHeads DEF SharcStage, SharcAt
  <2>5. CASE p = <<Plain("register"), Plain("announce")>>
    BY <2>1, <2>2, <2>5, StartupOpsOf, StartupHeads DEF SharcStage, SharcAt
  <2>6. CASE p = <<Plain("announce")>>
    BY <2>1, <2>2, <2>6, StartupOpsOf, StartupHeads DEF SharcStage, SharcAt
  <2> QED BY <2>1, <2>2, <2>3, <2>4, <2>5, <2>6 DEF SharcStage
<1>5. ASSUME NEW c \in Core, t = <<c, "irq">> PROVE FALSE
  BY <1>1, <1>2, <1>5
<1> QED BY <1>3, <1>4, <1>5, Threads

LEMMA ArmStays ==
  ASSUME ArmStage, todo'[<<"ARM", "task">>] = todo[<<"ARM", "task">>],
         "ARM" \in callback' <=> "ARM" \in callback, UNCHANGED <<enabled, running>>,
         \A m \in Audio : m \in DOMAIN ref' <=> m \in DOMAIN ref
  PROVE  ArmStage'
<1>1. /\ Audio \cap DOMAIN ref = {} => Audio \cap DOMAIN ref' = {}
      /\ Audio \subseteq DOMAIN ref => Audio \subseteq DOMAIN ref'
  OBVIOUS
<1> QED BY <1>1 DEF ArmStage, Late

LEMMA SharcStays ==
  ASSUME NEW s \in Sharcs, SharcStage(s), todo'[<<s, "task">>] = todo[<<s, "task">>],
         s \in callback' <=> s \in callback, Cycles(s) \in DOMAIN ref' <=> Cycles(s) \in DOMAIN ref
  PROVE  SharcStage(s)'
BY DEF SharcStage, Late

\* A thread whose next call is one of the startup goes on to the one after it.
LEMMA StartupStep ==
  ASSUME IndInv, NEW t \in Thread, todo[t] # <<>>, Head(todo[t]).op \in StartupOps, Continue(t, <<>>)
  PROVE  /\ todo' \in [Thread -> Seq(Call)] /\ todo'[t] = Tail(todo[t]) /\ OnlyAt(t, todo, todo')
         /\ t[2] = "task" /\ \A c \in Core : Late(<<c, "irq">>)'
         /\ /\ Types' /\ UNCHANGED queue /\ Grows /\ Stages'
            /\ \A m \in Msg : Counter(ref', m) - Own(ref', m) = Counter(ref, m) - Own(ref, m)
            => IndInv'
<1> DEFINE l == Tail(todo[t])
           x == Head(todo[t])
<1>1. todo \in [Thread -> Seq(Call)] /\ todo[t] \in Seq(Call) /\ Balanced(todo[t])
  BY DEF IndInv, Types, Counted
<1>2. l \in Seq(Call) /\ <<>> \o l = l /\ Balanced(l) /\ Elements(l) \subseteq Elements(todo[t])
  <2>1. l \in Seq(Call) /\ \A i \in 1 .. Len(l) : i + 1 \in 1 .. Len(todo[t]) /\ l[i] = todo[t][i + 1]
    BY <1>1, TailOfCalls
  <2>2. Elements(l) \subseteq Elements(todo[t])
    BY <2>1 DEF Elements
  <2>3. <<>> \o l = l
    BY <2>1, ConcatEmptySeq
  <2> QED BY <1>1, <2>1, <2>2, <2>3, BalancedTail
<1>3. todo' = [todo EXCEPT ![t] = l]
  BY <1>1, <1>2 DEF Continue
<1>4. todo' \in [Thread -> Seq(Call)] /\ todo'[t] = l /\ OnlyAt(t, todo, todo')
  BY <1>1, <1>2, <1>3 DEF OnlyAt
<1>5. t[2] = "task"
  BY StageByHead
<1>6. \A c \in Core : Late(<<c, "irq">>)'
  <2> SUFFICES ASSUME NEW c \in Core PROVE Late(<<c, "irq">>)'
    OBVIOUS
  <2>1. <<c, "irq">> \in Thread \ {t} /\ Late(<<c, "irq">>)
    BY <1>5 DEF Thread, IndInv, Stages
  <2>2. todo'[<<c, "irq">>] = todo[<<c, "irq">>]
    BY <1>4, <2>1 DEF OnlyAt
  <2> QED BY <2>1, <2>2 DEF Late
<1>7. ASSUME NEW m PROVE Held(todo', m) = Held(todo, m)
  <2>1. Claim(l, 1, m) = Claim(todo[t], 1, m) - Charge(x, m)
    BY <1>1, ClaimOfTail
  <2>2. Charge(x, m) = 0
    BY DEF Charge, StartupOps
  <2>3. Claim(todo[t], 1, m) \in Int
    BY <1>1, ClaimIsInt
  <2>4. Held(todo', m) = Held(todo, m) - Claim(todo[t], 1, m) + Claim(todo'[t], 1, m) /\ Held(todo, m) \in Int
    BY <1>1, <1>4, HeldMoves
  <2> HIDE DEF x
  <2> QED BY <1>4, <2>1, <2>2, <2>3, <2>4
<1>8. ASSUME Types', UNCHANGED queue, Grows, Stages',
             \A m \in Msg : Counter(ref', m) - Own(ref', m) = Counter(ref, m) - Own(ref, m)
      PROVE  IndInv'
  <2>1. Flow'
    <3>1. \A u \in Thread : \A y \in Elements(todo[u]) : Proper(u, y)'
      BY <1>8, SoundGrows DEF IndInv, Flow
    <3>2. \A u \in Thread : \A y \in Elements(todo'[u]) : Proper(u, y)'
      BY <1>2, <1>4, <3>1 DEF OnlyAt
    <3>3. \A u \in Thread : \A y \in Elements(todo[u])' : Proper(u, y)'
      BY <3>2 DEF Elements
    <3>4. \A c \in Core : \A m \in Elements(queue[c]) : Sound(m)'
      BY <1>8, SoundGrows DEF IndInv, Flow, Queues
    <3>5. Queues'
      <4>1. \A c \in Core : queue[c] # <<>> => c \in callback /\ (c \in Sharcs => running)
        BY DEF IndInv, Flow, Queues
      <4>2. callback \subseteq callback' /\ (running => running')
        BY <1>8 DEF Grows
      <4>3. \A c \in Core : Elements(queue[c])' = Elements(queue[c])
        BY <1>8 DEF Elements
      <4> QED BY <1>8, <3>4, <4>1, <4>2, <4>3 DEF Queues
    <3> QED BY <3>3, <3>5 DEF Flow
  <2>2. Counted'
    <3>1. \A u \in Thread : Balanced(todo[u])'
      <4>1. \A u \in Thread : Balanced(todo'[u])
        BY <1>2, <1>4 DEF OnlyAt, IndInv, Counted
      <4> QED BY <4>1 DEF Balanced, Claim, Number, Places, Mentions
    <3>2. ASSUME NEW m \in Msg PROVE Balance(ref, queue, todo, m)'
      <4>1. Balance(ref, queue, todo, m)
        BY DEF IndInv, Counted
      <4>2. Counter(ref, m) \in Nat /\ Own(ref, m) \in Nat /\ Waiting(queue, m) \in Nat
        BY NumbersTyped DEF IndInv
      <4>3. Counter(ref', m) \in Nat /\ Own(ref', m) \in Nat
        BY <1>8 DEF Types, Counters, Counter, Own
      <4>4. Waiting(queue', m) = Waiting(queue, m) /\ Held(todo', m) = Held(todo, m)
        BY <1>7, <1>8
      <4>5. Held(todo, m) \in Int
        BY <1>1, <1>4, HeldMoves
      <4>6. Counter(ref', m) - Own(ref', m) = Counter(ref, m) - Own(ref, m)
        BY <1>8
      <4>7. Counter(ref', m) = Own(ref', m) + Waiting(queue', m) + Held(todo', m)
        <5> DEFINE c == Counter(ref, m)
                   d == Counter(ref', m)
                   o == Own(ref, m)
                   p == Own(ref', m)
                   w == Waiting(queue, m)
                   h == Held(todo, m)
        <5>1. /\ c \in Nat /\ d \in Nat /\ o \in Nat /\ p \in Nat /\ w \in Nat /\ h \in Int
              /\ c = o + w + h /\ d - p = c - o
          BY <4>1, <4>2, <4>3, <4>5, <4>6 DEF Balance
        <5> HIDE DEF c, d, o, p, w, h
        <5>2. d = p + w + h
          BY <5>1
        <5> QED BY <4>4, <5>2 DEF d, p, w, h
      <4> QED BY <4>7 DEF Balance
    <3> QED BY <3>1, <3>2 DEF Counted
  <2> QED BY <1>8, <2>1, <2>2 DEF IndInv
<1> QED BY <1>4, <1>5, <1>6, <1>8

\* The startup of one core leaves the others where they are.
LEMMA ArmGoesOn ==
  ASSUME IndInv, OnlyAt(<<"ARM", "task">>, todo, todo'), \A c \in Core : Late(<<c, "irq">>)', ArmStage',
         \A s \in Sharcs : s \in callback' <=> s \in callback,
         \A s \in Sharcs : Cycles(s) \in DOMAIN ref' <=> Cycles(s) \in DOMAIN ref,
         callback \subseteq callback', heard' = heard, running' => heard = Sharcs
  PROVE  Stages'
<1>1. ASSUME NEW s \in Sharcs PROVE SharcStage(s)'
  <2>1. SharcStage(s) /\ todo'[<<s, "task">>] = todo[<<s, "task">>]
    BY Threads DEF IndInv, Stages, OnlyAt
  <2> QED BY <2>1, SharcStays
<1>2. heard' \subseteq callback' /\ (running' => heard' = Sharcs)
  BY DEF IndInv, Stages
<1> QED BY <1>1, <1>2 DEF Stages

LEMMA SharcGoesOn ==
  ASSUME IndInv, NEW s \in Sharcs, OnlyAt(<<s, "task">>, todo, todo'), \A c \in Core : Late(<<c, "irq">>)',
         SharcStage(s)', \A c \in Core \ {s} : c \in callback' <=> c \in callback,
         \A m \in Persistent \ {Cycles(s)} : m \in DOMAIN ref' <=> m \in DOMAIN ref,
         callback \subseteq callback', UNCHANGED <<heard, enabled, running>>
  PROVE  Stages'
<1>1. ArmStage'
  <2>1. ArmStage /\ todo'[<<"ARM", "task">>] = todo[<<"ARM", "task">>]
    BY Threads DEF IndInv, Stages, OnlyAt
  <2>2. \A m \in Audio : m \in DOMAIN ref' <=> m \in DOMAIN ref
    BY Messages
  <2>3. "ARM" \in Core \ {s}
    BY Threads
  <2> QED BY <2>1, <2>2, <2>3, ArmStays
<1>2. ASSUME NEW r \in Sharcs \ {s} PROVE SharcStage(r)'
  <2>1. SharcStage(r) /\ todo'[<<r, "task">>] = todo[<<r, "task">>] /\ r \in Core
    BY Threads DEF IndInv, Stages, OnlyAt
  <2>2. Cycles(r) \in Persistent \ {Cycles(s)}
    <3>1. Cycles(r).core = r /\ Cycles(s).core = s
      BY DEF Cycles, Message
    <3> QED BY <3>1, Messages
  <2> QED BY <2>1, <2>2, SharcStays
<1>3. heard' \subseteq callback' /\ (running' => heard' = Sharcs)
  BY DEF IndInv, Stages
<1> QED BY <1>1, <1>2, <1>3 DEF Stages

LEMMA InitializeKeeps ==
  ASSUME IndInv, NEW t \in Thread, todo[t] # <<>>, Initialize(t, Head(todo[t]))
  PROVE  IndInv'
<1>1. /\ Head(todo[t]).op = "initialize" /\ Continue(t, <<>>) /\ UNCHANGED pp
      /\ UNCHANGED <<ref, queue, callback, enabled, heard, running>>
  BY DEF Initialize, busVars, appVars, armVars
<1>2. Head(todo[t]).op \in StartupOps
  BY <1>1 DEF StartupOps
<1>3. /\ todo' \in [Thread -> Seq(Call)] /\ todo'[t] = Tail(todo[t]) /\ OnlyAt(t, todo, todo')
      /\ \A c \in Core : Late(<<c, "irq">>)'
  BY <1>1, <1>2, StartupStep
<1>4. Types' /\ Grows /\ heard \subseteq callback /\ (running => heard = Sharcs)
  BY <1>1, <1>3 DEF IndInv, Types, Counters, Grows, Stages
<1>5. \A m \in Msg : Counter(ref', m) - Own(ref', m) = Counter(ref, m) - Own(ref, m)
  BY <1>1
<1>6. CASE t = <<"ARM", "task">> /\ ArmAt(todo[t], "initialize")
  <2>1. ArmStage'
    BY <1>1, <1>3, <1>6 DEF ArmAt, ArmStage
  <2>2. Stages'
    BY <1>1, <1>3, <1>4, <1>6, <2>1, ArmGoesOn
  <2> QED BY <1>1, <1>2, <1>4, <1>5, <2>2, StartupStep
<1>7. ASSUME NEW s \in Sharcs, t = <<s, "task">>, SharcAt(s, todo[t], "initialize") PROVE IndInv'
  <2>1. SharcStage(s)'
    BY <1>1, <1>3, <1>7 DEF SharcAt, SharcStage
  <2>2. Stages'
    BY <1>1, <1>3, <1>4, <1>7, <2>1, SharcGoesOn
  <2> QED BY <1>1, <1>2, <1>4, <1>5, <2>2, StartupStep
<1> QED BY <1>1, <1>2, <1>6, <1>7, StageByHead

LEMMA RegisterKeeps ==
  ASSUME IndInv, NEW t \in Thread, todo[t] # <<>>, Register(t, Head(todo[t]))
  PROVE  IndInv'
<1>1. /\ Head(todo[t]).op = "register" /\ Continue(t, <<>>) /\ UNCHANGED pp
      /\ UNCHANGED <<ref, queue, enabled, heard, running>> /\ callback' = callback \cup {t[1]}
  BY DEF Register, busVars, appVars, armVars
<1>2. Head(todo[t]).op \in StartupOps
  BY <1>1 DEF StartupOps
<1>3. /\ todo' \in [Thread -> Seq(Call)] /\ todo'[t] = Tail(todo[t]) /\ OnlyAt(t, todo, todo')
      /\ \A c \in Core : Late(<<c, "irq">>)'
  BY <1>1, <1>2, StartupStep
<1>4. Types' /\ Grows /\ heard \subseteq callback /\ (running => heard = Sharcs)
  <2>1. t[1] \in Core
    BY DEF Thread
  <2> QED BY <1>1, <1>3, <2>1 DEF IndInv, Types, Counters, Grows, Stages
<1>5. \A m \in Msg : Counter(ref', m) - Own(ref', m) = Counter(ref, m) - Own(ref, m)
  BY <1>1
<1>6. CASE t = <<"ARM", "task">> /\ ArmAt(todo[t], "register")
  <2>1. todo'[<<"ARM", "task">>] = <<Plain("buffers"), Plain("enable"), Plain("wait")>> /\ t[1] = "ARM"
    BY <1>3, <1>6, StartupLists DEF ArmAt
  <2>2. ArmStage'
    BY <1>1, <1>6, <2>1 DEF ArmAt, ArmStage
  <2>3. Stages'
    BY <1>1, <1>3, <1>4, <1>6, <2>1, <2>2, ArmGoesOn, Threads
  <2> QED BY <1>1, <1>2, <1>4, <1>5, <2>3, StartupStep
<1>7. ASSUME NEW s \in Sharcs, t = <<s, "task">>, SharcAt(s, todo[t], "register") PROVE IndInv'
  <2>1. todo'[<<s, "task">>] = <<Plain("announce")>> /\ t[1] = s
    BY <1>3, <1>7, StartupLists DEF SharcAt
  <2>2. SharcStage(s)'
    BY <1>1, <1>7, <2>1 DEF SharcAt, SharcStage
  <2>3. Stages'
    BY <1>1, <1>3, <1>4, <1>7, <2>1, <2>2, SharcGoesOn
  <2> QED BY <1>1, <1>2, <1>4, <1>5, <2>3, StartupStep
<1> QED BY <1>1, <1>2, <1>6, <1>7, StageByHead

\* Messages come into being with one reference.
Adding(S) == /\ ref' = Created(S)
             /\ S \cap DOMAIN ref = {} /\ S \subseteq Msg

LEMMA CreatedAdds ==
  ASSUME NEW m \in Msg, m \notin DOMAIN ref, ref' = Created({m})
  PROVE  Adding({m})
BY DEF Adding

LEMMA AddingTypes ==
  ASSUME IndInv, NEW S, Adding(S)
  PROVE  /\ Counters' /\ DOMAIN ref' = DOMAIN ref \cup S
         /\ \A m \in Msg : /\ Counter(ref', m) = Counter(ref, m) + IF m \in S THEN 1 ELSE 0
                           /\ Own(ref', m) = Own(ref, m) + IF m \in S \cap Persistent THEN 1 ELSE 0
<1>1. Counters
  BY DEF IndInv, Types
<1>2. /\ DOMAIN ref' = DOMAIN ref \cup S
      /\ \A m \in DOMAIN ref' : ref'[m] = IF m \in S THEN 1 ELSE ref[m]
      /\ ref' = [m \in DOMAIN ref' |-> ref'[m]]
  BY DEF Adding, Created
<1>3. Counters'
  BY <1>1, <1>2 DEF Counters, Adding
<1>4. ASSUME NEW m \in Msg
      PROVE  /\ Counter(ref', m) = Counter(ref, m) + IF m \in S THEN 1 ELSE 0
             /\ Own(ref', m) = Own(ref, m) + IF m \in S \cap Persistent THEN 1 ELSE 0
  <2>1. CASE m \in S
    <3>1. m \notin DOMAIN ref
      BY <2>1 DEF Adding
    <3> QED BY <1>2, <2>1, <3>1 DEF Counter, Own
  <2>2. CASE m \notin S
    <3>1. Counter(ref', m) = Counter(ref, m) /\ Own(ref', m) = Own(ref, m)
      BY <1>2, <2>2 DEF Counter, Own
    <3>2. Counter(ref, m) \in Nat /\ Own(ref, m) \in Nat
      BY <1>1 DEF Counter, Own, Counters
    <3> QED BY <2>2, <3>1, <3>2
  <2> QED BY <2>1, <2>2
<1> QED BY <1>2, <1>3, <1>4

LEMMA BuffersKeep ==
  ASSUME IndInv, NEW t \in Thread, todo[t] # <<>>, sae_buffer_init(t, Head(todo[t]))
  PROVE  IndInv'
<1>1. /\ Head(todo[t]).op = "buffers" /\ Continue(t, <<>>) /\ UNCHANGED pp
      /\ UNCHANGED <<queue, callback, enabled, heard, running>> /\ ref' = Created(Audio)
  BY DEF sae_buffer_init, bootVars, armVars
<1>2. Head(todo[t]).op \in StartupOps
  BY <1>1 DEF StartupOps
<1>3. t = <<"ARM", "task">> /\ ArmAt(todo[t], "buffers")
  BY <1>1, <1>2, StageByHead DEF SharcAt
<1>4. /\ todo' \in [Thread -> Seq(Call)] /\ todo'[t] = Tail(todo[t]) /\ OnlyAt(t, todo, todo')
      /\ \A c \in Core : Late(<<c, "irq">>)'
  BY <1>1, <1>2, StartupStep
<1>5. Adding(Audio)
  <2>1. Audio \cap DOMAIN ref = {} /\ Audio \subseteq Msg
    BY <1>3, Messages DEF ArmAt, Msg
  <2> QED BY <1>1, <2>1 DEF Adding
<1>6. /\ Counters' /\ DOMAIN ref' = DOMAIN ref \cup Audio
      /\ \A m \in Msg : /\ Counter(ref', m) = Counter(ref, m) + IF m \in Audio THEN 1 ELSE 0
                        /\ Own(ref', m) = Own(ref, m) + IF m \in Audio \cap Persistent THEN 1 ELSE 0
  BY <1>5, AddingTypes
<1>7. Types' /\ Grows /\ heard \subseteq callback /\ (running => heard = Sharcs)
  BY <1>1, <1>4, <1>6 DEF IndInv, Types, Grows, Stages
<1>8. \A m \in Msg : Counter(ref', m) - Own(ref', m) = Counter(ref, m) - Own(ref, m)
  <2>1. \A m \in Msg : Counter(ref, m) \in Nat /\ Own(ref, m) \in Nat
    BY NumbersTyped DEF IndInv
  <2> QED BY <1>6, <2>1, Messages
<1>9. Stages'
  <2>1. todo'[<<"ARM", "task">>] = <<Plain("enable"), Plain("wait")>>
    BY <1>3, <1>4, StartupLists DEF ArmAt
  <2>2. ArmStage'
    BY <1>1, <1>3, <1>6, <2>1 DEF ArmAt, ArmStage
  <2>3. \A s \in Sharcs : Cycles(s) \in DOMAIN ref' <=> Cycles(s) \in DOMAIN ref
    BY <1>6, Messages
  <2> QED BY <1>1, <1>3, <1>4, <1>7, <2>2, <2>3, ArmGoesOn
<1> QED BY <1>1, <1>2, <1>7, <1>8, <1>9, StartupStep

LEMMA EnableKeeps ==
  ASSUME IndInv, NEW t \in Thread, todo[t] # <<>>, EnableSharcs(t, Head(todo[t]))
  PROVE  IndInv'
<1>1. /\ Head(todo[t]).op = "enable" /\ Continue(t, <<>>) /\ UNCHANGED pp
      /\ UNCHANGED <<ref, queue, callback, heard, running>>
  BY DEF EnableSharcs, busVars, appVars, armVars
<1>2. Head(todo[t]).op \in StartupOps
  BY <1>1 DEF StartupOps
<1>3. t = <<"ARM", "task">> /\ ArmAt(todo[t], "enable")
  BY <1>1, <1>2, StageByHead DEF SharcAt
<1>4. /\ todo' \in [Thread -> Seq(Call)] /\ todo'[t] = Tail(todo[t]) /\ OnlyAt(t, todo, todo')
      /\ \A c \in Core : Late(<<c, "irq">>)'
  BY <1>1, <1>2, StartupStep
<1>5. Types' /\ Grows /\ heard \subseteq callback /\ (running => heard = Sharcs)
  BY <1>1, <1>4 DEF IndInv, Types, Counters, Grows, Stages
<1>6. Stages'
  <2>1. todo'[<<"ARM", "task">>] = <<Plain("wait")>> /\ Len(<<Plain("wait")>>) = 1
    BY <1>3, <1>4, StartupLists DEF ArmAt
  <2>2. ArmStage'
    BY <1>1, <1>3, <2>1 DEF ArmAt, ArmStage
  <2> QED BY <1>1, <1>3, <1>4, <1>5, <2>2, ArmGoesOn
<1> QED BY <1>1, <1>2, <1>5, <1>6, StartupStep

LEMMA WaitKeeps ==
  ASSUME IndInv, NEW t \in Thread, todo[t] # <<>>, Head(todo[t]).op = "wait",
         heard = Sharcs, running' = TRUE, Continue(t, <<>>),
         UNCHANGED <<busVars, ready, callback, enabled, heard, appVars>>
  PROVE  IndInv'
<1>1. UNCHANGED <<pp, ref, queue, callback, enabled, heard>>
  BY DEF busVars, appVars, armVars
<1>2. Head(todo[t]).op \in StartupOps
  BY DEF StartupOps
<1>3. t = <<"ARM", "task">> /\ ArmAt(todo[t], "wait")
  BY <1>2, StageByHead DEF SharcAt
<1>4. /\ todo' \in [Thread -> Seq(Call)] /\ todo'[t] = Tail(todo[t]) /\ OnlyAt(t, todo, todo')
      /\ \A c \in Core : Late(<<c, "irq">>)'
  BY <1>1, <1>2, StartupStep
<1>5. Types' /\ Grows /\ heard \subseteq callback
  BY <1>1, <1>4 DEF IndInv, Types, Counters, Grows, Stages
<1>6. Stages'
  <2>1. Tail(<<Plain("wait")>>) = <<>>
    OBVIOUS
  <2>2. todo'[<<"ARM", "task">>] = <<>>
    BY <1>3, <1>4, <2>1 DEF ArmAt
  <2>3. Late(<<"ARM", "task">>)'
    BY <2>2, EmptyList DEF Late
  <2>4. ArmStage'
    BY <1>1, <1>3, <2>3 DEF ArmAt, ArmStage
  <2> QED BY <1>1, <1>3, <1>4, <1>5, <2>4, ArmGoesOn
<1> QED BY <1>1, <1>2, <1>5, <1>6, StartupStep

LEMMA CyclesKeep ==
  ASSUME IndInv, NEW t \in Thread, todo[t] # <<>>, CreateCycles(t, Head(todo[t]))
  PROVE  IndInv'
<1>1. /\ Head(todo[t]).op = "cycles" /\ Continue(t, <<>>) /\ UNCHANGED pp
      /\ UNCHANGED <<queue, callback, enabled, heard, running>> /\ ref' = Created({Cycles(t[1])})
  BY DEF CreateCycles, bootVars, appVars, armVars
<1>2. Head(todo[t]).op \in StartupOps
  BY <1>1 DEF StartupOps
<1>3. PICK s \in Sharcs : t = <<s, "task">> /\ SharcAt(s, todo[t], "cycles")
  BY <1>1, <1>2, StageByHead DEF ArmAt
<1>4. /\ todo' \in [Thread -> Seq(Call)] /\ todo'[t] = Tail(todo[t]) /\ OnlyAt(t, todo, todo')
      /\ \A c \in Core : Late(<<c, "irq">>)'
  BY <1>1, <1>2, StartupStep
<1>5. Adding({Cycles(s)}) /\ Cycles(s) \in Persistent
  <2>1. Cycles(s) \in Persistent /\ Cycles(s) \in Msg /\ Cycles(s) \notin DOMAIN ref
    BY <1>3, Messages DEF SharcAt, Msg
  <2>2. t[1] = s
    BY <1>3
  <2> QED BY <1>1, <2>1, <2>2, CreatedAdds
<1>6. /\ Counters' /\ DOMAIN ref' = DOMAIN ref \cup {Cycles(s)}
      /\ \A m \in Msg : /\ Counter(ref', m) = Counter(ref, m) + IF m \in {Cycles(s)} THEN 1 ELSE 0
                        /\ Own(ref', m) = Own(ref, m) + IF m \in {Cycles(s)} \cap Persistent THEN 1 ELSE 0
  BY <1>5, AddingTypes
<1>7. Types' /\ Grows
  BY <1>1, <1>4, <1>6 DEF IndInv, Types, Grows
<1>8. \A m \in Msg : Counter(ref', m) - Own(ref', m) = Counter(ref, m) - Own(ref, m)
  <2>1. \A m \in Msg : Counter(ref, m) \in Nat /\ Own(ref, m) \in Nat
    BY NumbersTyped DEF IndInv
  <2> QED BY <1>5, <1>6, <2>1
<1>9. Stages'
  <2>1. todo'[<<s, "task">>] = <<Plain("register"), Plain("announce")>>
    BY <1>3, <1>4, StartupLists DEF SharcAt
  <2>2. SharcStage(s)'
    BY <1>1, <1>3, <1>6, <2>1 DEF SharcAt, SharcStage
  <2> QED BY <1>1, <1>3, <1>4, <1>6, <2>2, SharcGoesOn
<1> QED BY <1>1, <1>2, <1>7, <1>8, <1>9, StartupStep

-----------------------------------------------------------------------------
(* A short message is created *)

\* A short message comes into being: the persistent ones and the stages stay.
LEMMA ShortAdded ==
  ASSUME IndInv, NEW m \in Short, Adding({m}), UNCHANGED <<queue, bootVars, pp>>
  PROVE  /\ SameStage /\ Counters' /\ Queues' /\ queue' \in [Core -> Seq(Msg)] /\ pp' \in PingPong
         /\ \A n \in Msg : /\ Counter(ref', n) = Counter(ref, n) + IF n = m THEN 1 ELSE 0
                           /\ Own(ref', n) = Own(ref, n) /\ Own(ref, n) \in Nat
                           /\ Counter(ref, n) \in Nat /\ Waiting(queue, n) \in Nat
                           /\ Waiting(queue', n) = Waiting(queue, n)
<1>1. /\ Counters' /\ DOMAIN ref' = DOMAIN ref \cup {m}
      /\ \A n \in Msg : /\ Counter(ref', n) = Counter(ref, n) + IF n \in {m} THEN 1 ELSE 0
                        /\ Own(ref', n) = Own(ref, n) + IF n \in {m} \cap Persistent THEN 1 ELSE 0
  BY AddingTypes
<1>2. m \notin Persistent
  BY Messages
<1>3. SameStage
  BY <1>1, <1>2 DEF SameStage, bootVars, IndInv, Types, Stages
<1>4. Queues' /\ queue' \in [Core -> Seq(Msg)] /\ pp' \in PingPong
  <2>1. queue' \in [Core -> Seq(Msg)] /\ pp' \in PingPong
    BY DEF IndInv, Types
  <2>2. \A n \in Msg : Sound(n) => Sound(n)'
    BY <1>1 DEF Sound, bootVars
  <2>3. \A c \in Core : Elements(queue[c]) \subseteq Msg
    BY DEF IndInv, Types, Elements
  <2>4. Queues /\ UNCHANGED bootVars
    BY DEF IndInv, Flow
  <2> QED BY <2>1, <2>2, <2>3, <2>4 DEF Queues, bootVars
<1>5. \A n \in Msg : Counter(ref, n) \in Nat /\ Own(ref, n) \in Nat /\ Waiting(queue, n) \in Nat
  BY NumbersTyped DEF IndInv
<1> QED BY <1>1, <1>2, <1>3, <1>4, <1>5

LEMMA CreateKeeps ==
  ASSUME IndInv, NEW t \in Thread, todo[t] # <<>>, Head(todo[t]).op \in {"ping", "ask", "reply"},
         NEW m, m = Nil \/ (m \in Short /\ m \notin DOMAIN ref), NEW calls,
         m \in Short => Adds(calls, m, 1) /\ Fits(t, calls), Create(t, m, calls)
  PROVE  IndInv'
<1>1. UNCHANGED <<queue, bootVars, pp>>
  BY DEF Create, appVars, armVars
<1>2. Head(todo[t]).op \notin StartupOps /\ \A n : Charge(Head(todo[t]), n) = 0
  BY DEF StartupOps, Charge
<1>3. CASE m = Nil
  <2>1. Continue(t, <<>>) /\ UNCHANGED ref
    BY <1>3 DEF Create
  <2>2. SameStage /\ pp' \in PingPong
    BY <1>1, <2>1 DEF SameStage, bootVars, IndInv, Types, Stages
  <2> QED BY <1>1, <1>2, <2>1, <2>2, EmptyList, EmptyFits, NeutralStep
<1>4. CASE m \in Short /\ m \notin DOMAIN ref
  <2>1. m # Nil /\ m \in Msg
    BY <1>4, Messages DEF Msg
  <2>2. Continue(t, calls) /\ Adding({m})
    BY <1>4, <2>1, CreatedAdds DEF Create
  <2>3. calls \in Seq(Call) /\ Balanced(calls) /\ Fits(t, calls)
        /\ Claim(calls, 1, m) = 1 /\ \A n \in Msg \ {m} : Claim(calls, 1, n) = 0
    BY <1>4 DEF Adds
  <2>4. /\ SameStage /\ Counters' /\ Queues' /\ queue' \in [Core -> Seq(Msg)] /\ pp' \in PingPong
        /\ \A n \in Msg : /\ Counter(ref', n) = Counter(ref, n) + IF n = m THEN 1 ELSE 0
                          /\ Own(ref', n) = Own(ref, n) /\ Own(ref, n) \in Nat
                          /\ Counter(ref, n) \in Nat /\ Waiting(queue, n) \in Nat
                          /\ Waiting(queue', n) = Waiting(queue, n)
    BY <1>1, <1>4, <2>2, ShortAdded
  <2>5. Pays(t, calls)
    <3> SUFFICES ASSUME NEW n \in Msg
                 PROVE  Counter(ref', n) - Own(ref', n) - Waiting(queue', n)
                        = Counter(ref, n) - Own(ref, n) - Waiting(queue, n)
                          + Claim(calls, 1, n) - Charge(Head(todo[t]), n)
      BY DEF Pays
    <3>1. /\ Claim(calls, 1, n) = IF n = m THEN 1 ELSE 0
          /\ Charge(Head(todo[t]), n) = 0
      BY <1>2, <2>3
    <3> QED BY <2>4, <3>1
  <2> QED BY <1>2, <2>2, <2>3, <2>4, <2>5, OrdinaryStep
<1> QED BY <1>3, <1>4

\* Once the system runs the SHARCs are there to be sent to, and once a SHARC
\* runs the ARM is.
LEMMA Ready ==
  ASSUME IndInv
  PROVE  /\ running => Sharcs \subseteq callback /\ "ARM" \in callback
         /\ \A s \in Sharcs : s \in enabled => "ARM" \in callback
BY Threads DEF IndInv, Stages, ArmStage

LEMMA ToBothFits ==
  ASSUME IndInv, NEW t \in Thread, running, NEW m \in Short, m.type # "READY", UNCHANGED bootVars
  PROVE  Fits(t, ToBoth(m))
<1>1. Elements(ToBoth(m)) = {Ref(m), Send(m, "SHARC0"), Send(m, "SHARC1")}
  BY ToBothAdds
<1>2. /\ m \in Msg /\ m \notin Persistent
      /\ "SHARC0" \in callback /\ "SHARC1" \in callback
  BY Messages, Ready, Threads DEF Msg
<1>3. /\ Ref(m).op = "ref" /\ Ref(m).msg = m
      /\ \A c : Send(m, c).op = "send" /\ Send(m, c).msg = m /\ Send(m, c).core = c
  BY DEF Ref, Send, Op
<1>4. running' /\ callback' = callback
  BY DEF bootVars
<1> QED BY <1>1, <1>2, <1>3, <1>4 DEF Fits, Proper, Sound, StartupOps

LEMMA PingKeeps ==
  ASSUME IndInv, NEW t \in Thread, todo[t] # <<>>,
         Ping(t, Head(todo[t])) \/ Ask(t, Head(todo[t]))
  PROVE  IndInv'
<1>1. PICK y \in {"PING", "CYCLES"} :
        Head(todo[t]).op \in {"ping", "ask"} /\ Create(t, Fresh(y, t[1]), ToBoth(Fresh(y, t[1])))
  BY DEF Ping, Ask
<1> DEFINE m == Fresh(y, t[1])
<1>2. running
  BY <1>1, HeadIsProper DEF Proper
<1>3. t[1] \in Core
  BY DEF Thread
<1>4. m = Nil \/ (m \in Short /\ m \notin DOMAIN ref /\ m.type = y)
  BY <1>3, FreshIsFree
<1>5. UNCHANGED bootVars
  BY <1>1 DEF Create
<1>6. m \in Short => Adds(ToBoth(m), m, 1) /\ Fits(t, ToBoth(m))
  <2>1. m \in Short => m.type # "READY"
    BY <1>4, Messages
  <2> HIDE DEF m
  <2> QED BY <1>2, <1>5, <2>1, ToBothAdds, ToBothFits
<1> HIDE DEF m
<1> QED BY <1>1, <1>4, <1>6, CreateKeeps DEF m

LEMMA ReplyKeeps ==
  ASSUME IndInv, NEW t \in Thread, todo[t] # <<>>, t[1] \in enabled, Reply(t, Head(todo[t]))
  PROVE  IndInv'
<1> DEFINE m == Fresh("PING", t[1])
           calls == <<Send(m, "ARM")>>
<1>1. Head(todo[t]).op = "reply" /\ Create(t, m, calls)
  BY DEF Reply
<1>2. t[1] \in Sharcs /\ "ARM" \in callback
  BY <1>1, HeadIsProper, Ready DEF Proper
<1>3. t[1] \in Core /\ "ARM" \in Core /\ "ARM" \notin Sharcs
  BY Threads DEF Thread
<1>4. m = Nil \/ (m \in Short /\ m \notin DOMAIN ref /\ m.type = "PING")
  BY <1>3, FreshIsFree
<1>5. callback' = callback
  BY <1>1 DEF Create, bootVars
<1>6. m \in Short => Adds(calls, m, 1) /\ Fits(t, calls)
  <2> HAVE m \in Short
  <2>1. m \in Msg /\ m \notin Persistent /\ m.type # "READY"
    BY <1>4, Messages DEF Msg
  <2> HIDE DEF m
  <2>2. Send(m, "ARM") \in Call /\ Adds(calls, m, 1)
    BY <1>3, <2>1, CallsAreCalls, OneAdds
  <2>3. Elements(calls) = {Send(m, "ARM")}
    BY <2>2, ListOfOne
  <2>4. Send(m, "ARM").op = "send" /\ Send(m, "ARM").msg = m /\ Send(m, "ARM").core = "ARM"
    BY DEF Send, Op
  <2>5. Fits(t, calls)
    BY <1>2, <1>3, <1>5, <2>1, <2>3, <2>4 DEF Fits, Proper, Sound, StartupOps
  <2> QED BY <2>2, <2>5
<1> HIDE DEF m, calls
<1> QED BY <1>1, <1>4, <1>6, CreateKeeps

LEMMA AnnounceKeeps ==
  ASSUME IndInv, NEW t \in Thread, todo[t] # <<>>, t[1] \in enabled, Announce(t, Head(todo[t]))
  PROVE  IndInv'
<1> DEFINE m == Fresh("READY", t[1])
           calls == <<Send(m, "ARM")>>
<1>1. Head(todo[t]).op = "announce" /\ Create(t, m, calls)
  BY DEF Announce
<1>2. Head(todo[t]).op \in StartupOps
  BY <1>1 DEF StartupOps
<1>3. PICK s \in Sharcs : t = <<s, "task">> /\ SharcAt(s, todo[t], "announce")
  BY <1>1, <1>2, StageByHead DEF ArmAt
<1>4. /\ s \in callback /\ Cycles(s) \in DOMAIN ref /\ t[1] = s /\ "ARM" \in callback
      /\ todo[t] \in Seq(Call) /\ Tail(todo[t]) = <<>> /\ s \in Core /\ "ARM" \in Core /\ "ARM" \notin Sharcs
  <2>1. \A a : Tail(<<a>>) = <<>>
    OBVIOUS
  <2> QED BY <1>3, <2>1, Ready, Threads DEF SharcAt, IndInv, Types
<1>5. m = Nil \/ (m \in Short /\ m \notin DOMAIN ref /\ m.type = "READY" /\ m.core = s)
  BY <1>4, FreshIsFree
<1>6. UNCHANGED <<queue, bootVars, pp, callback, heard, enabled, running>>
  BY <1>1 DEF Create, appVars, armVars, bootVars
\* Whichever list the thread goes on with, its startup is over.
<1>7. ASSUME NEW then \in Seq(Call), Continue(t, then), Fits(t, then),
             \A n \in Persistent : n \in DOMAIN ref' <=> n \in DOMAIN ref
      PROVE  todo' = [todo EXCEPT ![t] = then] /\ Stages'
  <2>1. then \o <<>> = then
    BY <1>7, ConcatEmptySeq
  <2>2. todo' = [todo EXCEPT ![t] = then]
    BY <1>4, <1>7, <2>1 DEF Continue
  <2>3. todo'[t] = then /\ OnlyAt(<<s, "task">>, todo, todo')
    BY <1>3, <2>2 DEF OnlyAt, IndInv, Types
  <2>4. SharcStage(s)'
    <3>1. Late(<<s, "task">>)'
      BY <1>3, <1>7, <2>3 DEF Late, Fits
    <3>2. Cycles(s) \in DOMAIN ref'
      BY <1>4, <1>7, Messages
    <3> QED BY <1>4, <1>6, <3>1, <3>2 DEF SharcStage
  <2>5. \A c \in Core : Late(<<c, "irq">>)'
    <3> SUFFICES ASSUME NEW c \in Core PROVE Late(<<c, "irq">>)'
      OBVIOUS
    <3>1. <<c, "irq">> \in Thread \ {<<s, "task">>} /\ Late(<<c, "irq">>)
      BY DEF Thread, IndInv, Stages
    <3>2. todo'[<<c, "irq">>] = todo[<<c, "irq">>]
      BY <2>3, <3>1 DEF OnlyAt
    <3> QED BY <3>1, <3>2 DEF Late
  <2>6. Stages'
    BY <1>6, <1>7, <2>3, <2>4, <2>5, SharcGoesOn
  <2> QED BY <2>2, <2>6
<1>8. \A n \in Msg : Claim(todo[t], 1, n) = 0
  <2>1. Plain("announce") \in Call
    <3>1. "announce" \in OpName /\ "ARM" \in Core /\ Nil \in Msg \cup {Nil}
      BY Threads DEF OpName
    <3> QED BY <3>1 DEF Plain, Op, Call
  <2>2. \A n : Claim(<<Plain("announce")>>, 1, n) = Charge(Plain("announce"), n)
    BY <2>1, ListOfOne
  <2>3. \A n : Charge(Plain("announce"), n) = 0
    BY Charges
  <2>4. todo[t] = <<Plain("announce")>>
    BY <1>3 DEF SharcAt
  <2> QED BY <2>2, <2>3, <2>4
<1>9. CASE m = Nil
  <2>1. Continue(t, <<>>) /\ UNCHANGED ref
    BY <1>1, <1>9 DEF Create
  <2>2. \A n \in Msg : Counter(ref', n) - Own(ref', n) = Counter(ref, n) - Own(ref, n)
    BY <2>1
  <2>3. Types' /\ Grows
    BY <1>1, <1>2, <1>6, <2>1, StartupStep DEF IndInv, Types, Counters, Grows
  <2>4. Stages'
    BY <1>7, <2>1, EmptyList, EmptyFits
  <2> QED BY <1>2, <1>6, <2>1, <2>2, <2>3, <2>4, StartupStep
<1>10. CASE m \in Short /\ m \notin DOMAIN ref /\ m.type = "READY" /\ m.core = s
  <2>1. m # Nil /\ m \in Msg /\ m \notin Persistent
    BY <1>10, Messages DEF Msg
  <2>2. Continue(t, calls) /\ Adding({m})
    BY <1>1, <1>10, <2>1, CreatedAdds DEF Create
  <2>3. Adds(calls, m, 1)
    BY <1>4, <2>1, OneAdds
  <2>4. calls \in Seq(Call) /\ Balanced(calls)
        /\ \A n \in Msg : Claim(calls, 1, n) = IF n = m THEN 1 ELSE 0
    BY <2>3 DEF Adds
  <2>5. /\ SameStage /\ Counters' /\ Queues' /\ queue' \in [Core -> Seq(Msg)] /\ pp' \in PingPong
        /\ \A n \in Msg : /\ Counter(ref', n) = Counter(ref, n) + IF n = m THEN 1 ELSE 0
                          /\ Own(ref', n) = Own(ref, n) /\ Own(ref, n) \in Nat
                          /\ Counter(ref, n) \in Nat /\ Waiting(queue, n) \in Nat
                          /\ Waiting(queue', n) = Waiting(queue, n)
    BY <1>6, <1>10, <2>2, ShortAdded
  <2>6. Evens(t, calls)
    <3> SUFFICES ASSUME NEW n \in Msg
                 PROVE  Counter(ref', n) - Own(ref', n) - Waiting(queue', n)
                        = Counter(ref, n) - Own(ref, n) - Waiting(queue, n)
                          + Claim(calls, 1, n) - Claim(todo[t], 1, n)
      BY DEF Evens
    <3>1. Claim(calls, 1, n) = (IF n = m THEN 1 ELSE 0) /\ Claim(todo[t], 1, n) = 0
      BY <1>8, <2>4
    <3> QED BY <2>5, <3>1
  <2>7. Fits(t, calls)
    <3> HIDE DEF m
    <3>1. Send(m, "ARM") \in Call
      BY <1>4, <2>1, CallsAreCalls
    <3>2. Elements(calls) = {Send(m, "ARM")}
      BY <3>1, ListOfOne
    <3>3. Send(m, "ARM").op = "send" /\ Send(m, "ARM").msg = m /\ Send(m, "ARM").core = "ARM"
      BY DEF Send, Op
    <3> HIDE DEF calls
    <3> QED BY <1>4, <1>6, <1>10, <2>1, <3>2, <3>3 DEF Fits, Proper, Sound, StartupOps
  <2> HIDE DEF calls, m
  <2>8. todo' = [todo EXCEPT ![t] = calls] /\ Stages'
    <3>1. \A n \in Persistent : n \in DOMAIN ref' <=> n \in DOMAIN ref
      BY <2>5 DEF SameStage
    <3> QED BY <1>7, <2>2, <2>4, <2>7, <3>1
  <2> QED BY <2>4, <2>5, <2>6, <2>7, <2>8, ListGoesOn
<1> QED BY <1>5, <1>9, <1>10

-----------------------------------------------------------------------------
(* Audio and callbacks *)

LEMMA AlwaysThere ==
  ASSUME IndInv, running
  PROVE  Audio \subseteq DOMAIN ref
BY DEF IndInv, Stages, ArmStage

LEMMA XferKeeps ==
  ASSUME IndInv, NEW t \in Thread, todo[t] # <<>>, xferSharcAudio(t, Head(todo[t]))
  PROVE  IndInv'
<1> DEFINE x == Head(todo[t])
           dir == x.msg.type
           swap == Swap(pp[dir][x.core])
           m == Buffer(dir, x.core, swap.send)
           calls == <<Ref(m), Send(m, x.core)>>
<1>1. /\ x.op = "xfer" /\ Continue(t, calls) /\ UNCHANGED <<ref, queue, bootVars>>
      /\ pp' = [pp EXCEPT ![dir][x.core] = swap.next]
  BY DEF xferSharcAudio, busVars
<1>2. x.msg \in Audio /\ x.core \in Sharcs /\ running
  BY <1>1, HeadIsProper DEF Proper
<1>3. dir \in {"IN", "OUT"}
  BY <1>2 DEF Audio, Message
<1>4. swap.send \in 0 .. 1 /\ swap.next \in 0 .. 1
  <2>1. pp[dir][x.core] \in 0 .. 1
    BY <1>2, <1>3 DEF IndInv, Types, PingPong
  <2> QED BY <2>1 DEF Swap
<1>5. pp' \in PingPong
  BY <1>1, <1>2, <1>3, <1>4 DEF IndInv, Types, PingPong
<1>6. m \in Audio /\ m \in Persistent /\ m \in DOMAIN ref /\ m \in Msg
  BY <1>2, <1>3, <1>4, BufferIsAudio, Messages, AlwaysThere DEF Msg
<1>7. x.core \in callback /\ x.core \in Core
  BY <1>2, Ready DEF Core
<1>8. SameStage
  BY <1>1 DEF SameStage, bootVars, IndInv, Types, Stages
<1>9. m.type # "READY"
  BY <1>6, Messages
<1>10. x.op \notin StartupOps /\ \A n \in Msg : Charge(x, n) = 0
  BY <1>1 DEF StartupOps, Charge
<1>11. UNCHANGED <<ref, callback, running>>
  BY <1>1 DEF bootVars
<1>12. Ref(m) \in Call /\ Send(m, x.core) \in Call
  BY <1>6, <1>7, CallsAreCalls
<1> HIDE DEF m
<1>13. Adds(calls, m, 0)
  BY <1>6, <1>7, RefAndSend
<1>14. Elements(calls) = {Ref(m), Send(m, x.core)}
  BY <1>12, ListOfTwo
<1>15. /\ Ref(m).op = "ref" /\ Ref(m).msg = m /\ Send(m, x.core).op = "send"
       /\ Send(m, x.core).msg = m /\ Send(m, x.core).core = x.core
  BY DEF Ref, Send, Op
<1> HIDE DEF calls, x
<1>16. Fits(t, calls)
  BY <1>2, <1>6, <1>7, <1>9, <1>11, <1>14, <1>15 DEF Fits, Proper, Sound, StartupOps
<1>17. calls \in Seq(Call) /\ Balanced(calls) /\ \A n \in Msg : Claim(calls, 1, n) = 0
  BY <1>13 DEF Adds
<1> QED BY <1>1, <1>5, <1>8, <1>10, <1>16, <1>17, NeutralStep DEF x

\* The calls that only change the application's own variables.
LEMMA PlainStep ==
  ASSUME IndInv, NEW t \in Thread, todo[t] # <<>>,
         Head(todo[t]).op \in {"route", "heard", "audio", "process"},
         Continue(t, <<>>), SameStage, UNCHANGED <<ref, queue, pp>>
  PROVE  IndInv'
<1>1. Head(todo[t]).op \notin StartupOps /\ \A n \in Msg : Charge(Head(todo[t]), n) = 0
  BY DEF StartupOps, Charge
<1>2. pp' \in PingPong
  BY DEF IndInv, Types
<1> QED BY <1>1, <1>2, EmptyList, EmptyFits, NeutralStep

LEMMA PlainKeeps ==
  ASSUME IndInv, NEW t \in Thread, todo[t] # <<>>,
         \/ RouteAudio(t, Head(todo[t])) \/ newAudio(t, Head(todo[t]))
         \/ sharcProcessAudio(t, Head(todo[t]))
  PROVE  IndInv'
<1>1. /\ Head(todo[t]).op \in {"route", "audio", "process"} /\ Continue(t, <<>>)
      /\ UNCHANGED <<ref, queue, pp, callback, enabled, running, heard>>
  BY DEF RouteAudio, newAudio, sharcProcessAudio, busVars, bootVars, armVars
<1>2. SameStage
  BY <1>1 DEF SameStage, IndInv, Types, Stages
<1> QED BY <1>1, <1>2, PlainStep

LEMMA HeardKeeps ==
  ASSUME IndInv, NEW t \in Thread, todo[t] # <<>>, Heard(t, Head(todo[t]))
  PROVE  IndInv'
<1> DEFINE m == Head(todo[t]).msg
<1>1. /\ Head(todo[t]).op = "heard" /\ Continue(t, <<>>) /\ heard' = heard \cup {m.core}
      /\ UNCHANGED <<ref, queue, pp, callback, enabled, running>>
  BY DEF Heard, busVars, appVars, armVars
<1>2. m.core \in callback \cap Sharcs
  BY <1>1, HeadIsProper DEF Proper, Sound
<1>3. SameStage
  BY <1>1, <1>2 DEF SameStage, IndInv, Types, Stages
<1> QED BY <1>1, <1>3, PlainStep

LEMMA BothLists ==
  ASSUME NEW a \in Seq(Call), NEW b \in Seq(Call)
  PROVE  /\ a \o b \in Seq(Call) /\ Elements(a \o b) \subseteq Elements(a) \cup Elements(b)
         /\ Balanced(a) /\ Balanced(b) => Balanced(a \o b)
         /\ \A m : Claim(a \o b, 1, m) = Claim(a, 1, m) + Claim(b, 1, m)
<1> DEFINE r == a \o b
<1>1. r \in Seq(Call) /\ Joined(a, b, r) /\ 1 \in 1 .. Len(a) + 1
  BY DEF Joined
<1>2. \A i \in 1 .. Len(r) : \/ i \in 1 .. Len(a) /\ r[i] = a[i]
                             \/ i - Len(a) \in 1 .. Len(b) /\ r[i] = b[i - Len(a)]
  OBVIOUS
<1> HIDE DEF r
<1>3. Elements(r) \subseteq Elements(a) \cup Elements(b)
  BY <1>2 DEF Elements
<1>4. Balanced(a) /\ Balanced(b) => Balanced(r)
  BY <1>1, BalancedBoth
<1>5. \A m : Claim(r, 1, m) = Claim(a, 1, m) + Claim(b, 1, m)
  BY <1>1, ClaimOfBoth
<1> QED BY <1>1, <1>3, <1>4, <1>5 DEF r

\* The list that routes a domain, told to the SHARCs before or not.
LEMMA DomainKeeps ==
  ASSUME IndInv, NEW t \in Thread, todo[t] # <<>>, DomainReady(t, Head(todo[t]))
  PROVE  IndInv'
<1> DEFINE m == Fresh("PROCESS", "ARM")
           x == Head(todo[t])
           route == <<Plain("route")>>
           complete == active = {"CODEC_IN", "CODEC_OUT"}
<1>1. /\ x.op = "domain" /\ UNCHANGED <<queue, bootVars, pp>>
      /\ ref' = IF complete /\ m # Nil THEN Created({m}) ELSE ref
      /\ Continue(t, IF ~complete THEN <<>>
                     ELSE (IF m = Nil THEN <<>> ELSE ProcessCalls(m)) \o route)
  BY DEF DomainReady
<1>2. t[1] = "ARM" /\ running
  BY <1>1, HeadIsProper DEF Proper
<1>3. m = Nil \/ (m \in Short /\ m \notin DOMAIN ref /\ m.type = "PROCESS")
  BY FreshIsFree, Threads
<1>4. x.op \notin StartupOps /\ \A n \in Msg : Charge(x, n) = 0
  BY <1>1 DEF StartupOps, Charge
<1>5. callback' = callback /\ running' = running
  BY <1>1 DEF bootVars
<1>6. /\ route \in Seq(Call) /\ Balanced(route) /\ Elements(route) = {Plain("route")}
      /\ \A n : Claim(route, 1, n) = 0
  BY PlainAdds
<1>7. Plain("route").op = "route" /\ Plain("route").msg = Nil /\ Nil \notin Persistent /\ Nil.type # "READY"
  BY Messages DEF Plain, Op, Msg
<1>8. Fits(t, route)
  BY <1>2, <1>5, <1>6, <1>7 DEF Fits, Proper, Sound, StartupOps
<1> HIDE DEF m, x, route
<1>9. CASE UNCHANGED ref
  <2>1. SameStage /\ pp' \in PingPong /\ UNCHANGED <<ref, queue>>
    BY <1>1, <1>9 DEF SameStage, bootVars, IndInv, Types, Stages
  <2>2. CASE Continue(t, <<>>)
    BY <1>4, <2>1, <2>2, EmptyList, EmptyFits, NeutralStep DEF x
  <2>3. CASE Continue(t, <<>> \o route)
    <3>1. Continue(t, route)
      BY <1>6, <2>3, ConcatEmptySeq
    <3>2. \A n \in Msg : Claim(route, 1, n) = Charge(Head(todo[t]), n)
      BY <1>4, <1>6 DEF x
    <3> QED BY <1>4, <1>6, <1>8, <2>1, <3>1, <3>2, NeutralStep DEF x
  <2>4. complete /\ m # Nil => ~UNCHANGED ref
    <3> SUFFICES ASSUME complete, m # Nil, ref' = ref PROVE FALSE
      OBVIOUS
    <3>1. m \in DOMAIN ref'
      BY <1>1 DEF Created
    <3> QED BY <1>3, <3>1
  <2>5. CASE ~complete
    BY <1>1, <2>2, <2>5
  <2>6. CASE complete /\ m = Nil
    BY <1>1, <2>3, <2>6
  <2> QED BY <1>9, <2>4, <2>5, <2>6
<1>10. CASE complete /\ m # Nil
  <2> DEFINE then == ProcessCalls(m) \o route
  <2>1. Continue(t, then) /\ m \in Short /\ m \in Msg /\ m \notin Persistent /\ m \notin DOMAIN ref
        /\ m.type # "READY"
    BY <1>1, <1>3, <1>10, Messages DEF Msg
  <2>2. Adding({m})
    BY <1>1, <1>10, <2>1, CreatedAdds
  <2>3. /\ SameStage /\ Counters' /\ Queues' /\ queue' \in [Core -> Seq(Msg)] /\ pp' \in PingPong
        /\ \A n \in Msg : /\ Counter(ref', n) = Counter(ref, n) + IF n = m THEN 1 ELSE 0
                          /\ Own(ref', n) = Own(ref, n) /\ Own(ref, n) \in Nat
                          /\ Counter(ref, n) \in Nat /\ Waiting(queue, n) \in Nat
                          /\ Waiting(queue', n) = Waiting(queue, n)
    BY <1>1, <2>1, <2>2, ShortAdded
  <2>4. /\ Adds(ProcessCalls(m), m, 1)
        /\ Elements(ProcessCalls(m)) = {Ref(m), Send(m, "SHARC0"), Send(m, "SHARC1"), Unref(m)}
    BY <2>1, ProcessAdds
  <2>5. /\ then \in Seq(Call) /\ Balanced(then)
        /\ Elements(then) \subseteq Elements(ProcessCalls(m)) \cup Elements(route)
        /\ \A n \in Msg : Claim(then, 1, n) = IF n = m THEN 1 ELSE 0
    <3>1. ProcessCalls(m) \in Seq(Call) /\ Balanced(ProcessCalls(m))
          /\ \A n \in Msg : Claim(ProcessCalls(m), 1, n) = IF n = m THEN 1 ELSE 0
      BY <2>4 DEF Adds
    <3>2. \A n : Claim(then, 1, n) = Claim(ProcessCalls(m), 1, n) + Claim(route, 1, n)
      BY <1>6, <3>1, BothLists
    <3>3. \A n \in Msg : Claim(then, 1, n) = IF n = m THEN 1 ELSE 0
      BY <1>6, <3>1, <3>2
    <3> QED BY <1>6, <3>1, <3>3, BothLists
  <2> HIDE DEF then
  <2>6. Pays(t, then)
    <3> SUFFICES ASSUME NEW n \in Msg
                 PROVE  Counter(ref', n) - Own(ref', n) - Waiting(queue', n)
                        = Counter(ref, n) - Own(ref, n) - Waiting(queue, n)
                          + Claim(then, 1, n) - Charge(x, n)
      BY DEF Pays, x
    <3>1. Claim(then, 1, n) = (IF n = m THEN 1 ELSE 0) /\ Charge(x, n) = 0
      BY <1>4, <2>5
    <3> QED BY <2>3, <3>1
  <2>7. Fits(t, then)
    <3>1. /\ Ref(m).op = "ref" /\ Ref(m).msg = m /\ Unref(m).op = "unref" /\ Unref(m).msg = m
          /\ \A c : Send(m, c).op = "send" /\ Send(m, c).msg = m /\ Send(m, c).core = c
      BY DEF Ref, Unref, Send, Op
    <3>2. "SHARC0" \in callback /\ "SHARC1" \in callback
      BY <1>2, Ready, Threads
    <3>3. Fits(t, ProcessCalls(m))
      BY <1>2, <1>5, <2>1, <2>4, <3>1, <3>2 DEF Fits, Proper, Sound, StartupOps
    <3> QED BY <1>8, <2>5, <3>3 DEF Fits
  <2> QED BY <1>4, <2>1, <2>3, <2>5, <2>6, <2>7, OrdinaryStep DEF x
<1>11. (complete /\ m # Nil) \/ UNCHANGED ref
  BY <1>1
<1> QED BY <1>9, <1>10, <1>11

\* An interrupt takes a message out of its queue.
LEMMA ReceiveKeeps ==
  ASSUME IndInv, NEW c \in Core, Receive(c)
  PROVE  IndInv'
<1>m. PICK m : m = Head(queue[c])
  OBVIOUS
<1> DEFINE t == <<c, "irq">>
           l == Handle(c, m)
<1>1. /\ todo[t] = <<>> /\ queue[c] # <<>> /\ queue' = [queue EXCEPT ![c] = Tail(@)]
      /\ UNCHANGED <<ref, bootVars, appVars>>
  BY DEF Receive
<1>2. c \in callback /\ (c \in Sharcs => running) /\ \A n \in Elements(queue[c]) : Sound(n)
  BY <1>1 DEF IndInv, Flow, Queues
<1>3. todo' = [todo EXCEPT ![t] = l] /\ t \in Thread
  BY <1>2, <1>m DEF Receive, Thread
<1>4. UNCHANGED <<ref, callback, enabled, heard, running, pp>>
  BY <1>1 DEF bootVars, appVars, armVars
<1>5. queue \in [Core -> Seq(Msg)] /\ queue[c] \in Seq(Msg)
  BY DEF IndInv, Types
<1>6. /\ Tail(queue[c]) \in Seq(Msg) /\ Elements(Tail(queue[c])) \subseteq Elements(queue[c])
      /\ m \in Elements(queue[c])
      /\ \A n : Number(Tail(queue[c]), 1, {n}) = Number(queue[c], 1, {n}) - (IF m = n THEN 1 ELSE 0)
  BY <1>1, <1>5, <1>m, QueueTail
<1>7. queue' \in [Core -> Seq(Msg)] /\ queue'[c] = Tail(queue[c]) /\ \A d \in Core \ {c} : queue'[d] = queue[d]
  BY <1>1, <1>5, <1>6
<1>8. m \in Msg /\ Sound(m)
  BY <1>2, <1>5, <1>6 DEF Elements
<1>9. Adds(l, m, 1) /\
      Elements(l) \subseteq
        {Unref(m), Op("audio", m, c), Plain("process")}
        \cup (IF c \in Sharcs THEN {Plain("reply"), Ref(Cycles(c)), Send(Cycles(c), "ARM")} ELSE {})
        \cup (IF c = "ARM" /\ m.type = "READY" THEN {Op("heard", m, c)} ELSE {})
  BY <1>8, HandleAdds
<1>10. l \in Seq(Call) /\ Balanced(l) /\ \A n \in Msg : Claim(l, 1, n) = IF m = n THEN 1 ELSE 0
  BY <1>9 DEF Adds
<1>11. Fits(t, l)
  <2>1. ASSUME c \in Sharcs
        PROVE  Cycles(c) \in DOMAIN ref /\ Cycles(c) \in Msg /\ "ARM" \in callback /\ Cycles(c).type # "READY"
    <3>1. Cycles(c) \in DOMAIN ref
      BY <1>2, <2>1 DEF IndInv, Stages, SharcStage
    <3> QED BY <1>2, <2>1, <3>1, Ready, Messages DEF Msg
  <2>2. /\ \A n : Ref(n).op = "ref" /\ Ref(n).msg = n /\ Unref(n).op = "unref" /\ Unref(n).msg = n
        /\ \A n, d : Send(n, d).op = "send" /\ Send(n, d).msg = n /\ Send(n, d).core = d
        /\ \A o, n, d : Op(o, n, d).op = o /\ Op(o, n, d).msg = n
        /\ \A o : Plain(o).op = o /\ Plain(o).msg = Nil
    BY DEF Ref, Unref, Send, Plain, Op
  <2>3. Nil \notin Persistent /\ Nil.type # "READY" /\ "ARM" \notin Sharcs
    BY Messages, Threads DEF Msg
  <2>4. Sound(m)' /\ Sound(Nil)'
    BY <1>4, <1>8, <2>3 DEF Sound
  <2>5. t[1] = c
    OBVIOUS
  <2> HIDE DEF t, l
  <2>6. Unref(m).op \notin StartupOps /\ Proper(t, Unref(m))'
    BY <1>8, <2>2, <2>4 DEF Proper, StartupOps
  <2>7. /\ Op("audio", m, c).op \notin StartupOps /\ Proper(t, Op("audio", m, c))'
        /\ Plain("process").op \notin StartupOps /\ Proper(t, Plain("process"))'
    BY <1>8, <2>2, <2>4 DEF Proper, StartupOps
  <2>8. c \in Sharcs => Plain("reply").op \notin StartupOps /\ Proper(t, Plain("reply"))'
    BY <2>2, <2>4, <2>5 DEF Proper, StartupOps
  <2>9. c \in Sharcs => /\ Ref(Cycles(c)).op \notin StartupOps /\ Proper(t, Ref(Cycles(c)))'
                        /\ Send(Cycles(c), "ARM").op \notin StartupOps /\ Proper(t, Send(Cycles(c), "ARM"))'
    BY <1>4, <2>1, <2>2, <2>3 DEF Proper, StartupOps, Sound
  <2>10. m.type = "READY" => Op("heard", m, c).op \notin StartupOps /\ Proper(t, Op("heard", m, c))'
    BY <2>2, <2>4 DEF Proper, StartupOps
  <2> QED BY <1>9, <2>6, <2>7, <2>8, <2>9, <2>10 DEF Fits
<1> HIDE DEF t, l
<1>12. Late(t)
  BY <1>1, <1>3, LateByHead
<1>13. SameStage /\ Counters' /\ pp' \in PingPong
  BY <1>4 DEF SameStage, IndInv, Types, Stages, Counters
<1>14. Queues'
  <2>1. \A d \in Core : Elements(queue'[d]) \subseteq Elements(queue[d])
    BY <1>6, <1>7
  <2>2. \A d \in Core : queue'[d] # <<>> => queue[d] # <<>>
    BY <1>1, <1>7
  <2>3. \A d \in Core : \A n \in Elements(queue[d])' : Sound(n)'
    BY <1>4, <2>1 DEF IndInv, Flow, Queues, Sound, Elements
  <2> QED BY <1>4, <2>2, <2>3 DEF IndInv, Flow, Queues
<1>15. Evens(t, l)
  <2> SUFFICES ASSUME NEW n \in Msg
               PROVE  Counter(ref', n) - Own(ref', n) - Waiting(queue', n)
                      = Counter(ref, n) - Own(ref, n) - Waiting(queue, n)
                        + Claim(l, 1, n) - Claim(todo[t], 1, n)
    BY DEF Evens
  <2> DEFINE a == Number(queue[c], 1, {n})
             b == Number(queue'[c], 1, {n})
             w == Waiting(queue, n)
             v == Waiting(queue', n)
  <2>1. v = w - a + b /\ w \in Nat /\ a \in Nat
    <3>1. OnlyQueue(c, queue, queue')
      BY <1>7 DEF OnlyQueue
    <3> QED BY <1>5, <1>7, <3>1, WaitingMoves
  <2>2. b = a - (IF m = n THEN 1 ELSE 0)
    BY <1>6, <1>7
  <2> HIDE DEF a, b, w, v
  <2>3. v = w - (IF m = n THEN 1 ELSE 0) /\ w \in Nat
    BY <2>1, <2>2
  <2>4. Claim(l, 1, n) = (IF m = n THEN 1 ELSE 0) /\ Claim(todo[t], 1, n) = 0
    BY <1>1, <1>10, EmptyList
  <2>5. Counter(ref', n) = Counter(ref, n) /\ Own(ref', n) = Own(ref, n)
    BY <1>4
  <2>6. Counter(ref, n) \in Nat /\ Own(ref, n) \in Nat
    BY NumbersTyped DEF IndInv
  <2> QED BY <2>3, <2>4, <2>5, <2>6 DEF v, w
<1> QED BY <1>3, <1>7, <1>10, <1>11, <1>12, <1>13, <1>14, <1>15, ListStep

\* An idle thread gets calls that give and take nothing.
LEMMA NewList ==
  ASSUME IndInv, NEW t \in Thread, todo[t] = <<>>, NEW l \in Seq(Call), Balanced(l), Fits(t, l),
         \A m \in Msg : Claim(l, 1, m) = 0, todo' = [todo EXCEPT ![t] = l],
         UNCHANGED <<busVars, bootVars, pp>>
  PROVE  IndInv'
<1>1. UNCHANGED <<ref, queue, callback, enabled, heard, running, pp>>
  BY DEF busVars, bootVars
<1>2. Late(t)
  BY LateByHead
<1>3. SameStage /\ Counters' /\ Queues' /\ queue' \in [Core -> Seq(Msg)] /\ pp' \in PingPong
  BY <1>1 DEF SameStage, IndInv, Types, Stages, Counters, Flow, Queues, Sound, Elements
<1>4. Evens(t, l)
  <2> SUFFICES ASSUME NEW n \in Msg
               PROVE  Counter(ref', n) - Own(ref', n) - Waiting(queue', n)
                      = Counter(ref, n) - Own(ref, n) - Waiting(queue, n)
                        + Claim(l, 1, n) - Claim(todo[t], 1, n)
    BY DEF Evens
  <2>1. Counter(ref, n) \in Nat /\ Own(ref, n) \in Nat /\ Waiting(queue, n) \in Nat
    BY NumbersTyped DEF IndInv
  <2>2. Claim(l, 1, n) = 0 /\ Claim(todo[t], 1, n) = 0
    BY EmptyList
  <2> QED BY <1>1, <2>1, <2>2
<1> QED BY <1>2, <1>3, <1>4, ListStep

LEMMA CodecKeeps ==
  ASSUME IndInv, NEW d \in {"CODEC_IN", "CODEC_OUT"}, codecAudio(d)
  PROVE  IndInv'
<1> DEFINE t == <<"ARM", "irq">>
           dir == IF d = "CODEC_IN" THEN "OUT" ELSE "IN"
           a == Op("xfer", Buffer(dir, "SHARC0", 0), "SHARC0")
           b == Op("xfer", Buffer(dir, "SHARC1", 0), "SHARC1")
           e == Plain("domain")
           l == <<a, b, e>>
<1>1. /\ running /\ todo[t] = <<>> /\ todo' = [todo EXCEPT ![t] = l]
      /\ UNCHANGED <<busVars, bootVars, pp>>
  BY DEF codecAudio
<1>2. t \in Thread /\ t[1] = "ARM" /\ "SHARC0" \in Sharcs /\ "SHARC1" \in Sharcs /\ Sharcs \subseteq Core
  BY Threads DEF Core
<1>3. /\ Buffer(dir, "SHARC0", 0) \in Audio /\ Buffer(dir, "SHARC1", 0) \in Audio
      /\ Audio \subseteq Msg /\ Audio \subseteq Persistent
  BY <1>2, BufferIsAudio, Messages DEF Msg
<1>4. a \in Call /\ b \in Call /\ e \in Call
  BY <1>2, <1>3, CallsAreCalls
<1>5. /\ a.op = "xfer" /\ a.msg \in Audio /\ a.core \in Sharcs
      /\ b.op = "xfer" /\ b.msg \in Audio /\ b.core \in Sharcs
      /\ e.op = "domain" /\ e.msg = Nil
  BY <1>2, <1>3 DEF Op, Plain
<1>6. Sound(a.msg)' /\ Sound(b.msg)' /\ Sound(e.msg)' /\ running'
  <2>1. UNCHANGED <<ref, running, callback>>
    BY <1>1 DEF busVars, bootVars
  <2>2. Audio \subseteq DOMAIN ref
    BY <1>1, AlwaysThere
  <2>3. Nil \notin Persistent /\ Nil.type # "READY" /\ \A m \in Audio : m.type # "READY"
    BY Messages DEF Msg
  <2> HIDE DEF a, b, e
  <2> QED BY <1>1, <1>5, <2>1, <2>2, <2>3 DEF Sound
<1>7. \A m : Charge(a, m) = 0 /\ Charge(b, m) = 0 /\ Charge(e, m) = 0
  BY <1>5 DEF Charge
<1>8. a.msg \notin Short /\ b.msg \notin Short /\ e.msg \notin Short
  BY <1>3, <1>5, Messages DEF Msg
<1> HIDE DEF a, b, e, t
<1>9. l \in Seq(Call) /\ Balanced(l) /\ Elements(l) = {a, b, e} /\ \A m : Claim(l, 1, m) = 0
  BY <1>4, <1>7, <1>8, ListOfThree
<1>10. Fits(t, l)
  BY <1>2, <1>5, <1>6, <1>9 DEF Fits, Proper, StartupOps
<1> HIDE DEF l
<1> QED BY <1>1, <1>2, <1>9, <1>10, NewList

LEMMA HouseKeeps ==
  ASSUME IndInv, houseKeepingTask
  PROVE  IndInv'
<1> DEFINE t == <<"ARM", "task">>
           a == Plain("ping")
           b == Plain("ask")
           l == <<a, b>>
<1>1. /\ running /\ todo[t] = <<>> /\ todo' = [todo EXCEPT ![t] = l]
      /\ UNCHANGED <<busVars, bootVars, pp>>
  BY DEF houseKeepingTask, armVars
<1>2. t \in Thread /\ t[1] = "ARM"
  BY Threads
<1>3. /\ a \in Call /\ b \in Call /\ a.op = "ping" /\ b.op = "ask" /\ a.msg = Nil /\ b.msg = Nil
      /\ Nil \notin Persistent /\ Nil \notin Short /\ Nil.type # "READY" /\ running'
  BY <1>1, CallsAreCalls, Messages DEF Plain, Op, Msg, bootVars
<1>4. \A m : Charge(a, m) = 0 /\ Charge(b, m) = 0
  BY <1>3 DEF Charge
<1> HIDE DEF a, b, t
<1>5. l \in Seq(Call) /\ Balanced(l) /\ Elements(l) = {a, b} /\ \A m : Claim(l, 1, m) = 0
  BY <1>3, <1>4, ListOfTwo
<1>6. Fits(t, l)
  BY <1>2, <1>3, <1>5 DEF Fits, Proper, Sound, StartupOps
<1> HIDE DEF l
<1> QED BY <1>1, <1>2, <1>5, <1>6, NewList

-----------------------------------------------------------------------------
(* The theorems *)

LEMMA PlainList ==
  ASSUME NEW s \in Seq(Call), \A i \in 1 .. Len(s) : s[i].msg = Nil
  PROVE  Balanced(s) /\ \A m \in Msg : Claim(s, 1, m) = 0
<1>1. ASSUME NEW m \in Msg, NEW k \in Nat \ {0} PROVE Claim(s, k, m) = 0 /\ ~Mentions(s, k, m)
  <2>1. \A i \in k .. Len(s) : s[i] \notin Gives(m) /\ s[i] \notin Takes(m) /\ s[i].msg # m
    <3> SUFFICES ASSUME NEW i \in k .. Len(s)
                 PROVE  s[i] \notin Gives(m) /\ s[i] \notin Takes(m) /\ s[i].msg # m
      OBVIOUS
    <3>1. i \in 1 .. Len(s)
      OBVIOUS
    <3> QED BY <3>1, Messages DEF Gives, Takes
  <2>2. Number(s, k, Gives(m)) = 0 /\ Number(s, k, Takes(m)) = 0
    BY <2>1, NumberOfNone
  <2> QED BY <2>1, <2>2 DEF Claim, Mentions
<1>2. \A k \in 1 .. Len(s) : k \in Nat \ {0}
  OBVIOUS
<1>3. 1 \in Nat \ {0}
  OBVIOUS
<1>4. Balanced(s)
  BY <1>1, <1>2 DEF Balanced
<1> QED BY <1>1, <1>3, <1>4

LEMMA StartupCalls ==
  \A p \in {<<>>, ArmStartup, SharcStartup} :
    p \in Seq(Call) /\ \A x \in Elements(p) : x.msg = Nil /\ x.op \in StartupOps
<1>1. \A o \in StartupOps : Plain(o) \in Call /\ Plain(o).op = o /\ Plain(o).msg = Nil
  <2>1. "ARM" \in Core /\ Nil \in Msg \cup {Nil} /\ StartupOps \subseteq OpName
    BY Threads DEF StartupOps, OpName
  <2> QED BY <2>1 DEF Plain, Op, Call
<1>2. ASSUME NEW a \in Call, NEW b \in Call, NEW c \in Call, NEW d \in Call, NEW e \in Call
      PROVE  /\ <<a, b, c, d, e>> \in Seq(Call) /\ Elements(<<a, b, c, d, e>>) \subseteq {a, b, c, d, e}
             /\ <<a, b, c, d>> \in Seq(Call) /\ Elements(<<a, b, c, d>>) \subseteq {a, b, c, d}
  <2> DEFINE s == <<a, b, c, d, e>>
             r == <<a, b, c, d>>
  <2>1. /\ s \in Seq(Call) /\ Len(s) = 5 /\ s[1] = a /\ s[2] = b /\ s[3] = c /\ s[4] = d /\ s[5] = e
        /\ r \in Seq(Call) /\ Len(r) = 4 /\ r[1] = a /\ r[2] = b /\ r[3] = c /\ r[4] = d
    OBVIOUS
  <2> HIDE DEF s, r
  <2>2. /\ \A i \in 1 .. Len(s) : s[i] \in {a, b, c, d, e}
        /\ \A i \in 1 .. Len(r) : r[i] \in {a, b, c, d}
    BY <2>1
  <2>3. Elements(s) \subseteq {a, b, c, d, e} /\ Elements(r) \subseteq {a, b, c, d}
    BY <2>2 DEF Elements
  <2> QED BY <2>1, <2>3 DEF s, r
<1> DEFINE pi == Plain("initialize")
           pr == Plain("register")
           pb == Plain("buffers")
           pe == Plain("enable")
           pw == Plain("wait")
           pc == Plain("cycles")
           pa == Plain("announce")
<1>3. \A x \in {pi, pr, pb, pe, pw, pc, pa} : x \in Call /\ x.msg = Nil /\ x.op \in StartupOps
  BY <1>1 DEF StartupOps
<1>4. ArmStartup = <<pi, pr, pb, pe, pw>> /\ SharcStartup = <<pi, pc, pr, pa>>
  BY DEF ArmStartup, SharcStartup
<1> HIDE DEF pi, pr, pb, pe, pw, pc, pa
<1>5. ArmStartup \in Seq(Call) /\ Elements(ArmStartup) \subseteq {pi, pr, pb, pe, pw}
  BY <1>2, <1>3, <1>4
<1>6. SharcStartup \in Seq(Call) /\ Elements(SharcStartup) \subseteq {pi, pc, pr, pa}
  BY <1>2, <1>3, <1>4
<1> QED BY <1>3, <1>5, <1>6, EmptyList

LEMMA NoneWait == \A m : Number(<<>>, 1, {m}) = 0
<1>1. <<>> \in Seq(Msg) /\ 1 \in Nat /\ \A m : \A i \in 1 .. Len(<<>>) : <<>>[i] \notin {m}
  OBVIOUS
<1> QED BY <1>1, NumberOfNone

LEMMA InitInv == Init => IndInv
<1> SUFFICES ASSUME Init PROVE IndInv
  OBVIOUS
<1>1. /\ \A t \in Thread : todo[t] \in {<<>>, ArmStartup, SharcStartup}
      /\ todo[<<"ARM", "task">>] = ArmStartup
      /\ \A s \in Sharcs : todo[<<s, "task">>] = SharcStartup
      /\ \A c \in Core : todo[<<c, "irq">>] = <<>>
  <2>1. todo = [t \in Thread |-> IF t[2] = "irq" THEN <<>>
                                 ELSE IF t[1] = "ARM" THEN ArmStartup ELSE SharcStartup]
    BY DEF Init
  <2>2. /\ <<"ARM", "task">> \in Thread /\ \A s \in Sharcs : <<s, "task">> \in Thread /\ s # "ARM"
        /\ \A c \in Core : <<c, "irq">> \in Thread
    BY Threads DEF Thread
  <2>3. /\ todo[<<"ARM", "task">>] = ArmStartup
        /\ \A s \in Sharcs : todo[<<s, "task">>] = SharcStartup
        /\ \A c \in Core : todo[<<c, "irq">>] = <<>>
    BY <2>1, <2>2
  <2> QED BY <2>1, <2>3
<1>2. \A t \in Thread : todo[t] \in Seq(Call) /\ \A x \in Elements(todo[t]) : x.msg = Nil /\ x.op \in StartupOps
  BY <1>1, StartupCalls
<1>3. todo \in [Thread -> Seq(Call)] /\ queue \in [Core -> Seq(Msg)]
  <2>1. todo = [t \in Thread |-> todo[t]] /\ queue = [c \in Core |-> <<>>]
    BY DEF Init
  <2> QED BY <1>2, <2>1
<1>4. DOMAIN ref = {} /\ Counters
  BY DEF Init, Counters
<1>5. Types
  <2>1. pp \in PingPong
    BY DEF Init, PingPong
  <2> QED BY <1>3, <1>4, <2>1 DEF Init, Types
<1>6. Stages
  <2>1. Audio \cap DOMAIN ref = {} /\ \A s \in Sharcs : Cycles(s) \notin DOMAIN ref
    BY <1>4
  <2>2. \A c \in Core : Late(<<c, "irq">>)
    BY <1>1, EmptyList DEF Late
  <2>3. ArmStage /\ \A s \in Sharcs : SharcStage(s)
    BY <1>1, <2>1 DEF Init, ArmStage, SharcStage
  <2> QED BY <2>2, <2>3 DEF Init, Stages
<1>7. Flow
  <2>1. \A t \in Thread : \A x \in Elements(todo[t]) : Proper(t, x)
    <3>1. Nil \notin Persistent /\ Nil.type # "READY"
      BY Messages DEF Msg
    <3> QED BY <1>2, <3>1 DEF Proper, Sound, StartupOps
  <2>2. \A c \in Core : queue[c] = <<>> /\ Elements(queue[c]) = {}
    BY DEF Init, Elements
  <2> QED BY <2>1, <2>2 DEF Flow, Queues
<1>8. Counted
  <2>1. \A t \in Thread : \A i \in 1 .. Len(todo[t]) : todo[t][i].msg = Nil
    BY <1>2 DEF Elements
  <2>2. ASSUME NEW t \in Thread PROVE Balanced(todo[t]) /\ \A m \in Msg : Claim(todo[t], 1, m) = 0
    BY <1>2, <2>1, PlainList
  <2>3. ASSUME NEW m \in Msg PROVE Balance(ref, queue, todo, m)
    <3>1. Counter(ref, m) = 0 /\ Own(ref, m) = 0
      BY <1>4 DEF Counter, Own
    <3>2. Number(<<>>, 1, {m}) = 0
      BY NoneWait
    <3>3. Waiting(queue, m) = 0
      BY <3>2, Threads DEF Init, Waiting
    <3>4. Held(todo, m) = 0
      <4> DEFINE g == [t \in Thread |-> Claim(todo[t], 1, m)]
      <4>1. \A t \in Thread : g[t] = 0
        BY <2>2
      <4>2. Held(todo, m) = Total(g)
        BY DEF Held
      <4> HIDE DEF g
      <4> QED BY <4>1, <4>2, Threads DEF Total
    <3> QED BY <3>1, <3>3, <3>4 DEF Balance
  <2> QED BY <2>2, <2>3 DEF Counted
<1> QED BY <1>5, <1>6, <1>7, <1>8 DEF IndInv

LEMMA IdleKeeps == ASSUME IndInv, UNCHANGED vars PROVE IndInv'
<1>1. UNCHANGED <<ref, queue, callback, enabled, heard, running, todo, pp>>
  BY DEF vars, busVars, bootVars, appVars, armVars
<1>2. Types'
  BY <1>1 DEF IndInv, Types, Counters
<1>3. Stages'
  <2>1. ArmStage'
    BY <1>1 DEF IndInv, Stages, ArmStage, Late
  <2>2. \A s \in Sharcs : SharcStage(s)'
    BY <1>1 DEF IndInv, Stages, SharcStage, Late
  <2> QED BY <1>1, <2>1, <2>2 DEF IndInv, Stages, Late
<1>4. Flow'
  <2>1. \A m : Sound(m)' <=> Sound(m)
    BY <1>1 DEF Sound
  <2>2. \A t, x : Proper(t, x)' <=> Proper(t, x)
    BY <1>1, <2>1 DEF Proper
  <2>3. (\A t \in Thread : Elements(todo[t])' = Elements(todo[t])) /\ \A c \in Core : Elements(queue[c])' = Elements(queue[c])
    BY <1>1 DEF Elements
  <2>4. Queues'
    BY <1>1, <2>1, <2>3 DEF IndInv, Flow, Queues
  <2> QED BY <2>2, <2>3, <2>4 DEF IndInv, Flow
<1>5. Counted'
  <2>1. \A t \in Thread : Balanced(todo[t])' <=> Balanced(todo[t])
    BY <1>1 DEF Balanced, Claim, Number, Places, Mentions
  <2>2. \A m : Balance(ref, queue, todo, m)' <=> Balance(ref, queue, todo, m)
    BY <1>1
  <2> QED BY <2>1, <2>2 DEF IndInv, Counted
<1> QED BY <1>2, <1>3, <1>4, <1>5 DEF IndInv

LEMMA StepKeeps == ASSUME IndInv, NEW t \in Thread, Step(t) PROVE IndInv'
<1>1. todo[t] # <<>> /\ t[1] \in enabled
  BY DEF Step, CanRun
<1> DEFINE op == Head(todo[t])
<1>2. CASE DoRef(t, op)              BY <1>1, <1>2, RefKeeps
<1>3. CASE DoUnref(t, op)            BY <1>1, <1>3, UnrefKeeps
<1>4. CASE ipcToCore(t, op)          BY <1>1, <1>4, SendKeeps
<1>5. CASE Initialize(t, op)         BY <1>1, <1>5, InitializeKeeps
<1>6. CASE Register(t, op)           BY <1>1, <1>6, RegisterKeeps
<1>7. CASE sae_buffer_init(t, op)    BY <1>1, <1>7, BuffersKeep
<1>8. CASE EnableSharcs(t, op)       BY <1>1, <1>8, EnableKeeps
<1>9. CASE WaitForSharcs(t, op)
  <2>1. CASE UNCHANGED vars
    BY <2>1, IdleKeeps
  <2>2. CASE /\ op.op = "wait" /\ heard = Sharcs /\ running' = TRUE /\ Continue(t, <<>>)
             /\ UNCHANGED <<busVars, ready, callback, enabled, heard, appVars>>
    BY <1>1, <2>2, WaitKeeps
  <2> QED BY <1>9, <2>1, <2>2 DEF WaitForSharcs
<1>10. CASE CreateCycles(t, op)      BY <1>1, <1>10, CyclesKeep
<1>11. CASE Announce(t, op)          BY <1>1, <1>11, AnnounceKeeps
<1>12. CASE Ping(t, op) \/ Ask(t, op) BY <1>1, <1>12, PingKeeps
<1>13. CASE Reply(t, op)             BY <1>1, <1>13, ReplyKeeps
<1>14. CASE xferSharcAudio(t, op)    BY <1>1, <1>14, XferKeeps
<1>15. CASE DomainReady(t, op)       BY <1>1, <1>15, DomainKeeps
<1>16. CASE Heard(t, op)             BY <1>1, <1>16, HeardKeeps
<1>17. CASE RouteAudio(t, op) \/ newAudio(t, op) \/ sharcProcessAudio(t, op)
  BY <1>1, <1>17, PlainKeeps
<1> QED BY <1>2, <1>3, <1>4, <1>5, <1>6, <1>7, <1>8, <1>9, <1>10, <1>11, <1>12, <1>13, <1>14,
           <1>15, <1>16, <1>17 DEF Step

\* The invariant is inductive: whatever the cores do, in any order.
THEOREM Inductive == Spec => []IndInv
<1>1. IndInv /\ [Next]_vars => IndInv'
  <2> SUFFICES ASSUME IndInv, [Next]_vars PROVE IndInv'
    OBVIOUS
  <2>1. ASSUME NEW t \in Thread, Step(t) PROVE IndInv'
    BY <2>1, StepKeeps
  <2>2. ASSUME NEW c \in Core, Receive(c) PROVE IndInv'
    BY <2>2, ReceiveKeeps
  <2>3. ASSUME NEW d \in {"CODEC_IN", "CODEC_OUT"}, codecAudio(d) PROVE IndInv'
    BY <2>3, CodecKeeps
  <2>4. CASE houseKeepingTask
    BY <2>4, HouseKeeps
  <2>5. CASE UNCHANGED vars
    BY <2>5, IdleKeeps
  <2> QED BY <2>1, <2>2, <2>3, <2>4, <2>5 DEF Next, Finished
<1> QED BY InitInv, <1>1, PTL DEF Spec

\* No message reaches a core before its callback is there: the ARM enables the
\* SHARCs after it has registered its own (main.c:532), each SHARC registers
\* before it says that it is ready, and the ARM sends to none before it has
\* heard both.
THEOREM NothingIsMissed == Spec => []NothingMissed
<1>1. IndInv => NothingMissed
  BY DEF IndInv, Flow, Queues, NothingMissed
<1> QED BY Inductive, <1>1, PTL

\* No freed message is ever used: every queue and every list of calls refers
\* to messages that exist, however the six threads interleave, however full
\* the queues and the heap are.
THEOREM NothingDangles == Spec => []NoDangling
<1>1. IndInv => NoDangling
  <2> SUFFICES ASSUME IndInv PROVE NoDangling
    OBVIOUS
  <2>1. \A c \in Core : Queued(c) \subseteq DOMAIN ref
    BY QueuedExists DEF Queued, Elements
  <2>2. ASSUME NEW t \in Thread, NEW m \in InHand(t) PROVE m = Nil \/ m \in DOMAIN ref
    <3>1. PICK x \in Elements(todo[t]) : x.msg = m
      BY DEF InHand, Elements
    <3>2. x \in Call
      BY DEF IndInv, Types, Elements
    <3>3. m \in Msg \/ m = Nil
      BY <3>1, <3>2 DEF Call
    <3> QED BY <3>1, <3>3, InHandExists
  <2>3. running => Audio \subseteq DOMAIN ref
    BY AlwaysThere
  <2> QED BY <2>1, <2>2, <2>3 DEF NoDangling
<1> QED BY Inductive, <1>1, PTL

\* No reference is lost: whenever the running system has nothing left to do,
\* only the persistent messages are there, each with its creator's reference,
\* whatever was refused or could not be created on the way.
THEOREM NothingLeaks == Spec => [](running /\ Idle => ref = [m \in Persistent |-> 1])
<1>1. IndInv => (running /\ Idle => ref = [m \in Persistent |-> 1])
  <2> SUFFICES ASSUME IndInv, running, Idle PROVE ref = [m \in Persistent |-> 1]
    OBVIOUS
  <2>1. Counters /\ Types
    BY DEF IndInv, Types
  <2>2. ASSUME NEW m \in Msg PROVE Counter(ref, m) = Own(ref, m)
    <3>1. Waiting(queue, m) = 0
      <4>1. Number(<<>>, 1, {m}) = 0
        BY NoneWait
      <4> QED BY <4>1, Threads DEF Idle, Waiting
    <3>2. Held(todo, m) = 0
      <4> DEFINE g == [t \in Thread |-> Claim(todo[t], 1, m)]
      <4>1. \A t \in Thread : g[t] = 0
        BY EmptyList DEF Idle
      <4>2. Held(todo, m) = Total(g)
        BY DEF Held
      <4> HIDE DEF g
      <4> QED BY <4>1, <4>2, Threads DEF Total
    <3>3. Counter(ref, m) = Own(ref, m) + Waiting(queue, m) + Held(todo, m) /\ Own(ref, m) \in Nat
      BY <2>1, NumbersTyped DEF IndInv, Counted, Balance
    <3> QED BY <3>1, <3>2, <3>3
  <2>3. Persistent \subseteq DOMAIN ref
    <3>1. Audio \subseteq DOMAIN ref
      BY AlwaysThere
    <3>2. ASSUME NEW s \in Sharcs PROVE Cycles(s) \in DOMAIN ref
      BY Ready, Threads DEF IndInv, Stages, SharcStage
    <3> QED BY <3>1, <3>2 DEF Persistent
  <2>4. \A m \in DOMAIN ref : m \in Persistent /\ ref[m] = 1
    <3> SUFFICES ASSUME NEW m \in DOMAIN ref PROVE m \in Persistent /\ ref[m] = 1
      OBVIOUS
    <3>1. m \in Msg /\ ref[m] > 0 /\ ref[m] \in Nat
      BY <2>1 DEF Counters
    <3>2. ref[m] = Own(ref, m)
      BY <2>2, <3>1 DEF Counter
    <3> QED BY <3>1, <3>2 DEF Own
  <2> QED BY <2>1, <2>3, <2>4 DEF Counters
<1> QED BY Inductive, <1>1, PTL

-----------------------------------------------------------------------------
(* The line of a SHARC: what is under way to it *)

\* The parts of a pair change with every block.
LEMMA Parity ==
  ASSUME NEW n \in Nat
  PROVE  /\ Kept(n) \in 0 .. 1 /\ Sent(n) \in 0 .. 1 /\ Kept(n) # Sent(n)
         /\ Kept(n + 1) = Sent(n) /\ Sent(n + 1) = Kept(n) /\ Prev(n + 1) = n
         /\ Sent(n) = 1 - Kept(n) /\ Kept(n) = 1 - Sent(n)
BY DEF Kept, Sent, Prev

\* A buffer is known by its direction, its core and its part of the pair.
LEMMA BufferParts ==
  /\ \A d \in Dirs, s \in Sharcs, i \in 0 .. 1 :
       /\ Buffer(d, s, i) \in Audio
       /\ Buffer(d, s, i).type = d /\ Buffer(d, s, i).core = s /\ Buffer(d, s, i).id = i
  /\ \A x \in Audio : /\ x.type \in Dirs /\ x.core \in Sharcs /\ x.id \in 0 .. 1
                      /\ x = Buffer(x.type, x.core, x.id)
  /\ Mark \notin Audio /\ Nil \notin Audio /\ Mark # Nil
<1>1. \A d \in Dirs, s \in Sharcs, i \in 0 .. 1 :
       /\ Buffer(d, s, i) \in Audio
       /\ Buffer(d, s, i).type = d /\ Buffer(d, s, i).core = s /\ Buffer(d, s, i).id = i
  BY DEF Buffer, Audio, Message, Dirs
<1>2. \A x \in Audio : /\ x.type \in Dirs /\ x.core \in Sharcs /\ x.id \in 0 .. 1
                      /\ x = Buffer(x.type, x.core, x.id)
  BY DEF Buffer, Audio, Message, Dirs
<1>3. Mark.type = "PROCESS" /\ Nil.type = "NULL"
  BY DEF Mark, Nil, Message
<1> QED BY <1>1, <1>2, <1>3 DEF Dirs

-----------------------------------------------------------------------------
(* What moves the line *)

\* The buffer x of this block is sent.
LEMMA SendBuffer ==
  ASSUME NEW s \in Sharcs, NEW n \in Nat, NEW d \in Dirs, NEW S \in SUBSET Dirs, d \notin S,
         NEW H, NEW inf, NEW dat, Content(s, H, n, S, FALSE, inf, dat)
  PROVE  Content(s, H \cup {Buffer(d, s, Sent(n))}, n, S \cup {d}, FALSE, inf, dat)
<1> DEFINE x == Buffer(d, s, Sent(n))
           K == H \cup {x}
<1>1. /\ x \in Audio /\ x.type = d /\ x.core = s /\ x.id = Sent(n) /\ x # Mark
      /\ \A e \in Dirs : Buffer(e, s, Kept(n)) # x
      /\ \A e \in Dirs : e # d => Buffer(e, s, Sent(n)) # x
  BY Parity, BufferParts
<1>2. Kept(n) # Sent(n)
  BY Parity
<1>3. Mark \in K <=> Mark \in H
  BY <1>1
<1>4. Now(K, n, FALSE) = Now(H, n, FALSE) /\ Now(H, n, FALSE) \in {Kept(n), Sent(n)}
  BY <1>3 DEF Now
<1> HIDE DEF x
<1>5. LineOK(s, K, n, S \cup {d}, FALSE)
  BY <1>1, <1>2, <1>4 DEF Content, LineOK, x
<1>6. InfoOK(s, K, n, S \cup {d}, FALSE, inf)
  BY <1>1, <1>2, <1>4 DEF Content, InfoOK, x
<1>7. DataOK(s, K, n, FALSE, dat)
  BY <1>4 DEF Content, DataOK
<1> QED BY <1>5, <1>6, <1>7 DEF Content, x

\* The process message of this block is sent, when the one before it has
\* been dealt with.
LEMMA SendProcess ==
  ASSUME NEW s \in Sharcs, NEW n \in Nat, NEW H, NEW inf, NEW dat,
         Content(s, H, n, Dirs, FALSE, inf, dat), Mark \notin H
  PROVE  Content(s, H \cup {Mark}, n, Dirs, TRUE, inf, dat)
<1> DEFINE K == H \cup {Mark}
<1>1. Now(H, n, FALSE) = Sent(n) /\ Now(K, n, TRUE) = Sent(n) /\ Kept(n) # Sent(n)
  BY Parity DEF Now
<1>2. \A e \in Dirs, i \in 0 .. 1 : Buffer(e, s, i) # Mark
  BY BufferParts
<1>3. Kept(n) \in 0 .. 1 /\ Sent(n) \in 0 .. 1 /\ K \cap Audio = H \cap Audio
  BY Parity, BufferParts
<1>4. LineOK(s, K, n, Dirs, TRUE)
  BY <1>1, <1>2, <1>3 DEF Content, LineOK
<1>5. InfoOK(s, K, n, Dirs, TRUE, inf)
  BY <1>1, <1>2, <1>3 DEF Content, InfoOK
<1>6. DataOK(s, K, n, TRUE, dat)
  BY <1>1, <1>2, <1>3 DEF Content, DataOK
<1> QED BY <1>4, <1>5, <1>6 DEF Content

\* What the SHARC's work on the buffer x, its processing of the pairs' buffers
\* w and the ARM's routing of block n do to the buffers.
TakenOver(x, inf, new, dat, put) ==
  /\ new = [inf EXCEPT ![x.type] = x.id]
  /\ \A y \in Audio : y.type = "IN" \/ y # x => put[y] = dat[y]
Worked(s, w, new, dat, put) ==
  /\ \A d \in Dirs : new[d] = None
  /\ \A y \in Audio : put[y] = IF y = Buffer("OUT", s, w) THEN dat[Buffer("IN", s, w)] ELSE dat[y]
Routed(n, dat, put) ==
  \A y \in Audio : put[y] = IF y.type = "IN" /\ y.id = Kept(n) THEN n + 1 ELSE dat[y]

\* No buffer in the line that the next process message works on.
Cleared(H, w) == \A x \in H \cap Audio : x.id # w

\* The SHARC takes over the buffer x, whose turn it is.
LEMMA TakeBuffer ==
  ASSUME NEW s \in Sharcs, NEW n \in Nat, NEW S \in SUBSET Dirs, NEW ps \in BOOLEAN,
         NEW H, NEW inf \in [Dirs -> {None, 0, 1}], NEW dat \in [Audio -> Nat], NEW x \in H \cap Audio,
         Content(s, H, n, S, ps, inf, dat),
         Mark \in H => x.id = Now(H, n, ps),
         NEW new \in [Dirs -> {None, 0, 1}], NEW put \in [Audio -> Nat], TakenOver(x, inf, new, dat, put)
  PROVE  Content(s, H \ {x}, n, S, ps, new, put)
<1> USE DEF TakenOver
<1> DEFINE K == H \ {x}
           w == Now(H, n, ps)
<1>1. /\ x.type \in Dirs /\ x.core = s /\ x.id \in {Kept(n), Sent(n)} /\ x # Mark
      /\ x = Buffer(x.type, s, x.id)
      /\ Kept(n) # Sent(n) /\ Kept(n) \in 0 .. 1 /\ Sent(n) \in 0 .. 1
  BY Parity, BufferParts DEF Content, LineOK
<1>2. Now(K, n, ps) = w /\ (Mark \in K <=> Mark \in H) /\ w \in {Kept(n), Sent(n)}
  BY <1>1 DEF Now
<1>3. x.id = w /\ (ps => Mark \in H)
  BY <1>1 DEF Content, LineOK, Now
<1>4. \A d \in Dirs : d # x.type => /\ new[d] = inf[d]
                                    /\ Buffer(d, s, Kept(n)) # x /\ Buffer(d, s, Sent(n)) # x
  BY <1>1, BufferParts
<1>5. new[x.type] = x.id
  BY <1>1
<1>6. /\ w = Kept(n) => \A d \in Dirs : Buffer(d, s, Sent(n)) # x
      /\ w = Sent(n) => \A d \in Dirs : Buffer(d, s, Kept(n)) # x
  BY <1>1, <1>3, BufferParts
<1> HIDE DEF w
<1>7. LineOK(s, K, n, S, ps)
  BY <1>1, <1>2, <1>3, <1>6 DEF Content, LineOK, w
<1>8. InfoOK(s, K, n, S, ps, new)
  <2> SUFFICES ASSUME NEW d \in Dirs
               PROVE  new[d] = IF w = Kept(n)
                       THEN (IF Buffer(d, s, Kept(n)) \in K THEN None ELSE Kept(n))
                       ELSE (IF d \in S /\ Buffer(d, s, Sent(n)) \notin K /\ (ps => Mark \in K) THEN Sent(n) ELSE None)
    BY <1>2 DEF InfoOK
  <2>1. CASE d # x.type
    BY <1>2, <1>4, <2>1 DEF Content, InfoOK, w
  <2>2. CASE d = x.type
    <3>1. w = Sent(n) => d \in S
      BY <1>1, <1>3, <2>2 DEF Content, LineOK
    <3> QED BY <1>1, <1>2, <1>3, <1>5, <2>2, <3>1
  <2> QED BY <2>1, <2>2
<1>9. DataOK(s, K, n, ps, put)
  <2>1. /\ \A i \in 0 .. 1 : Buffer("IN", s, i) \in Audio /\ Buffer("IN", s, i).type = "IN"
        /\ Buffer("OUT", s, Kept(n)) \in Audio /\ Buffer("OUT", s, Sent(n)) \in Audio
        /\ "OUT" \in Dirs
    BY <1>1, BufferParts DEF Dirs
  <2>2. put[Buffer("IN", s, Sent(n))] = n /\ put[Buffer("IN", s, Kept(n))] = Prev(n)
    BY <1>1, <2>1 DEF Content, DataOK
  <2>3. w = Sent(n) => put[Buffer("OUT", s, Kept(n))] = Prev(n)
    BY <1>6, <2>1 DEF Content, DataOK, w
  <2> QED BY <1>2, <1>3, <2>2, <2>3 DEF DataOK
<1> QED BY <1>7, <1>8, <1>9 DEF Content

\* It processes when no buffer is left in the line that the message works on.
LEMMA Processes ==
  ASSUME NEW s \in Sharcs, NEW n \in Nat, NEW S \in SUBSET Dirs, NEW ps \in BOOLEAN, ps => S = Dirs,
         NEW H, NEW inf, NEW dat \in [Audio -> Nat], Mark \in H,
         Content(s, H, n, S, ps, inf, dat),
         Cleared(H, Now(H, n, ps))
  PROVE  /\ \A d \in Dirs : inf[d] = Now(H, n, ps)
         /\ \A new, put : Worked(s, Now(H, n, ps), new, dat, put)
                           => Content(s, H \ {Mark}, n, S, ps, new, put)
<1> USE DEF Cleared, Worked
<1> DEFINE K == H \ {Mark}
           w == Now(H, n, ps)
<1>1. /\ Kept(n) # Sent(n) /\ Kept(n) \in 0 .. 1 /\ Sent(n) \in 0 .. 1
      /\ \A i \in 0 .. 1 : i \in {Kept(n), Sent(n)}
  BY Parity
<1>2. /\ \A d \in Dirs, i \in 0 .. 1 : /\ Buffer(d, s, i) \in Audio /\ Buffer(d, s, i).id = i
                                       /\ Buffer(d, s, i).type = d /\ Buffer(d, s, i) # Mark
      /\ "IN" \in Dirs /\ "OUT" \in Dirs /\ \A x \in Audio : x.id \in 0 .. 1
  BY BufferParts DEF Dirs
<1>3. H \subseteq Audio \cup {Mark} /\ K = H \cap Audio
  BY BufferParts DEF Content, LineOK
<1>4. ASSUME ~ps
      PROVE  /\ w = Kept(n) /\ Now(K, n, ps) = Sent(n) /\ \A d \in Dirs : inf[d] = w
             /\ \A d \in S : Buffer(d, s, Sent(n)) \in K
             /\ \A x \in K : x.core = s /\ x.type \in S /\ x.id = Sent(n)
  <2>1. w = Kept(n) /\ Now(K, n, ps) = Sent(n)
    BY <1>4 DEF Now
  <2>2. \A d \in Dirs : Buffer(d, s, Kept(n)) \notin H
    BY <1>1, <1>2, <2>1
  <2>3. \A d \in Dirs : inf[d] = w
    BY <2>1, <2>2 DEF Content, InfoOK
  <2>4. \A d \in S : Buffer(d, s, Sent(n)) \in K
    BY <1>1, <1>2, <2>1 DEF Content, LineOK
  <2>5. \A x \in K : x.core = s /\ x.type \in S /\ x.id = Sent(n)
    BY <1>1, <1>2, <1>3, <2>1 DEF Content, LineOK
  <2> QED BY <2>1, <2>3, <2>4, <2>5
<1>5. ASSUME ps
      PROVE  w = Sent(n) /\ Now(K, n, ps) = Sent(n) /\ K = {} /\ \A d \in Dirs : inf[d] = w
  <2>1. w = Sent(n) /\ Now(K, n, ps) = Sent(n)
    BY <1>5 DEF Now
  <2>2. K = {}
    BY <1>1, <1>2, <1>3, <2>1 DEF Content, LineOK
  <2>3. \A d \in Dirs : Buffer(d, s, Sent(n)) \notin H
    BY <1>1, <1>2, <1>3, <2>2
  <2> QED BY <1>1, <1>5, <2>1, <2>2, <2>3 DEF Content, InfoOK
<1>6. ASSUME NEW new, NEW put, \A d \in Dirs : new[d] = None,
             \A y \in Audio : put[y] = IF y = Buffer("OUT", s, w) THEN dat[Buffer("IN", s, w)] ELSE dat[y]
      PROVE  Content(s, K, n, S, ps, new, put)
  <2> HIDE DEF K, w
  <2>1. LineOK(s, K, n, S, ps)
    <3>1. CASE ps
      BY <1>1, <1>5, <3>1 DEF LineOK
    <3>2. CASE ~ps
      BY <1>1, <1>3, <1>4, <3>2 DEF LineOK
    <3> QED BY <3>1, <3>2
  <2>2. InfoOK(s, K, n, S, ps, new)
    <3>1. Mark \notin K
      BY DEF K
    <3>2. CASE ps
      BY <1>1, <1>5, <1>6, <3>1, <3>2 DEF InfoOK
    <3>3. CASE ~ps
      BY <1>1, <1>4, <1>6, <3>1, <3>3 DEF InfoOK
    <3> QED BY <3>2, <3>3
  <2>3. DataOK(s, K, n, ps, put)
    <3>1. /\ \A i \in 0 .. 1 : put[Buffer("IN", s, i)] = dat[Buffer("IN", s, i)]
          /\ \A i \in 0 .. 1 : put[Buffer("OUT", s, i)] = IF i = w THEN dat[Buffer("IN", s, i)] ELSE dat[Buffer("OUT", s, i)]
      <4>1. w \in 0 .. 1
        BY <1>1, <1>4, <1>5
      <4>2. \A i \in 0 .. 1 : /\ Buffer("OUT", s, i) \in Audio /\ Buffer("IN", s, i) \in Audio
                              /\ Buffer("OUT", s, i) = Buffer("OUT", s, w) <=> i = w
                              /\ Buffer("IN", s, i) # Buffer("OUT", s, w)
        BY <1>2, <4>1
      <4> QED BY <1>6, <4>2
    <3>2. /\ put[Buffer("IN", s, Sent(n))] = n /\ put[Buffer("IN", s, Kept(n))] = Prev(n)
      BY <1>1, <3>1 DEF Content, DataOK
    <3>3. put[Buffer("OUT", s, Kept(n))] = Prev(n)
      <4>1. CASE ps
        BY <1>1, <1>5, <3>1, <4>1 DEF Content, DataOK, w
      <4>2. CASE ~ps
        BY <1>1, <1>4, <3>1, <4>2 DEF Content, DataOK
      <4> QED BY <4>1, <4>2
    <3>4. ps => put[Buffer("OUT", s, Sent(n))] = n
      BY <1>1, <1>5, <3>1 DEF Content, DataOK
    <3> QED BY <3>2, <3>3, <3>4 DEF DataOK
  <2> QED BY <2>1, <2>2, <2>3 DEF Content
<1> QED BY <1>4, <1>5, <1>6

\* The ARM routes the block: it writes the buffers it keeps, and the pairs
\* change their parts.
LEMMA Routes ==
  ASSUME NEW s \in Sharcs, NEW n \in Nat, NEW H, NEW inf, NEW dat, NEW put,
         Content(s, H, n, Dirs, TRUE, inf, dat),
         Routed(n, dat, put)
  PROVE  /\ Content(s, H, n + 1, {}, FALSE, inf, put)
         /\ dat[Buffer("OUT", s, Kept(n))] = Prev(n)
         /\ Mark \in H => Now(H, n + 1, FALSE) = Now(H, n, TRUE)
<1> USE DEF Routed
<1>1. /\ Kept(n) # Sent(n) /\ Kept(n) \in 0 .. 1 /\ Sent(n) \in 0 .. 1
      /\ Kept(n + 1) = Sent(n) /\ Sent(n + 1) = Kept(n) /\ Prev(n + 1) = n
  BY Parity
<1>2. /\ \A d \in Dirs, i \in 0 .. 1 : /\ Buffer(d, s, i) \in Audio /\ Buffer(d, s, i).id = i
                                       /\ Buffer(d, s, i).type = d
      /\ "IN" \in Dirs /\ "OUT" \in Dirs /\ \A x \in Audio : x.id \in 0 .. 1
  BY BufferParts DEF Dirs
<1>3. /\ Now(H, n, TRUE) = Sent(n)
      /\ Now(H, n + 1, FALSE) = IF Mark \in H THEN Sent(n) ELSE Kept(n)
  BY <1>1 DEF Now
<1>4. LineOK(s, H, n + 1, {}, FALSE)
  BY <1>1, <1>2, <1>3 DEF Content, LineOK
<1>5. InfoOK(s, H, n + 1, {}, FALSE, inf)
  BY <1>1, <1>3 DEF Content, InfoOK
<1>6. DataOK(s, H, n + 1, FALSE, put)
  <2>1. /\ put[Buffer("IN", s, Kept(n))] = n + 1 /\ put[Buffer("IN", s, Sent(n))] = n
        /\ \A i \in 0 .. 1 : put[Buffer("OUT", s, i)] = dat[Buffer("OUT", s, i)]
    BY <1>1, <1>2 DEF Content, DataOK
  <2>2. Mark \notin H => put[Buffer("OUT", s, Sent(n))] = n
    BY <1>1, <2>1 DEF Content, DataOK
  <2> QED BY <1>1, <1>3, <2>1, <2>2 DEF DataOK
<1>7. dat[Buffer("OUT", s, Kept(n))] = Prev(n)
  BY <1>3 DEF Content, DataOK
<1> QED BY <1>3, <1>4, <1>5, <1>6, <1>7 DEF Content

\* What is in a line.
LEMMA ItemsOf ==
  ASSUME NEW k, NEW L, IsLine(L, k)
  PROVE  /\ DOMAIN L = 0 .. k /\ k \in Nat /\ \A i \in 0 .. k : L[i] \in Audio \cup {Mark, Nil}
         /\ \A x : x \in Items(L) <=> x # Nil /\ \E i \in 0 .. k : L[i] = x
BY DEF IsLine, Items

\* M is L with x at its end.
Grown(L, M, k, x) == IsLine(L, k) /\ IsLine(M, k + 1) /\ M[k + 1] = x /\ \A i \in 0 .. k : M[i] = L[i]

\* A line that grows stays in order.
LEMMA LineGrows ==
  ASSUME NEW k, NEW L, NEW M, NEW x, Grown(L, M, k, x)
  PROVE  /\ Items(M) = IF x = Nil THEN Items(L) ELSE Items(L) \cup {x}
         /\ \A w : /\ Order(L, w) /\ (x # Nil => x \notin Items(L))
                   /\ x \in Audio /\ Mark \in Items(L) => x.id # w
                   /\ x = Mark => \A y \in Items(L) \cap Audio : y.id = w
                   => Order(M, w)
<1>1. /\ DOMAIN L = 0 .. k /\ k \in Nat /\ DOMAIN M = 0 .. k + 1
      /\ \A y : y \in Items(L) <=> y # Nil /\ \E i \in 0 .. k : L[i] = y
      /\ \A y : y \in Items(M) <=> y # Nil /\ \E i \in 0 .. k + 1 : M[i] = y
      /\ M[k + 1] = x /\ \A i \in 0 .. k : M[i] = L[i]
  BY ItemsOf DEF Grown
<1>2. \A i \in 0 .. k + 1 : (i \in 0 .. k /\ M[i] = L[i]) \/ (i = k + 1 /\ M[i] = x)
  BY <1>1
<1>3. \A i \in 0 .. k : i \in 0 .. k + 1 /\ i # k + 1 /\ i < k + 1 /\ ~(k + 1 < i)
  BY <1>1
<1>4. k + 1 \in 0 .. k + 1 /\ ~(k + 1 < k + 1)
  BY <1>1
<1>5. Items(M) = IF x = Nil THEN Items(L) ELSE Items(L) \cup {x}
  <2>1. \A y : y \in Items(M) <=> (y \in Items(L) \/ (y # Nil /\ y = x))
    BY <1>1, <1>2, <1>3, <1>4
  <2> QED BY <2>1, <1>1
<1>6. ASSUME NEW w, Order(L, w), x # Nil => x \notin Items(L),
             x \in Audio /\ Mark \in Items(L) => x.id # w,
             x = Mark => \A y \in Items(L) \cap Audio : y.id = w
      PROVE  Order(M, w)
  <2>1. ASSUME NEW i \in 0 .. k + 1, NEW j \in 0 .. k + 1, M[i] = M[j], M[i] # Nil PROVE i = j
    <3>1. CASE i \in 0 .. k /\ j \in 0 .. k
      BY <1>1, <1>6, <2>1, <3>1 DEF Order
    <3>2. CASE i \in 0 .. k /\ j = k + 1
      BY <1>1, <1>6, <2>1, <3>2
    <3>3. CASE i = k + 1 /\ j \in 0 .. k
      BY <1>1, <1>6, <2>1, <3>3
    <3> QED BY <1>2, <3>1, <3>2, <3>3
  <2>2. ASSUME NEW i \in 0 .. k + 1, NEW j \in 0 .. k + 1, M[i] \in Audio, M[j] = Mark
        PROVE  i < j <=> M[i].id = w
    <3>1. Mark \notin Audio /\ Nil \notin Audio /\ Mark # Nil
      BY BufferParts
    <3>2. CASE i \in 0 .. k /\ j \in 0 .. k
      BY <1>1, <1>6, <2>2, <3>2 DEF Order
    <3>3. CASE i \in 0 .. k /\ j = k + 1
      BY <1>1, <1>3, <1>6, <2>2, <3>1, <3>3
    <3>4. CASE i = k + 1 /\ j \in 0 .. k
      BY <1>1, <1>3, <1>6, <2>2, <3>1, <3>4
    <3> QED BY <1>2, <2>2, <3>1, <3>2, <3>3, <3>4
  <2> QED BY <1>1, <2>1, <2>2 DEF Order
<1> QED BY <1>5, <1>6

\* The first of the queue is taken.
Moved(L, M, k) == IsLine(L, k + 1) /\ IsLine(M, k) /\ k \in Nat /\ L[0] = Nil /\ \A i \in 0 .. k : M[i] = L[i + 1]

\* The call of the first message of a queue begins.
LEMMA LineMoves ==
  ASSUME NEW k, NEW L, NEW M, Moved(L, M, k)
  PROVE  Items(M) = Items(L) /\ \A w : Order(L, w) => Order(M, w)
<1>1. /\ DOMAIN L = 0 .. k + 1 /\ k \in Nat /\ DOMAIN M = 0 .. k
      /\ \A y : y \in Items(L) <=> y # Nil /\ \E i \in 0 .. k + 1 : L[i] = y
      /\ \A y : y \in Items(M) <=> y # Nil /\ \E i \in 0 .. k : M[i] = y
      /\ L[0] = Nil /\ \A i \in 0 .. k : M[i] = L[i + 1] /\ i + 1 \in 0 .. k + 1
  BY ItemsOf DEF Moved
<1>2. \A i \in 0 .. k + 1 : i = 0 \/ (i - 1 \in 0 .. k /\ (i - 1) + 1 = i)
  BY <1>1
<1>3. Items(M) = Items(L)
  <2>1. ASSUME NEW y \in Items(M) PROVE y \in Items(L)
    BY <1>1, <2>1
  <2>2. ASSUME NEW y \in Items(L) PROVE y \in Items(M)
    <3>1. PICK i \in 0 .. k + 1 : L[i] = y /\ y # Nil
      BY <1>1, <2>2
    <3>2. i - 1 \in 0 .. k /\ M[i - 1] = y
      BY <1>1, <1>2, <3>1
    <3> QED BY <1>1, <3>1, <3>2
  <2> QED BY <2>1, <2>2
<1>4. ASSUME NEW w, Order(L, w) PROVE Order(M, w)
  <2> SUFFICES ASSUME NEW i \in 0 .. k, NEW j \in 0 .. k
               PROVE  /\ M[i] = M[j] /\ M[i] # Nil => i = j
                      /\ M[i] \in Audio /\ M[j] = Mark => (i < j <=> M[i].id = w)
    BY <1>1 DEF Order
  <2>1. /\ i + 1 \in DOMAIN L /\ j + 1 \in DOMAIN L /\ M[i] = L[i + 1] /\ M[j] = L[j + 1]
        /\ i + 1 = j + 1 <=> i = j
        /\ i + 1 < j + 1 <=> i < j
    BY <1>1
  <2>2. /\ L[i + 1] = L[j + 1] /\ L[i + 1] # Nil => i + 1 = j + 1
        /\ L[i + 1] \in Audio /\ L[j + 1] = Mark => (i + 1 < j + 1 <=> L[i + 1].id = w)
    BY <1>4, <2>1 DEF Order
  <2> QED BY <2>1, <2>2
<1> QED BY <1>3, <1>4

\* The call under way is done.
Done(L, M, k) == IsLine(L, k) /\ IsLine(M, k) /\ M[0] = Nil /\ \A i \in 1 .. k : M[i] = L[i]

\* The call under way is done: it was the turn of what it was about.
LEMMA LineDone ==
  ASSUME NEW k, NEW L, NEW M, NEW w, Done(L, M, k), Order(L, w)
  PROVE  /\ Items(M) = Items(L) \ {L[0]} /\ Order(M, w)
         /\ L[0] # Nil => L[0] \in Items(L)
         /\ L[0] \in Audio /\ Mark \in Items(L) => L[0].id = w
         /\ L[0] = Mark => \A x \in Items(L) \cap Audio : x.id # w
<1>1. /\ DOMAIN L = 0 .. k /\ k \in Nat /\ DOMAIN M = 0 .. k
      /\ \A y : y \in Items(L) <=> y # Nil /\ \E i \in 0 .. k : L[i] = y
      /\ \A y : y \in Items(M) <=> y # Nil /\ \E i \in 0 .. k : M[i] = y
      /\ M[0] = Nil /\ \A i \in 1 .. k : M[i] = L[i]
  BY ItemsOf DEF Done
<1>2. 0 \in 0 .. k /\ \A i \in 0 .. k : i = 0 \/ (i \in 1 .. k /\ 0 < i /\ ~(i < 0))
  BY <1>1
<1>3. Mark \notin Audio /\ Nil \notin Audio /\ Mark # Nil
  BY BufferParts
<1>4. Items(M) = Items(L) \ {L[0]}
  <2>1. \A y : y \in Items(M) <=> y \in Items(L) /\ y # L[0]
    <3> SUFFICES ASSUME NEW y, y # Nil PROVE y \in Items(M) <=> y \in Items(L) /\ y # L[0]
      BY <1>1
    <3>1. ASSUME y \in Items(M) PROVE y \in Items(L) /\ y # L[0]
      <4>1. PICK i \in 1 .. k : L[i] = y
        BY <1>1, <1>2, <3>1
      <4>2. i \in 0 .. k /\ i # 0
        BY <4>1
      <4> QED BY <1>1, <1>2, <4>1, <4>2 DEF Order
    <3>2. ASSUME y \in Items(L), y # L[0] PROVE y \in Items(M)
      <4>1. PICK i \in 0 .. k : L[i] = y
        BY <1>1, <3>2
      <4> QED BY <1>1, <1>2, <3>2, <4>1
    <3> QED BY <3>1, <3>2
  <2> QED BY <2>1
<1>5. Order(M, w)
  <2>1. \A i \in 0 .. k : M[i] = Nil \/ M[i] = L[i]
    BY <1>1, <1>2
  <2> QED BY <1>1, <1>3, <2>1 DEF Order
<1>6. L[0] # Nil => L[0] \in Items(L)
  BY <1>1, <1>2
<1>7. L[0] \in Audio /\ Mark \in Items(L) => L[0].id = w
  BY <1>1, <1>2, <1>3 DEF Order
<1>8. L[0] = Mark => \A x \in Items(L) \cap Audio : x.id # w
  BY <1>1, <1>2, <1>3 DEF Order
<1> QED BY <1>4, <1>5, <1>6, <1>7, <1>8

-----------------------------------------------------------------------------
(* The line of a SHARC with its buffers *)

\* A message that has nothing to do with the audio joins or leaves the queue.
LEMMA PipePings ==
  ASSUME NEW s, NEW n, NEW S, NEW ps, NEW inf, NEW dat, NEW k, NEW L, NEW M,
         Pipe(s, L, n, S, ps, inf, dat), Grown(L, M, k, Nil) \/ Moved(L, M, k)
  PROVE  Pipe(s, M, n, S, ps, inf, dat) /\ Items(M) = Items(L)
<1>1. Nil \notin Audio /\ Mark # Nil
  BY BufferParts
<1>2. Items(M) = Items(L) /\ \A w : Order(L, w) => Order(M, w)
  BY <1>1, LineGrows, LineMoves
<1> QED BY <1>2 DEF Pipe

\* The buffer of the direction d is sent.
Sends(s, n, d, S, T, x, inf, dat, k, L, M) ==
  /\ s \in Sharcs /\ n \in Nat /\ d \in Dirs /\ S \in SUBSET Dirs /\ d \notin S /\ T = S \cup {d}
  /\ x = Buffer(d, s, Sent(n)) /\ Pipe(s, L, n, S, FALSE, inf, dat) /\ Grown(L, M, k, x)

\* The buffer of the direction d is sent.
LEMMA PipeSendsBuffer ==
  ASSUME NEW s, NEW n, NEW d, NEW S, NEW T, NEW x, NEW inf, NEW dat, NEW k, NEW L, NEW M,
         Sends(s, n, d, S, T, x, inf, dat, k, L, M)
  PROVE  Pipe(s, M, n, T, FALSE, inf, dat)
<1> DEFINE H == Items(L)
           w == Now(H, n, FALSE)
<1> /\ s \in Sharcs /\ n \in Nat /\ d \in Dirs /\ S \in SUBSET Dirs /\ d \notin S /\ T = S \cup {d}
    /\ x = Buffer(d, s, Sent(n)) /\ Pipe(s, L, n, S, FALSE, inf, dat) /\ Grown(L, M, k, x)
  BY DEF Sends
<1>1. x \in Audio /\ x.type = d /\ x.id = Sent(n) /\ x # Mark /\ x # Nil /\ Kept(n) # Sent(n)
  BY Parity, BufferParts
<1>2. x \notin H
  BY <1>1 DEF Pipe, Content, LineOK
<1>3. Mark \in H => x.id # w
  BY <1>1 DEF Now
<1>4. Items(M) = H \cup {x} /\ (Order(L, w) => Order(M, w))
  <2> HIDE DEF w
  <2> QED BY <1>1, <1>2, <1>3, LineGrows
<1>5. Now(H \cup {x}, n, FALSE) = w
  BY <1>1 DEF Now
<1>6. Content(s, H \cup {x}, n, S \cup {d}, FALSE, inf, dat)
  BY SendBuffer DEF Pipe
<1> QED BY <1>4, <1>5, <1>6 DEF Pipe

\* The process message of this block is sent.
LEMMA PipeSendsProcess ==
  ASSUME NEW s \in Sharcs, NEW n \in Nat, NEW inf, NEW dat, NEW k, NEW L, NEW M,
         Pipe(s, L, n, Dirs, FALSE, inf, dat), Grown(L, M, k, Mark), Mark \notin Items(L)
  PROVE  Pipe(s, M, n, Dirs, TRUE, inf, dat)
<1> DEFINE H == Items(L)
           w == Now(H, n, FALSE)
<1>1. Mark \notin Audio /\ Mark # Nil /\ Kept(n) # Sent(n) /\ Kept(n) \in 0 .. 1 /\ Sent(n) \in 0 .. 1
  BY Parity, BufferParts
<1>2. w = Sent(n) /\ Now(H \cup {Mark}, n, TRUE) = w
  BY DEF Now
<1>3. \A y \in H \cap Audio : y.id = w
  <2>1. \A i \in 0 .. 1 : i \in {Kept(n), Sent(n)}
    BY Parity
  <2> QED BY <1>1, <1>2, <2>1, BufferParts DEF Pipe, Content, LineOK
<1>4. Items(M) = H \cup {Mark} /\ (Order(L, w) => Order(M, w))
  BY <1>1, <1>3, LineGrows
<1>5. Content(s, H \cup {Mark}, n, Dirs, TRUE, inf, dat)
  BY SendProcess DEF Pipe
<1> QED BY <1>2, <1>4, <1>5 DEF Pipe

\* A buffer is taken over.
LEMMA PipeTakes ==
  ASSUME NEW s \in Sharcs, NEW n \in Nat, NEW S \in SUBSET Dirs, NEW ps \in BOOLEAN,
         NEW inf \in [Dirs -> {None, 0, 1}], NEW dat \in [Audio -> Nat], NEW k, NEW L, NEW M,
         Pipe(s, L, n, S, ps, inf, dat), Done(L, M, k), L[0] \in Audio,
         NEW new \in [Dirs -> {None, 0, 1}], NEW put \in [Audio -> Nat], TakenOver(L[0], inf, new, dat, put)
  PROVE  Pipe(s, M, n, S, ps, new, put) /\ Items(M) \subseteq Items(L)
<1> DEFINE H == Items(L)
           w == Now(H, n, ps)
           x == L[0]
<1>1. Nil \notin Audio /\ Mark \notin Audio
  BY BufferParts
<1>2. Order(L, w)
  BY DEF Pipe
<1>3. /\ Items(M) = H \ {x} /\ Order(M, w) /\ x \in H
      /\ Mark \in H => x.id = w
  BY <1>1, <1>2, LineDone
<1>4. Now(H \ {x}, n, ps) = w
  BY <1>1 DEF Now
<1>5. Content(s, H, n, S, ps, inf, dat)
  BY DEF Pipe
<1> HIDE DEF H, x
<1>6. TakenOver(x, inf, new, dat, put)
  BY DEF x
<1>7. x \in H \cap Audio
  BY <1>3 DEF x
<1>8. Content(s, H \ {x}, n, S, ps, new, put)
  BY <1>3, <1>5, <1>6, <1>7, TakeBuffer
<1> QED BY <1>3, <1>4, <1>8 DEF Pipe, H

\* The block is processed: both buffers are those of one block.
LEMMA PipeProcesses ==
  ASSUME NEW s \in Sharcs, NEW n \in Nat, NEW S \in SUBSET Dirs, NEW ps \in BOOLEAN, ps => S = Dirs,
         NEW inf, NEW dat \in [Audio -> Nat], NEW k, NEW L, NEW M,
         Pipe(s, L, n, S, ps, inf, dat), Done(L, M, k), L[0] = Mark
  PROVE  /\ \A d \in Dirs : inf[d] = Now(Items(L), n, ps)
         /\ \A new, put : Worked(s, Now(Items(L), n, ps), new, dat, put) => Pipe(s, M, n, S, ps, new, put)
         /\ Items(M) \subseteq Items(L)
<1> DEFINE H == Items(L)
           w == Now(H, n, ps)
<1>1. Mark \notin Audio /\ Mark # Nil
  BY BufferParts
<1>2. Order(L, w)
  BY DEF Pipe
<1>3. /\ Items(M) = H \ {Mark} /\ Order(M, w) /\ Mark \in H
      /\ \A x \in H \cap Audio : x.id # w
  BY <1>1, <1>2, LineDone
<1>4. \A v : Order(M, v)
  <2>1. \A i \in DOMAIN M : M[i] # Mark
    <3>1. \A i \in DOMAIN M : M[i] # Nil => M[i] \in Items(M)
      BY DEF Items
    <3> QED BY <1>1, <1>3, <3>1
  <2> QED BY <1>3, <2>1 DEF Order
<1>5. Content(s, H, n, S, ps, inf, dat)
  BY DEF Pipe
<1> HIDE DEF H
<1>6. /\ \A d \in Dirs : inf[d] = w
      /\ \A new, put : Worked(s, w, new, dat, put) => Content(s, H \ {Mark}, n, S, ps, new, put)
  <2>1. Cleared(H, Now(H, n, ps))
    BY <1>3 DEF Cleared
  <2>2. Mark \in H /\ Content(s, H, n, S, ps, inf, dat)
    BY <1>3, <1>5
  <2> QED BY <2>1, <2>2, Processes
<1>7. ASSUME NEW new, NEW put, Worked(s, w, new, dat, put) PROVE Pipe(s, M, n, S, ps, new, put)
  <2>1. Content(s, H \ {Mark}, n, S, ps, new, put)
    BY <1>6, <1>7
  <2> QED BY <1>3, <1>4, <2>1 DEF Pipe
<1> QED BY <1>3, <1>6, <1>7 DEF H

\* The block is routed.
LEMMA PipeRoutes ==
  ASSUME NEW s \in Sharcs, NEW n \in Nat, NEW inf, NEW dat, NEW put, NEW L,
         Pipe(s, L, n, Dirs, TRUE, inf, dat),
         Routed(n, dat, put)
  PROVE  /\ Pipe(s, L, n + 1, {}, FALSE, inf, put)
         /\ dat[Buffer("OUT", s, Kept(n))] = Prev(n)
<1> DEFINE H == Items(L)
<1>1. /\ Content(s, H, n + 1, {}, FALSE, inf, put)
      /\ dat[Buffer("OUT", s, Kept(n))] = Prev(n)
      /\ Mark \in H => Now(H, n + 1, FALSE) = Now(H, n, TRUE)
  BY Routes DEF Pipe
<1>2. Order(L, Now(H, n + 1, FALSE))
  <2>1. CASE Mark \in H
    BY <1>1, <2>1 DEF Pipe
  <2>2. CASE Mark \notin H
    <3>1. \A i \in DOMAIN L : L[i] # Mark
      BY <2>2, BufferParts DEF Items
    <3> QED BY <3>1 DEF Pipe, Order
  <2> QED BY <2>1, <2>2
<1> QED BY <1>1, <1>2 DEF Pipe

\* How a line follows its queue and the call under way.
LEMMA LinesOf ==
  ASSUME NEW q \in Seq(Msg), NEW f \in Audio \cup {Mark, Nil}
  PROVE  /\ IsLine(LineOf(f, q), Len(q)) /\ LineOf(f, q)[0] = f
         /\ \A x \in Msg : Grown(LineOf(f, q), LineOf(f, Append(q, x)), Len(q), ItemOf(x))
         /\ q # <<>> => Moved(LineOf(Nil, q), LineOf(ItemOf(Head(q)), Tail(q)), Len(q) - 1)
         /\ Done(LineOf(f, q), LineOf(Nil, q), Len(q))
<1>1. \A m : ItemOf(m) \in Audio \cup {Mark, Nil}
  BY DEF ItemOf
<1>2. ASSUME NEW p \in Seq(Msg), NEW g \in Audio \cup {Mark, Nil}
      PROVE  /\ IsLine(LineOf(g, p), Len(p)) /\ LineOf(g, p)[0] = g
             /\ \A i \in 1 .. Len(p) : LineOf(g, p)[i] = ItemOf(p[i])
  BY <1>1 DEF LineOf, IsLine
<1>3. ASSUME NEW x \in Msg PROVE Grown(LineOf(f, q), LineOf(f, Append(q, x)), Len(q), ItemOf(x))
  <2> DEFINE p == Append(q, x)
  <2>1. p \in Seq(Msg) /\ Len(p) = Len(q) + 1 /\ p[Len(q) + 1] = x /\ \A i \in 1 .. Len(q) : p[i] = q[i]
    OBVIOUS
  <2> HIDE DEF p
  <2>2. \A i \in 0 .. Len(q) : i = 0 \/ i \in 1 .. Len(q)
    OBVIOUS
  <2>3. Len(q) + 1 \in 1 .. Len(p) /\ \A i \in 1 .. Len(q) : i \in 1 .. Len(p)
    BY <2>1
  <2>4. IsLine(LineOf(f, q), Len(q)) /\ IsLine(LineOf(f, p), Len(q) + 1)
    BY <1>2, <2>1
  <2>5. LineOf(f, p)[Len(q) + 1] = ItemOf(x)
    BY <1>2, <2>1, <2>3
  <2>6. \A i \in 0 .. Len(q) : LineOf(f, p)[i] = LineOf(f, q)[i]
    BY <1>2, <2>1, <2>2, <2>3
  <2>7. Grown(LineOf(f, q), LineOf(f, p), Len(q), ItemOf(x))
    BY <2>4, <2>5, <2>6 DEF Grown
  <2> QED BY <2>7 DEF p
<1>4. ASSUME q # <<>> PROVE Moved(LineOf(Nil, q), LineOf(ItemOf(Head(q)), Tail(q)), Len(q) - 1)
  <2> DEFINE p == Tail(q)
             g == ItemOf(Head(q))
  <2>1. /\ p \in Seq(Msg) /\ Len(p) = Len(q) - 1 /\ Head(q) = q[1] /\ 1 \in 1 .. Len(q)
        /\ \A i \in 1 .. Len(p) : p[i] = q[i + 1] /\ i + 1 \in 1 .. Len(q)
        /\ Len(q) - 1 \in Nat /\ (Len(q) - 1) + 1 = Len(q)
    BY <1>4
  <2>2. g \in Audio \cup {Mark, Nil} /\ g = ItemOf(q[1])
    BY <1>1, <2>1
  <2> HIDE DEF p, g
  <2>3. \A i \in 0 .. Len(p) : i = 0 \/ i \in 1 .. Len(p)
    BY <2>1
  <2>4. \A i \in 0 .. Len(p) : LineOf(g, p)[i] = LineOf(Nil, q)[i + 1]
    BY <1>2, <2>1, <2>2, <2>3
  <2> QED BY <1>2, <2>1, <2>2, <2>4 DEF Moved, p, g
<1>5. Done(LineOf(f, q), LineOf(Nil, q), Len(q))
  BY <1>2 DEF Done
<1> QED BY <1>2, <1>3, <1>4, <1>5

-----------------------------------------------------------------------------
(* What every list of calls keeps to *)

\* What stands first in a line.
LEMMA DoingIsItem ==
  ASSUME IndInv, Talk, NEW s \in Sharcs
  PROVE  /\ <<s, "irq">> \in Thread /\ s \in Core /\ todo[<<s, "irq">>] \in Seq(Call) /\ queue[s] \in Seq(Msg)
         /\ Doing(s) \in Audio \cup {Mark, Nil}
         /\ todo[<<s, "irq">>] = <<>> => Doing(s) = Nil
         /\ todo[<<s, "irq">>] # <<>> => Doing(s) = CallItem(Head(todo[<<s, "irq">>]))
         /\ IsLine(LineAt(s), Len(queue[s])) /\ LineAt(s)[0] = Doing(s)
<1> DEFINE t == <<s, "irq">>
<1>1. t \in Thread /\ s \in Core /\ todo[t] \in Seq(Call) /\ queue[s] \in Seq(Msg)
  BY Threads DEF IndInv, Types, Thread
<1>2. CASE todo[t] = <<>>
  <2>1. Doing(s) = Nil
    BY <1>2 DEF Doing, First
  <2> QED BY <1>1, <1>2, <2>1, LinesOf DEF LineAt
<1>3. CASE todo[t] # <<>>
  <2>1. Head(todo[t]) = todo[t][1] /\ Head(todo[t]) \in Elements(todo[t])
    BY <1>1, <1>3, HeadIsProper, TailOfCalls
  <2>2. Doing(s) = CallItem(Head(todo[t]))
    BY <1>3, <2>1 DEF Doing, First
  <2>3. Doing(s) \in Audio \cup {Mark, Nil}
    BY <1>1, <2>1, <2>2 DEF CallItem, Talk, Quiet
  <2> QED BY <1>1, <1>3, <2>2, <2>3, LinesOf DEF LineAt
<1> QED BY <1>2, <1>3

\* A thread goes on with calls that have nothing to do with the audio.
LEMMA MeekList ==
  ASSUME IndInv, Talk, NEW t \in Thread \ {ArmIrq}, todo[t] # <<>>,
         NEW then \in Seq(Call), Continue(t, then), \A x \in Elements(then) : Meek(x)
  PROVE  /\ Talk' /\ \A u \in Thread \ {t} : todo'[u] = todo[u]
         /\ \A s \in Sharcs : Doing(s)' = IF t = <<s, "irq">> THEN Nil ELSE Doing(s)
<1> DEFINE l == then \o Tail(todo[t])
<1>1. /\ todo \in [Thread -> Seq(Call)] /\ todo[t] \in Seq(Call) /\ Tail(todo[t]) \in Seq(Call)
      /\ \A i \in 1 .. Len(Tail(todo[t])) : Tail(todo[t])[i] = todo[t][i + 1] /\ i + 1 \in 2 .. Len(todo[t])
  <2>1. todo \in [Thread -> Seq(Call)] /\ todo[t] \in Seq(Call)
    BY DEF IndInv, Types
  <2> QED BY <2>1, TailOfCalls
<1>2. /\ l \in Seq(Call) /\ Elements(l) \subseteq Elements(then) \cup Elements(todo[t])
      /\ Elements(l) \subseteq Elements(then) \cup Elements(Tail(todo[t]))
  BY <1>1, GoesOn, BothLists
<1>3. todo' = [todo EXCEPT ![t] = l]
  BY <1>1 DEF Continue
<1>4. todo' \in [Thread -> Seq(Call)] /\ todo'[t] = l /\ \A u \in Thread \ {t} : todo'[u] = todo[u]
  BY <1>1, <1>2, <1>3
<1> HIDE DEF l
<1>5. \A x : Meek(x) => Quiet(t, x)
  BY DEF Meek, Quiet, Audible
<1>6. \A u \in Thread : \A x \in Elements(todo'[u]) : Quiet(u, x)
  BY <1>2, <1>4, <1>5 DEF Talk
<1>7. \A s \in Sharcs : t = <<s, "irq">> => \A x \in Elements(l) : x.op \notin Audible
  <2> SUFFICES ASSUME NEW s \in Sharcs, t = <<s, "irq">>, NEW x \in Elements(l) PROVE x.op \notin Audible
    OBVIOUS
  <2>1. CASE x \in Elements(then)
    BY <2>1 DEF Meek
  <2>2. CASE x \in Elements(Tail(todo[t]))
    <3>1. todo[t] \in Seq(Call) /\ todo[t] # <<>>
      BY <1>1
    <3>2. PICK i \in 1 .. Len(Tail(todo[t])) : x = Tail(todo[t])[i]
      BY <2>2 DEF Elements
    <3>3. i + 1 \in 2 .. Len(todo[t]) /\ x = todo[t][i + 1]
      BY <3>1, <3>2
    <3> QED BY <3>3 DEF Talk
  <2> QED BY <1>2, <2>1, <2>2
<1>8. ASSUME NEW s \in Sharcs, NEW i \in 2 .. Len(todo'[<<s, "irq">>])
      PROVE  todo'[<<s, "irq">>][i].op \notin Audible
  <2>1. CASE t = <<s, "irq">>
    <3>1. i \in 1 .. Len(l)
      BY <1>2, <1>4, <1>8, <2>1
    <3> QED BY <1>4, <1>7, <2>1, <3>1 DEF Elements
  <2>2. CASE t # <<s, "irq">>
    <3>1. <<s, "irq">> \in Thread \ {t}
      BY <2>2, Threads DEF Thread
    <3> QED BY <1>4, <1>8, <3>1 DEF Talk
  <2> QED BY <2>1, <2>2
<1>9. Talk'
  <2>1. \A u \in Thread : \A x \in Elements(todo[u])' : Quiet(u, x)
    BY <1>6 DEF Elements
  <2> QED BY <1>8, <2>1 DEF Talk
<1>10. ASSUME NEW s \in Sharcs PROVE Doing(s)' = IF t = <<s, "irq">> THEN Nil ELSE Doing(s)
  <2>1. CASE t = <<s, "irq">>
    <3>1. CASE l = <<>>
      BY <1>4, <2>1, <3>1 DEF Doing, First
    <3>2. CASE l # <<>>
      <4>1. l[1] \in Elements(l)
        BY <1>2, <3>2 DEF Elements
      <4> QED BY <1>4, <1>7, <2>1, <3>2, <4>1 DEF Doing, First, CallItem, Audible
    <3> QED BY <3>1, <3>2
  <2>2. CASE t # <<s, "irq">>
    <3>1. <<s, "irq">> \in Thread \ {t}
      BY <2>2, Threads DEF Thread
    <3> QED BY <1>4, <2>2, <3>1 DEF Doing
  <2> QED BY <2>1, <2>2
<1> QED BY <1>4, <1>9, <1>10

-----------------------------------------------------------------------------
(* What leaves the stage as it is *)

\* A line stays in order, and no process message is added.
Stays(s, S, ps, L, n, inf, dat, M, new, put) ==
  Pipe(s, L, n, S, ps, inf, dat) => Pipe(s, M, n, S, ps, new, put)
LineKept(s) ==
  /\ \A S \in SUBSET Dirs : \A ps \in BOOLEAN : (ps => S = Dirs) =>
       Stays(s, S, ps, LineAt(s), block, info[s], data, LineAt(s)', info'[s], data')
  /\ Mark \in Items(LineAt(s))' => Mark \in Items(LineAt(s))

\* What a stage says is of the right kind.
LEMMA StageSets ==
  ASSUME NEW k, NEW d, NEW s, active \subseteq {"CODEC_IN", "CODEC_OUT"}
  PROVE  /\ Arrived \subseteq Dirs /\ Swapped(k, d, s) \in SUBSET Dirs
         /\ SentDirs(k, d, s) \in SUBSET Dirs /\ Told(k, s) \in BOOLEAN
         /\ Told(k, s) => SentDirs(k, d, s) = Dirs
<1>1. Arrived \subseteq Dirs
  BY DEF Arrived, DirOf, Dirs
<1> QED BY <1>1 DEF Swapped, SentDirs, Told

\* Lines that stay in order leave the stage as it is.
LEMMA LinesKeepPhase ==
  ASSUME NEW k, NEW d, NEW m, Phase(k, d, m), active \subseteq {"CODEC_IN", "CODEC_OUT"},
         UNCHANGED <<active, pp, stream, block>>,
         Listed(k, d, m)', \A s \in Sharcs : LineKept(s)
  PROVE  Phase(k, d, m)'
<1>1. /\ Arrived' = Arrived
      /\ \A s : Swapped(k, d, s)' = Swapped(k, d, s) /\ SentDirs(k, d, s)' = SentDirs(k, d, s)
  BY DEF Arrived, Swapped, SentDirs
<1>2. ASSUME NEW s \in Sharcs PROVE Pair(k, d, s)'
  BY <1>1, <1>2 DEF Phase, Pair
<1>3. ASSUME NEW s \in Sharcs PROVE LineIs(k, d, s)'
  <2>1. LineIs(k, d, s) /\ LineKept(s)
    BY DEF Phase
  <2> DEFINE S == SentDirs(k, d, s)
             ps == Told(k, s)
  <2>2. S \in SUBSET Dirs /\ ps \in BOOLEAN /\ (ps => S = Dirs)
    BY StageSets
  <2> HIDE DEF S, ps
  <2>3. Stays(s, S, ps, LineAt(s), block, info[s], data, LineAt(s)', info'[s], data')
    BY <2>1, <2>2 DEF LineKept
  <2>4. Pipe(s, LineAt(s)', block, S, ps, info'[s], data')
    BY <2>1, <2>3 DEF Stays, LineIs, S, ps
  <2> QED BY <1>1, <2>4 DEF LineIs, S, ps
<1>4. ASSUME NEW s \in Sharcs PROVE InTime(k, s)'
  <2>1. Mark \in Items(LineAt(s))' => Mark \in Items(LineAt(s))
    BY DEF LineKept
  <2>2. InTime(k, s)
    BY DEF Phase
  <2> QED BY <1>1, <2>1, <2>2 DEF InTime
<1> QED BY <1>2, <1>3, <1>4 DEF Phase

\* So does a step that leaves the list and the pairs of the ARM alone.
LEMMA OthersKeepPhase ==
  ASSUME NEW k, NEW d, NEW m, Phase(k, d, m), active \subseteq {"CODEC_IN", "CODEC_OUT"},
         UNCHANGED <<active, pp, stream, block>>,
         todo'[ArmIrq] = todo[ArmIrq], \A s \in Sharcs : LineKept(s)
  PROVE  Phase(k, d, m)'
<1>1. Listed(k, d, m)'
  <2>1. Arrived' = Arrived
    BY DEF Arrived
  <2> QED BY <2>1 DEF Phase, Listed, Elements
<1> QED BY <1>1, LinesKeepPhase

\* What happens to the buffers of the other SHARC does not show.
LEMMA PipeElsewhere ==
  ASSUME NEW s \in Sharcs, NEW L, NEW n \in Nat, NEW S, NEW ps, NEW inf, NEW dat, NEW put,
         \A x \in Audio : x.core = s => put[x] = dat[x]
  PROVE  Pipe(s, L, n, S, ps, inf, dat) => Pipe(s, L, n, S, ps, inf, put)
<1>1. \A d \in Dirs : put[Buffer(d, s, Kept(n))] = dat[Buffer(d, s, Kept(n))] /\ put[Buffer(d, s, Sent(n))] = dat[Buffer(d, s, Sent(n))]
  BY Parity, BufferParts
<1>2. "IN" \in Dirs /\ "OUT" \in Dirs
  BY DEF Dirs
<1> QED BY <1>1, <1>2 DEF Pipe, Content, DataOK

\* A line that does not change stays in order.
LEMMA LineSame ==
  ASSUME NEW s \in Sharcs, block \in Nat, LineAt(s)' = LineAt(s), info'[s] = info[s],
         \A x \in Audio : x.core = s => data'[x] = data[x]
  PROVE  LineKept(s)
<1>1. ASSUME NEW S \in SUBSET Dirs, NEW ps \in BOOLEAN
      PROVE  Stays(s, S, ps, LineAt(s), block, info[s], data, LineAt(s)', info'[s], data')
  BY PipeElsewhere DEF Stays
<1> QED BY <1>1 DEF LineKept

\* s is not told to process: the queue grows by, or gives up, its first.
LEMMA LinePinged ==
  ASSUME NEW s \in Sharcs, block \in Nat, NEW k, info'[s] = info[s], data' = data,
         Grown(LineAt(s), LineAt(s)', k, Nil) \/ Moved(LineAt(s), LineAt(s)', k)
  PROVE  LineKept(s)
<1> DEFINE L == LineAt(s)
           M == LineAt(s)'
<1>1. Grown(L, M, k, Nil) \/ Moved(L, M, k)
  OBVIOUS
<1>e. info'[s] = info[s] /\ data' = data
  OBVIOUS
<1> HIDE DEF L, M
<1>2. ASSUME NEW S \in SUBSET Dirs, NEW ps \in BOOLEAN
      PROVE  Stays(s, S, ps, L, block, info[s], data, M, info'[s], data')
  <2>1. Pipe(s, L, block, S, ps, info[s], data) => Pipe(s, M, block, S, ps, info[s], data)
    BY <1>1, PipePings
  <2> QED BY <1>e, <2>1 DEF Stays
<1>3. Items(M) = Items(L)
  <2>1. Nil \notin Audio /\ Mark # Nil
    BY BufferParts
  <2> QED BY <1>1, <2>1, LineGrows, LineMoves
<1> QED BY <1>2, <1>3 DEF LineKept, L, M

-----------------------------------------------------------------------------
(* The inductive invariant of the audio, and the steps of the other threads *)

\* A core that is set up stays so.
LEMMA PreparedStays ==
  ASSUME IndInv, Prepared, NEW t \in Thread, todo[t] # <<>>, NEW then, Continue(t, then),
         ready \subseteq ready', Head(todo[t]).op = "initialize" => t[1] \in ready'
  PROVE  Prepared'
<1>1. \A u \in Thread \ {t} : todo'[u] = todo[u]
  BY DEF Continue, IndInv, Types
<1>2. ASSUME NEW c \in Core PROVE c \in ready' \/ todo'[<<c, "task">>] \in {ArmStartup, SharcStartup}
  <2>1. <<c, "task">> \in Thread /\ <<c, "task">>[1] = c
    BY DEF Thread
  <2>2. CASE t = <<c, "task">>
    BY <2>1, <2>2, StartupOpsOf DEF Prepared
  <2>3. CASE t # <<c, "task">>
    BY <1>1, <2>1, <2>3 DEF Prepared
  <2> QED BY <2>2, <2>3
<1> QED BY <1>2 DEF Prepared

\* The core that is sent to has been set up.
LEMMA CallbackIsReady ==
  ASSUME IndInv, Prepared, NEW c \in callback
  PROVE  c \in ready
<1>1. c \in Core /\ <<c, "task">> \in Thread
  BY DEF IndInv, Types, Thread
<1> SUFFICES ASSUME c \notin ready PROVE FALSE
  OBVIOUS
<1> DEFINE t == <<c, "task">>
<1>2. todo[t] \in {ArmStartup, SharcStartup}
  BY <1>1 DEF Prepared
<1>3. todo[t] # <<>> /\ Head(todo[t]).op = "initialize" /\ "initialize" \in StartupOps
  BY <1>2, StartupOpsOf, StartupLists DEF StartupOps
<1>4. \/ t = <<"ARM", "task">> /\ ArmAt(todo[t], "initialize")
      \/ \E s \in Sharcs : t = <<s, "task">> /\ SharcAt(s, todo[t], "initialize")
  BY <1>1, <1>3, StageByHead
<1> QED BY <1>4 DEF ArmAt, SharcAt

\* Another thread than the ARM's interrupt goes on.
OtherStep(t, then) ==
  /\ t \in Thread \ {ArmIrq} /\ todo[t] # <<>> /\ then \in Seq(Call) /\ Continue(t, then)
  /\ \A x \in Elements(then) : Meek(x)
  /\ UNCHANGED <<active, pp, stream, got, block>>
  /\ ready \subseteq ready' /\ (Head(todo[t]).op = "initialize" => t[1] \in ready')
  /\ running => running'

\* A step of another thread that keeps the lines keeps the invariant.
LEMMA OthersKeep ==
  ASSUME AudioInv, IndInv', NEW t, NEW then, OtherStep(t, then),
         info' \in [Sharcs -> [Dirs -> {None, 0, 1}]], data' \in [Audio -> Nat],
         block = 0 => \A m \in Audio : data'[m] = 0,
         \A s \in Sharcs : LineKept(s)
  PROVE  AudioInv'
<1>1. /\ Talk' /\ todo'[ArmIrq] = todo[ArmIrq]
  <2>1. ArmIrq \in Thread /\ ArmIrq # t /\ IndInv /\ Talk
    BY Threads DEF ArmIrq, OtherStep, AudioInv, Basics
  <2> QED BY <2>1, MeekList DEF OtherStep
<1>2. Prepared'
  BY PreparedStays DEF OtherStep, AudioInv, Basics
<1>3. AudioTypes' /\ Silence'
  BY DEF OtherStep, AudioInv, Basics, AudioTypes, Silence
<1>4. BlocksReturn'
  BY DEF OtherStep, AudioInv, BlocksReturn
<1>5. Staged'
  <2>1. PICK k \in 0 .. 13, d \in Dirs, m \in Msg : Phase(k, d, m)
    BY DEF AudioInv, Staged
  <2>2. active \subseteq {"CODEC_IN", "CODEC_OUT"} /\ UNCHANGED <<active, pp, stream, block>>
    BY DEF AudioInv, Basics, AudioTypes, OtherStep
  <2>3. Phase(k, d, m)'
    BY <1>1, <2>1, <2>2, OthersKeepPhase
  <2> QED BY <2>3 DEF Staged
<1> QED BY <1>1, <1>2, <1>3, <1>4, <1>5 DEF AudioInv, Basics

\* The lines stay when neither a queue nor the call of a SHARC changes.
LEMMA LinesStay ==
  ASSUME AudioInv, NEW t, NEW then, OtherStep(t, then), Head(todo[t]).op \notin Audible
  PROVE  \A s \in Sharcs : Doing(s)' = Doing(s)
<1> SUFFICES ASSUME NEW s \in Sharcs PROVE Doing(s)' = Doing(s)
  OBVIOUS
<1>1. IndInv /\ Talk
  BY DEF AudioInv, Basics
<1>2. Doing(s)' = IF t = <<s, "irq">> THEN Nil ELSE Doing(s)
  BY <1>1, MeekList DEF OtherStep
<1>3. t = <<s, "irq">> => Doing(s) = Nil
  BY <1>1, DoingIsItem DEF OtherStep, CallItem, Audible
<1> QED BY <1>2, <1>3

\* Neither a queue nor a buffer changes.
LEMMA QuietStep ==
  ASSUME AudioInv, IndInv', NEW t, NEW then, OtherStep(t, then), Head(todo[t]).op \notin Audible,
         UNCHANGED <<queue, info>>, data' \in [Audio -> Nat], \A x \in Audio : data'[x] = data[x]
  PROVE  AudioInv'
<1>1. AudioTypes /\ Silence
  BY DEF AudioInv, Basics
<1>2. ASSUME NEW s \in Sharcs PROVE LineKept(s)
  <2>1. Doing(s)' = Doing(s)
    BY LinesStay
  <2>2. LineAt(s)' = LineAt(s)
    BY <2>1 DEF LineAt
  <2> QED BY <1>1, <2>2, LineSame DEF AudioTypes
<1> QED BY <1>1, <1>2, OthersKeep DEF AudioTypes, Silence

\* ipcToCore, called by another thread than the ARM's interrupt.
LEMMA SendStep ==
  ASSUME AudioInv, IndInv', NEW t \in Thread \ {ArmIrq}, todo[t] # <<>>, ipcToCore(t, Head(todo[t]))
  PROVE  AudioInv'
<1> DEFINE op == Head(todo[t])
           c == op.core
           m == op.msg
<1>1. IndInv /\ Talk /\ AudioTypes /\ Silence
  BY DEF AudioInv, Basics
<1>2. op \in Call /\ op \in Elements(todo[t]) /\ m \in Msg /\ c \in Core /\ op.op = "send" /\ ItemOf(m) = Nil
  BY <1>1, HeadIsProper DEF Proper, ipcToCore, Talk, Quiet, Call
<1>3. UNCHANGED <<active, pp, stream, got, block, ready, running, info, data>>
  BY DEF ipcToCore, bootVars, appVars, armVars
<1>4. op.op \notin Audible /\ op.op # "initialize"
  BY <1>2 DEF Audible
<1>5. CASE Continue(t, <<Unref(m)>>) /\ queue' = queue
  <2>1. <<Unref(m)>> \in Seq(Call) /\ Elements(<<Unref(m)>>) = {Unref(m)} /\ Meek(Unref(m))
    <3>1. Unref(m) \in Call /\ Unref(m).op = "unref"
      BY <1>2, CallsAreCalls DEF Unref, Op
    <3> QED BY <3>1, ListOfOne DEF Meek, Audible, Routing
  <2>2. OtherStep(t, <<Unref(m)>>)
    BY <1>3, <1>4, <1>5, <2>1 DEF OtherStep
  <2> QED BY <1>1, <1>3, <1>4, <1>5, <2>2, QuietStep DEF AudioTypes
<1>6. CASE Continue(t, <<>>) /\ queue' = [queue EXCEPT ![c] = Append(@, m)]
  <2>1. OtherStep(t, <<>>)
    BY <1>3, <1>4, <1>6, EmptyList DEF OtherStep
  <2>2. ASSUME NEW s \in Sharcs PROVE LineKept(s)
    <3>1. Doing(s)' = Doing(s)
      BY <1>4, <2>1, LinesStay
    <3>2. Doing(s) \in Audio \cup {Mark, Nil} /\ queue[s] \in Seq(Msg) /\ s \in Core
      BY <1>1, DoingIsItem
    <3>3. queue \in [Core -> Seq(Msg)]
      BY <1>1 DEF IndInv, Types
    <3>4. CASE s = c
      <4>1. queue'[s] = Append(queue[s], m)
        BY <1>6, <3>2, <3>3, <3>4
      <4>2. LineAt(s)' = LineOf(Doing(s), Append(queue[s], m))
        BY <3>1, <4>1 DEF LineAt
      <4>3. Grown(LineAt(s), LineAt(s)', Len(queue[s]), Nil)
        BY <1>2, <3>2, <4>2, LinesOf DEF LineAt
      <4> QED BY <1>1, <1>3, <4>3, LinePinged DEF AudioTypes
    <3>5. CASE s # c
      <4>1. LineAt(s)' = LineAt(s)
        BY <1>6, <3>1, <3>3, <3>5 DEF LineAt
      <4> QED BY <1>1, <1>3, <4>1, LineSame DEF AudioTypes
    <3> QED BY <3>4, <3>5
  <2> QED BY <1>1, <1>3, <2>1, <2>2, OthersKeep DEF AudioTypes, Silence
<1> QED BY <1>5, <1>6 DEF ipcToCore

\* The call under way at a SHARC's interrupt is over.
LEMMA CallDone ==
  ASSUME AudioInv, NEW s \in Sharcs, OtherStep(<<s, "irq">>, <<>>), UNCHANGED queue
  PROVE  /\ Done(LineAt(s), LineAt(s)', Len(queue[s])) /\ LineAt(s)[0] = CallItem(Head(todo[<<s, "irq">>]))
         /\ \A r \in Sharcs \ {s} : LineAt(r)' = LineAt(r)
<1>1. IndInv /\ Talk
  BY DEF AudioInv, Basics
<1>2. \A r \in Sharcs : Doing(r)' = IF r = s THEN Nil ELSE Doing(r)
  <2>1. \A r \in Sharcs : <<s, "irq">> = <<r, "irq">> <=> r = s
    OBVIOUS
  <2> QED BY <1>1, <2>1, MeekList DEF OtherStep
<1>3. /\ Doing(s) \in Audio \cup {Mark, Nil} /\ queue[s] \in Seq(Msg)
      /\ Doing(s) = CallItem(Head(todo[<<s, "irq">>])) /\ LineAt(s)[0] = Doing(s)
  BY <1>1, DoingIsItem DEF OtherStep
<1>4. LineAt(s)' = LineOf(Nil, queue[s])
  BY <1>2 DEF LineAt
<1>5. Done(LineAt(s), LineAt(s)', Len(queue[s]))
  BY <1>3, <1>4, LinesOf DEF LineAt
<1>6. \A r \in Sharcs \ {s} : LineAt(r)' = LineAt(r)
  BY <1>2 DEF LineAt
<1> QED BY <1>3, <1>5, <1>6

\* Whatever stands in a SHARC's line is its own.
LEMMA OwnLine ==
  ASSUME AudioInv, NEW s \in Sharcs, NEW x \in Items(LineAt(s)), x \in Audio
  PROVE  x.core = s
<1>1. PICK k \in 0 .. 13, d \in Dirs, m \in Msg : LineIs(k, d, s)
  BY DEF AudioInv, Staged, Phase
<1> QED BY <1>1 DEF LineIs, Pipe, Content, LineOK

TakesFirst(s, n, S, ps, inf, dat, k, L, M, new, put) ==
  /\ s \in Sharcs /\ n \in Nat /\ S \in SUBSET Dirs /\ ps \in BOOLEAN
  /\ inf \in [Dirs -> {None, 0, 1}] /\ dat \in [Audio -> Nat]
  /\ Pipe(s, L, n, S, ps, inf, dat) /\ Done(L, M, k) /\ L[0] \in Audio
  /\ new \in [Dirs -> {None, 0, 1}] /\ put \in [Audio -> Nat] /\ TakenOver(L[0], inf, new, dat, put)

\* PipeTakes with its premises gathered in one operator.
LEMMA PipeTakesOver ==
  ASSUME NEW s, NEW n, NEW S, NEW ps, NEW inf, NEW dat, NEW k, NEW L, NEW M, NEW new, NEW put,
         TakesFirst(s, n, S, ps, inf, dat, k, L, M, new, put)
  PROVE  Pipe(s, M, n, S, ps, new, put) /\ Items(M) \subseteq Items(L)
BY PipeTakes DEF TakesFirst

Works(s, n, S, ps, inf, dat, k, L, M) ==
  /\ s \in Sharcs /\ n \in Nat /\ S \in SUBSET Dirs /\ ps \in BOOLEAN /\ (ps => S = Dirs)
  /\ dat \in [Audio -> Nat]
  /\ Pipe(s, L, n, S, ps, inf, dat) /\ Done(L, M, k) /\ L[0] = Mark

\* PipeProcesses with its premises gathered in one operator.
LEMMA PipeWorks ==
  ASSUME NEW s, NEW n, NEW S, NEW ps, NEW inf, NEW dat, NEW k, NEW L, NEW M,
         Works(s, n, S, ps, inf, dat, k, L, M)
  PROVE  /\ \A d \in Dirs : inf[d] = Now(Items(L), n, ps)
         /\ \A new, put : Worked(s, Now(Items(L), n, ps), new, dat, put) => Pipe(s, M, n, S, ps, new, put)
         /\ Items(M) \subseteq Items(L)
BY PipeProcesses DEF Works

\* newAudio: a SHARC takes over a buffer.
LEMMA TakeStep ==
  ASSUME AudioInv, IndInv', NEW t \in Thread \ {ArmIrq}, todo[t] # <<>>, newAudio(t, Head(todo[t]))
  PROVE  AudioInv'
<1> DEFINE op == Head(todo[t])
           s == t[1]
           x == op.msg
<1>1. IndInv /\ Talk /\ AudioTypes /\ Silence
  BY DEF AudioInv, Basics
<1>2. /\ op.op = "audio" /\ Continue(t, <<>>) /\ info' = [info EXCEPT ![op.core][x.type] = x.id]
      /\ data' = IF x.type = "OUT" THEN [data EXCEPT ![x] = 0] ELSE data
      /\ UNCHANGED <<queue, active, pp, stream, got, block, ready, running>>
  BY DEF newAudio, busVars, bootVars, armVars
<1>3. op \in Elements(todo[t])
  BY <1>1, HeadIsProper
<1>4. s \in Sharcs /\ t = <<s, "irq">> /\ x \in Audio /\ op.core = s
  BY <1>1, <1>2, <1>3 DEF Talk, Quiet, Audible, Thread
<1>5. x.type \in Dirs /\ x.id \in {None, 0, 1}
  BY <1>4, BufferParts
<1>6. OtherStep(t, <<>>)
  BY <1>2, EmptyList DEF OtherStep
<1>7. /\ Done(LineAt(s), LineAt(s)', Len(queue[s])) /\ LineAt(s)[0] = x
      /\ \A r \in Sharcs \ {s} : LineAt(r)' = LineAt(r)
  <2>1. CallItem(op) = x
    BY <1>2 DEF CallItem
  <2> QED BY <1>2, <1>4, <1>6, <2>1, CallDone
<1>8. /\ info' \in [Sharcs -> [Dirs -> {None, 0, 1}]] /\ info'[s] = [info[s] EXCEPT ![x.type] = x.id]
      /\ \A r \in Sharcs \ {s} : info'[r] = info[r]
  BY <1>1, <1>2, <1>4, <1>5 DEF AudioTypes
<1>9. /\ data' \in [Audio -> Nat] /\ \A y \in Audio : y.type = "IN" \/ y # x => data'[y] = data[y]
      /\ block = 0 => \A y \in Audio : data'[y] = 0
  BY <1>1, <1>2 DEF AudioTypes, Silence
<1>10. x.core = s
  <2>1. x \in Items(LineAt(s))
    <3>1. 0 \in DOMAIN LineAt(s) /\ x # Nil
      BY <1>4, BufferParts DEF LineAt, LineOf
    <3> QED BY <1>7, <3>1 DEF Items
  <2> QED BY <1>4, <2>1, OwnLine
<1> HIDE DEF op, s, x
<1>11. LineKept(s)
  <2>1. TakenOver(x, info[s], info'[s], data, data')
    BY <1>8, <1>9 DEF TakenOver
  <2>2. info[s] \in [Dirs -> {None, 0, 1}] /\ info'[s] \in [Dirs -> {None, 0, 1}] /\ data \in [Audio -> Nat] /\ block \in Nat
    BY <1>1, <1>4, <1>8 DEF AudioTypes
  <2> DEFINE L == LineAt(s)
             M == LineAt(s)'
             k == Len(queue[s])
             new == info'[s]
             put == data'
  <2>3. Done(L, M, k) /\ L[0] \in Audio /\ TakenOver(L[0], info[s], new, data, put)
    BY <1>4, <1>7, <2>1
  <2>4. new \in [Dirs -> {None, 0, 1}] /\ put \in [Audio -> Nat]
    BY <1>9, <2>2
  <2> HIDE DEF L, M, k, new, put
  <2>7. ASSUME NEW S \in SUBSET Dirs, NEW ps \in BOOLEAN, Pipe(s, L, block, S, ps, info[s], data)
        PROVE  Pipe(s, M, block, S, ps, new, put) /\ Items(M) \subseteq Items(L)
    <3> DEFINE inf == info[s]
    <3>1. inf \in [Dirs -> {None, 0, 1}] /\ Pipe(s, L, block, S, ps, inf, data) /\ TakenOver(L[0], inf, new, data, put)
      BY <2>2, <2>3, <2>7
    <3> HIDE DEF inf
    <3>2. TakesFirst(s, block, S, ps, inf, data, k, L, M, new, put)
      BY <1>4, <2>2, <2>3, <2>4, <3>1 DEF TakesFirst
    <3> QED BY <3>2, PipeTakesOver
  <2>5. ASSUME NEW S \in SUBSET Dirs, NEW ps \in BOOLEAN
        PROVE  Stays(s, S, ps, L, block, info[s], data, M, new, put)
    BY <2>7 DEF Stays
  <2>6. Items(M) \subseteq Items(L)
    <3>1. PICK i \in 0 .. 13, d \in Dirs, m \in Msg : LineIs(i, d, s)
      BY <1>4 DEF AudioInv, Staged, Phase
    <3> DEFINE S == SentDirs(i, d, s)
               ps == Told(i, s)
    <3>2. S \in SUBSET Dirs /\ ps \in BOOLEAN
      BY <1>1, StageSets DEF AudioTypes
    <3>3. Pipe(s, L, block, S, ps, info[s], data)
      BY <3>1 DEF LineIs, L
    <3> HIDE DEF S, ps
    <3> QED BY <2>7, <3>2, <3>3
  <2> QED BY <2>5, <2>6 DEF LineKept, L, M, new, put
<1>12. ASSUME NEW r \in Sharcs \ {s} PROVE LineKept(r)
  <2>1. \A y \in Audio : y.core = r => data'[y] = data[y]
    BY <1>9, <1>10
  <2> QED BY <1>1, <1>7, <1>8, <2>1, LineSame DEF AudioTypes
<1>13. \A r \in Sharcs : LineKept(r)
  BY <1>11, <1>12
<1> QED BY <1>6, <1>8, <1>9, <1>13, OthersKeep

\* sharcProcessAudio: a SHARC processes what it has taken over.
LEMMA ProcessStep ==
  ASSUME AudioInv, IndInv', NEW t \in Thread \ {ArmIrq}, todo[t] # <<>>, sharcProcessAudio(t, Head(todo[t]))
  PROVE  AudioInv'
<1> DEFINE op == Head(todo[t])
           s == t[1]
<1>1. IndInv /\ Talk /\ AudioTypes /\ Silence
  BY DEF AudioInv, Basics
<1>2. /\ op.op = "process" /\ Continue(t, <<>>)
      /\ UNCHANGED <<queue, active, pp, stream, got, block, ready, running>>
      /\ \/ /\ Both(s)
            /\ data' = [data EXCEPT ![Buffer("OUT", s, info[s]["OUT"])] = data[Buffer("IN", s, info[s]["IN"])]]
            /\ info' = [info EXCEPT ![s] = [d \in {"IN", "OUT"} |-> None]]
         \/ ~Both(s) /\ UNCHANGED <<data, info>>
  BY DEF sharcProcessAudio, busVars, bootVars, armVars
<1>3. op \in Elements(todo[t])
  BY <1>1, HeadIsProper
<1>4. s \in Sharcs /\ t = <<s, "irq">>
  BY <1>1, <1>2, <1>3 DEF Talk, Quiet, Audible, Thread
<1>6. OtherStep(t, <<>>)
  BY <1>2, EmptyList DEF OtherStep
<1>7. /\ Done(LineAt(s), LineAt(s)', Len(queue[s])) /\ LineAt(s)[0] = Mark
      /\ \A r \in Sharcs \ {s} : LineAt(r)' = LineAt(r)
  <2>1. CallItem(op) = Mark
    BY <1>2 DEF CallItem
  <2> QED BY <1>2, <1>4, <1>6, <2>1, CallDone
<1>5. info[s] \in [Dirs -> {None, 0, 1}] /\ (Both(s) => info[s]["IN"] \in 0 .. 1 /\ info[s]["OUT"] \in 0 .. 1)
  BY <1>1, <1>4 DEF AudioTypes, Both, Dirs
<1>8. /\ info' \in [Sharcs -> [Dirs -> {None, 0, 1}]]
      /\ \A r \in Sharcs \ {s} : info'[r] = info[r]
  BY <1>1, <1>2, <1>4 DEF AudioTypes, Dirs
<1> HIDE DEF op, s
<1>9. /\ data' \in [Audio -> Nat]
      /\ \A y \in Audio : y.core # s => data'[y] = data[y]
      /\ block = 0 => \A y \in Audio : data'[y] = 0
  <2>1. CASE Both(s)
    <3>1. /\ Buffer("OUT", s, info[s]["OUT"]) \in Audio /\ Buffer("OUT", s, info[s]["OUT"]).core = s
          /\ Buffer("IN", s, info[s]["IN"]) \in Audio
      BY <1>4, <1>5, <2>1, BufferParts DEF Dirs
    <3> DEFINE b == Buffer("OUT", s, info[s]["OUT"])
               v == data[Buffer("IN", s, info[s]["IN"])]
    <3>2. v \in Nat /\ (block = 0 => v = 0) /\ data' = [data EXCEPT ![b] = v]
      BY <1>1, <1>2, <2>1, <3>1 DEF AudioTypes, Silence
    <3>3. b \in Audio /\ b.core = s
      BY <3>1
    <3> HIDE DEF b, v
    <3> QED BY <1>1, <3>2, <3>3 DEF AudioTypes, Silence
  <2>2. CASE ~Both(s)
    BY <1>1, <1>2, <2>2 DEF AudioTypes, Silence
  <2> QED BY <2>1, <2>2
<1>11. LineKept(s)
  <2> DEFINE L == LineAt(s)
             M == LineAt(s)'
             k == Len(queue[s])
             new == info'[s]
             put == data'
  <2>1. Done(L, M, k) /\ L[0] = Mark
    BY <1>7
  <2>2. data \in [Audio -> Nat] /\ block \in Nat
    BY <1>1 DEF AudioTypes
  <2>3. ASSUME NEW w \in 0 .. 1, \A e \in Dirs : info[s][e] = w
        PROVE  Worked(s, w, new, data, put)
    <3>1. info[s]["IN"] = w /\ info[s]["OUT"] = w /\ w # None
      BY <2>3 DEF Dirs, None
    <3>2. Both(s)
      BY <3>1 DEF Both
    <3>3. /\ data' = [data EXCEPT ![Buffer("OUT", s, w)] = data[Buffer("IN", s, w)]]
          /\ info'[s] = [d \in {"IN", "OUT"} |-> None]
      BY <1>1, <1>2, <1>4, <3>1, <3>2 DEF AudioTypes
    <3> QED BY <2>2, <3>3 DEF Worked, Dirs
  <2> HIDE DEF L, M, k, new, put
  <2>4. ASSUME NEW S \in SUBSET Dirs, NEW ps \in BOOLEAN, ps => S = Dirs,
               Pipe(s, L, block, S, ps, info[s], data)
        PROVE  Pipe(s, M, block, S, ps, new, put) /\ Items(M) \subseteq Items(L)
    <3> DEFINE w == Now(Items(L), block, ps)
    <3>1. /\ \A d \in Dirs : info[s][d] = w
          /\ Worked(s, w, new, data, put) => Pipe(s, M, block, S, ps, new, put)
          /\ Items(M) \subseteq Items(L)
      <4> DEFINE inf == info[s]
      <4>1. Pipe(s, L, block, S, ps, inf, data)
        BY <2>4
      <4> HIDE DEF inf, w
      <4>2. /\ \A d \in Dirs : inf[d] = Now(Items(L), block, ps)
            /\ \A a, b : Worked(s, Now(Items(L), block, ps), a, data, b) => Pipe(s, M, block, S, ps, a, b)
            /\ Items(M) \subseteq Items(L)
        <5>1. Works(s, block, S, ps, inf, data, k, L, M)
          BY <1>4, <2>1, <2>2, <2>4, <4>1 DEF Works
        <5> QED BY <5>1, PipeWorks
      <4> QED BY <4>2 DEF inf, w
    <3>2. w \in 0 .. 1
      BY <2>2, Parity DEF Now
    <3> HIDE DEF w
    <3> QED BY <2>3, <3>1, <3>2
  <2>5. ASSUME NEW S \in SUBSET Dirs, NEW ps \in BOOLEAN, ps => S = Dirs
        PROVE  Stays(s, S, ps, L, block, info[s], data, M, new, put)
    BY <2>4, <2>5 DEF Stays
  <2>6. Items(M) \subseteq Items(L)
    <3>1. PICK i \in 0 .. 13, d \in Dirs, m \in Msg : LineIs(i, d, s)
      BY <1>4 DEF AudioInv, Staged, Phase
    <3> DEFINE S == SentDirs(i, d, s)
               ps == Told(i, s)
    <3>2. S \in SUBSET Dirs /\ ps \in BOOLEAN /\ (ps => S = Dirs)
      BY <1>1, StageSets DEF AudioTypes
    <3>3. Pipe(s, L, block, S, ps, info[s], data)
      BY <3>1 DEF LineIs, L
    <3> HIDE DEF S, ps
    <3> QED BY <2>4, <3>2, <3>3
  <2> QED BY <2>5, <2>6 DEF LineKept, L, M, new, put
<1>12. ASSUME NEW r \in Sharcs \ {s} PROVE LineKept(r)
  <2>1. \A y \in Audio : y.core = r => data'[y] = data[y]
    BY <1>9
  <2> QED BY <1>1, <1>7, <1>8, <2>1, LineSame DEF AudioTypes
<1>13. \A r \in Sharcs : LineKept(r)
  BY <1>11, <1>12
<1> QED BY <1>6, <1>8, <1>9, <1>13, OthersKeep

\* What a list of meek calls is.
LEMMA MeekCalls ==
  /\ \A m : Meek(Ref(m)) /\ Meek(Unref(m))
  /\ \A m, c : ItemOf(m) = Nil => Meek(Send(m, c))
  /\ \A m \in Short : m.type # "PROCESS" => ItemOf(m) = Nil
  /\ \A s \in Sharcs : ItemOf(Cycles(s)) = Nil
  /\ \A o \in OpName \ (Audible \cup Routing \cup {"send"}) : Meek(Plain(o))
<1>1. \A m : Ref(m).op = "ref" /\ Unref(m).op = "unref" /\ \A c : Send(m, c).op = "send" /\ Send(m, c).msg = m
  BY DEF Ref, Unref, Send, Op
<1>2. \A o : Plain(o).op = o
  BY StartupLists
<1>3. \A m \in Short : m.type # "PROCESS" => ItemOf(m) = Nil
  BY Messages DEF ItemOf
<1>4. \A s \in Sharcs : ItemOf(Cycles(s)) = Nil
  <2>1. \A s \in Sharcs : Cycles(s).type = "CYCLES"
    BY DEF Cycles, Message
  <2> QED BY <2>1, Messages DEF ItemOf
<1> QED BY <1>1, <1>2, <1>3, <1>4 DEF Meek, Audible, Routing

\* Sending a message that is no audio to both SHARCs is meek.
LEMMA ToBothIsMeek ==
  ASSUME NEW m \in Short, m.type # "PROCESS"
  PROVE  /\ ToBoth(m) \in Seq(Call) /\ \A x \in Elements(ToBoth(m)) : Meek(x)
         /\ <<Send(m, "ARM")>> \in Seq(Call) /\ \A x \in Elements(<<Send(m, "ARM")>>) : Meek(x)
<1>1. m \in Msg /\ "ARM" \in Core
  BY Threads DEF Msg
<1>2. Send(m, "ARM") \in Call
  BY <1>1, CallsAreCalls
<1>3. <<Send(m, "ARM")>> \in Seq(Call) /\ Elements(<<Send(m, "ARM")>>) = {Send(m, "ARM")}
  BY <1>2, ListOfOne
<1>4. ToBoth(m) \in Seq(Call) /\ Elements(ToBoth(m)) = {Ref(m), Send(m, "SHARC0"), Send(m, "SHARC1")}
  BY ToBothAdds DEF Adds
<1>5. ItemOf(m) = Nil
  BY MeekCalls
<1> QED BY <1>3, <1>4, <1>5, MeekCalls

\* A step that creates a message and makes calls about it.
LEMMA CreateStep ==
  ASSUME AudioInv, IndInv', NEW t \in Thread \ {ArmIrq}, todo[t] # <<>>,
         NEW y \in {"PING", "CYCLES", "READY"}, NEW m, m = Fresh(y, t[1]),
         NEW calls \in {ToBoth(m), <<Send(m, "ARM")>>}, Create(t, m, calls),
         Head(todo[t]).op \notin Audible \cup {"initialize"}
  PROVE  AudioInv'
<1>1. t[1] \in Core /\ AudioTypes
  BY DEF Thread, AudioInv, Basics
<1>2. m = Nil \/ (m \in Short /\ m.type = y)
  BY <1>1, FreshIsFree
<1>3. PICK then : then = IF m = Nil THEN <<>> ELSE calls
  OBVIOUS
<1>4. Continue(t, then) /\ UNCHANGED <<queue, bootVars, appVars>>
  BY <1>3 DEF Create
<1>5. m # Nil => calls \in Seq(Call) /\ \A x \in Elements(calls) : Meek(x)
  BY <1>2, ToBothIsMeek
<1>6. then \in Seq(Call) /\ \A x \in Elements(then) : Meek(x)
  BY <1>3, <1>5, EmptyList
<1>7. UNCHANGED <<active, pp, stream, got, block, ready, running, info, data>>
  BY <1>4 DEF bootVars, appVars, armVars
<1>8. OtherStep(t, then)
  BY <1>4, <1>6, <1>7 DEF OtherStep
<1> QED BY <1>1, <1>4, <1>7, <1>8, QuietStep DEF AudioTypes

\* A step that goes on with nothing and leaves the audio alone.
LEMMA NothingStep ==
  ASSUME AudioInv, IndInv', NEW t \in Thread \ {ArmIrq}, todo[t] # <<>>, Continue(t, <<>>),
         UNCHANGED <<queue, appVars>>, ready \subseteq ready', running => running',
         Head(todo[t]).op \notin Audible, Head(todo[t]).op = "initialize" => t[1] \in ready'
  PROVE  AudioInv'
<1>1. AudioTypes
  BY DEF AudioInv, Basics
<1>2. UNCHANGED <<active, pp, stream, got, block, info, data>>
  BY DEF appVars, armVars
<1>3. OtherStep(t, <<>>)
  BY <1>2, EmptyList DEF OtherStep
<1> QED BY <1>1, <1>2, <1>3, QuietStep DEF AudioTypes

\* The buffers are made silent before the first block.
LEMMA BuffersStep ==
  ASSUME AudioInv, IndInv', NEW t \in Thread \ {ArmIrq}, todo[t] # <<>>, sae_buffer_init(t, Head(todo[t]))
  PROVE  AudioInv'
<1>1. IndInv /\ AudioTypes /\ Silence
  BY DEF AudioInv, Basics
<1>2. /\ Head(todo[t]).op = "buffers" /\ Continue(t, <<>>) /\ data' = [m \in Audio |-> 0]
      /\ UNCHANGED <<queue, active, pp, stream, got, block, ready, running, info>>
  BY DEF sae_buffer_init, bootVars, armVars
<1>3. ~running
  BY <1>1, <1>2, StageByHead DEF StartupOps, ArmAt, SharcAt
<1>4. data' \in [Audio -> Nat] /\ \A x \in Audio : data'[x] = data[x]
  BY <1>1, <1>2, <1>3 DEF Silence
<1>5. OtherStep(t, <<>>)
  BY <1>2, EmptyList DEF OtherStep
<1> QED BY <1>2, <1>4, <1>5, QuietStep DEF Audible

\* A stuttering step.
LEMMA NoStep == ASSUME AudioInv, UNCHANGED vars PROVE AudioInv'
<1>1. UNCHANGED <<queue, ready, running, todo, active, pp, stream, got, block, info, data>>
  BY DEF vars, busVars, bootVars, appVars, armVars
<1>2. Talk' /\ AudioTypes' /\ Silence' /\ Prepared' /\ BlocksReturn'
  BY <1>1 DEF AudioInv, Basics, Talk, AudioTypes, Silence, Prepared, BlocksReturn, Elements
<1>3. IndInv'
  BY IdleKeeps DEF AudioInv, Basics
<1>4. Staged'
  <2>1. PICK k \in 0 .. 13, d \in Dirs, m \in Msg : Phase(k, d, m)
    BY DEF AudioInv, Staged
  <2>2. \A s \in Sharcs : LineKept(s)
    <3> SUFFICES ASSUME NEW s \in Sharcs PROVE LineKept(s)
      OBVIOUS
    <3>1. LineAt(s)' = LineAt(s)
      BY <1>1 DEF LineAt, Doing
    <3> QED BY <1>1, <3>1, LineSame DEF AudioInv, Basics, AudioTypes
  <2>3. Phase(k, d, m)'
    BY <1>1, <2>1, <2>2, OthersKeepPhase DEF AudioInv, Basics, AudioTypes
  <2> QED BY <2>3 DEF Staged
<1> QED BY <1>2, <1>3, <1>4 DEF AudioInv, Basics

\* Every call of another thread than the ARM's interrupt.
LEMMA OtherStepsKeep ==
  ASSUME AudioInv, NEW t \in Thread \ {ArmIrq}, Step(t)
  PROVE  AudioInv'
<1> DEFINE op == Head(todo[t])
<1>1. todo[t] # <<>> /\ IndInv /\ IndInv'
  BY StepKeeps DEF Step, CanRun, AudioInv, Basics
<1>2. op \in Elements(todo[t]) /\ op.op \notin Routing
  BY <1>1, HeadIsProper DEF AudioInv, Basics, Talk, Quiet
<1>3. CASE DoRef(t, op) \/ DoUnref(t, op) \/ Heard(t, op)
  <2>1. /\ op.op \in {"ref", "unref", "heard"} /\ Continue(t, <<>>) /\ UNCHANGED <<queue, appVars, ready, running>>
    BY <1>3 DEF DoRef, DoUnref, Heard, busVars, bootVars
  <2> QED BY <1>1, <2>1, NothingStep DEF Audible
<1>4. CASE ipcToCore(t, op)
  BY <1>1, <1>4, SendStep
<1>5. CASE Initialize(t, op) \/ Register(t, op) \/ EnableSharcs(t, op) \/ CreateCycles(t, op)
  <2>1. /\ op.op \in {"initialize", "register", "enable", "cycles"} /\ Continue(t, <<>>)
        /\ UNCHANGED <<queue, appVars, running>> /\ ready \subseteq ready'
        /\ op.op = "initialize" => t[1] \in ready'
    <3>1. CASE Initialize(t, op)
      BY <3>1 DEF Initialize, busVars
    <3>2. CASE Register(t, op)
      BY <3>2 DEF Register, busVars
    <3>3. CASE EnableSharcs(t, op)
      BY <3>3 DEF EnableSharcs, busVars
    <3>4. CASE CreateCycles(t, op)
      BY <3>4 DEF CreateCycles, bootVars
    <3> QED BY <1>5, <3>1, <3>2, <3>3, <3>4
  <2> HIDE DEF op
  <2>2. op = Head(todo[t])
    BY DEF op
  <2> QED BY <1>1, <2>1, <2>2, NothingStep DEF Audible
<1>6. CASE sae_buffer_init(t, op)
  BY <1>1, <1>6, BuffersStep
<1>7. CASE op.op = "wait" /\ Continue(t, <<>>) /\ UNCHANGED <<busVars, ready, appVars>> /\ running' = TRUE
  <2>1. UNCHANGED <<queue, appVars>> /\ ready \subseteq ready' /\ (running => running')
    BY <1>7 DEF busVars
  <2> QED BY <1>1, <1>7, <2>1, NothingStep DEF Audible
<1>8. CASE Announce(t, op)
  <2> PICK m : m = Fresh("READY", t[1])
    OBVIOUS
  <2>1. op.op = "announce" /\ Create(t, m, <<Send(m, "ARM")>>)
    BY <1>8 DEF Announce
  <2> QED BY <1>1, <2>1, CreateStep DEF Audible
<1>9. CASE Ping(t, op)
  <2> PICK m : m = Fresh("PING", t[1])
    OBVIOUS
  <2>1. op.op = "ping" /\ Create(t, m, ToBoth(m))
    BY <1>9 DEF Ping
  <2> QED BY <1>1, <2>1, CreateStep DEF Audible
<1>10. CASE Ask(t, op)
  <2> PICK m : m = Fresh("CYCLES", t[1])
    OBVIOUS
  <2>1. op.op = "ask" /\ Create(t, m, ToBoth(m))
    BY <1>10 DEF Ask
  <2> QED BY <1>1, <2>1, CreateStep DEF Audible
<1>11. CASE Reply(t, op)
  <2> PICK m : m = Fresh("PING", t[1])
    OBVIOUS
  <2>1. op.op = "reply" /\ Create(t, m, <<Send(m, "ARM")>>)
    BY <1>11 DEF Reply
  <2> QED BY <1>1, <2>1, CreateStep DEF Audible
<1>12. CASE newAudio(t, op)
  BY <1>1, <1>12, TakeStep
<1>13. CASE sharcProcessAudio(t, op)
  BY <1>1, <1>13, ProcessStep
<1>14. CASE UNCHANGED vars
  BY <1>14, NoStep
<1>15. CASE xferSharcAudio(t, op) \/ DomainReady(t, op) \/ RouteAudio(t, op)
  <2>1. op.op \in Routing
    BY <1>15 DEF xferSharcAudio, DomainReady, RouteAudio, Routing
  <2> QED BY <1>2, <2>1
<1>16. CASE WaitForSharcs(t, op)
  BY <1>7, <1>14, <1>16 DEF WaitForSharcs
<1> QED BY <1>3, <1>4, <1>5, <1>6, <1>8, <1>9, <1>10, <1>11, <1>12, <1>13, <1>15, <1>16 DEF Step

\* Lists of no more than a few calls.
LEMMA ShortLists ==
  /\ \A u : /\ Len(<<>> \o <<u>>) = 1 /\ (<<>> \o <<u>>)[1] = u /\ <<>> \o <<u>> # <<>>
  /\ \A a, u : /\ Len(<<a>> \o <<u>>) = 2 /\ (<<a>> \o <<u>>)[1] = a /\ (<<a>> \o <<u>>)[2] = u /\ <<a>> \o <<u>> # <<>>
  /\ \A a, b, u : /\ Len(<<a, b>> \o <<u>>) = 3 /\ (<<a, b>> \o <<u>>)[1] = a /\ (<<a, b>> \o <<u>>)[2] = b
                  /\ (<<a, b>> \o <<u>>)[3] = u /\ <<a, b>> \o <<u>> # <<>>
OBVIOUS

\* What a callback does with m is audible, if at all, in its first call.
LEMMA HandleItem ==
  ASSUME NEW c \in Core, NEW m \in Msg
  PROVE  /\ Handle(c, m) # <<>> /\ (c \in Sharcs => CallItem(Handle(c, m)[1]) = ItemOf(m))
         /\ \A i \in 2 .. Len(Handle(c, m)) : Handle(c, m)[i].op \notin Audible
         /\ \A x \in Elements(Handle(c, m)) :
              /\ x.op \in Audible => c \in Sharcs
              /\ x.op = "audio" => x.msg \in Audio /\ x.core = c
              /\ x.op \notin Routing /\ (x.op = "send" => ItemOf(x.msg) = Nil)
              /\ c = "ARM" => x.op \in {"heard", "unref"}
<1> DEFINE l == Handle(c, m)
           u == Unref(m)
           a == Op("audio", m, c)
           p == Plain("process")
           r == Plain("reply")
           h == Op("heard", m, c)
           f == Ref(Cycles(c))
           g == Send(Cycles(c), "ARM")
<1>1. /\ u.op = "unref" /\ a.op = "audio" /\ a.msg = m /\ a.core = c /\ p.op = "process" /\ r.op = "reply"
      /\ h.op = "heard" /\ f.op = "ref" /\ g.op = "send" /\ g.msg = Cycles(c)
  BY DEF Unref, Op, Plain, Ref, Send
<1>2. /\ m.type \in {"IN", "OUT"} <=> m \in Audio
      /\ c \in Sharcs => ItemOf(Cycles(c)) = Nil
  <2>1. \A x \in Audio : x.type \in {"IN", "OUT"}
    BY BufferParts DEF Dirs
  <2>2. \A s \in Sharcs : Cycles(s).type = "CYCLES"
    BY DEF Cycles, Message
  <2> QED BY <2>1, <2>2, Messages, MeekCalls DEF Msg, Persistent
<1>3. ASSUME NEW w, w = Work(c, m), c \in Sharcs
      PROVE  \/ w = <<r>> /\ m.type = "PING"
             \/ w = <<a>> /\ m.type \in {"IN", "OUT"}
             \/ w = <<p>> /\ m.type = "PROCESS"
             \/ w = <<f, g>> /\ m.type = "CYCLES"
             \/ w = <<>> /\ m.type \notin {"PING", "IN", "OUT", "PROCESS", "CYCLES"}
  <2>1. c # "ARM"
    BY <1>3 DEF Sharcs
  <2> QED BY <1>3, <2>1 DEF Work
<1>4. ASSUME NEW w, w = Work(c, m), c \notin Sharcs PROVE w = <<h>> \/ w = <<>>
  BY <1>4 DEF Work
<1>5. l = Work(c, m) \o <<u>>
  BY DEF Handle
<1>6. c \notin Sharcs => c = "ARM"
  BY Threads
<1>7. c \in Sharcs => c # "ARM"
  BY Threads
<1> DEFINE Good(L) ==
      /\ L # <<>> /\ (c \in Sharcs => CallItem(L[1]) = ItemOf(m))
      /\ \A i \in 2 .. Len(L) : L[i].op \notin Audible
      /\ \A i \in 1 .. Len(L) :
              /\ L[i].op \in Audible => c \in Sharcs
              /\ L[i].op = "audio" => L[i].msg \in Audio /\ L[i].core = c
              /\ L[i].op \notin Routing /\ (L[i].op = "send" => ItemOf(L[i].msg) = Nil)
              /\ c = "ARM" => L[i].op \in {"heard", "unref"}
<1> HIDE DEF u, a, p, r, h, f, g, l
<1>8. Good(l)
  <2>1. PICK w : w = Work(c, m)
    OBVIOUS
  <2>2. CASE w = <<>> /\ (c \in Sharcs => m.type \notin {"PING", "IN", "OUT", "PROCESS", "CYCLES"})
    BY <1>1, <1>2, <1>5, <1>7, <2>1, <2>2, ShortLists DEF CallItem, ItemOf, Audible, Routing
  <2>3. CASE w = <<h>> /\ c \notin Sharcs
    BY <1>1, <1>5, <1>6, <2>1, <2>3, ShortLists DEF Audible, Routing
  <2>4. CASE w = <<r>> /\ m.type = "PING" /\ c \in Sharcs
    BY <1>1, <1>2, <1>5, <1>7, <2>1, <2>4, ShortLists DEF CallItem, ItemOf, Audible, Routing
  <2>5. CASE w = <<a>> /\ m.type \in {"IN", "OUT"} /\ c \in Sharcs
    <3>1. l # <<>> /\ Len(l) = 2 /\ l[1] = a /\ l[2] = u
      <4>1. l = <<a>> \o <<u>>
        BY <1>5, <2>1, <2>5
      <4>2. Len(<<a>> \o <<u>>) = 2 /\ (<<a>> \o <<u>>)[1] = a /\ (<<a>> \o <<u>>)[2] = u /\ <<a>> \o <<u>> # <<>>
        BY ShortLists
      <4> QED BY <4>1, <4>2
    <3>2. CallItem(a) = m /\ ItemOf(m) = m /\ m \in Audio
      BY <1>1, <1>2, <2>5 DEF CallItem, ItemOf
    <3>3. \A i \in 1 .. 2 : i = 1 \/ i = 2
      OBVIOUS
    <3>4. a.op \notin Routing /\ a.op # "send" /\ u.op \notin Audible /\ u.op \notin Routing /\ u.op # "send" /\ u.op # "audio"
      BY <1>1 DEF Audible, Routing
    <3> QED BY <1>1, <1>7, <2>5, <3>1, <3>2, <3>3, <3>4
  <2>6. CASE w = <<p>> /\ m.type = "PROCESS" /\ c \in Sharcs
    BY <1>1, <1>2, <1>5, <1>7, <2>1, <2>6, ShortLists DEF CallItem, ItemOf, Audible, Routing
  <2>7. CASE w = <<f, g>> /\ m.type = "CYCLES" /\ c \in Sharcs
    BY <1>1, <1>2, <1>5, <1>7, <2>1, <2>7, ShortLists DEF CallItem, ItemOf, Audible, Routing
  <2> QED BY <1>3, <1>4, <2>1, <2>2, <2>3, <2>4, <2>5, <2>6, <2>7
<1> QED BY <1>8 DEF l, Elements

\* An idle thread other than the ARM's interrupt begins a list.
LEMMA NewListKeeps ==
  ASSUME AudioInv, IndInv', NEW t \in Thread \ {ArmIrq}, todo[t] = <<>>,
         NEW l \in Seq(Call), todo' = [todo EXCEPT ![t] = l],
         \A x \in Elements(l) : Quiet(t, x),
         \A i \in 2 .. Len(l) : l[i].op \notin Audible,
         UNCHANGED <<ready, running, active, pp, stream, got, block, info, data>>,
         \A s \in Sharcs : LineKept(s)
  PROVE  AudioInv'
<1>1. /\ todo'[t] = l /\ \A u \in Thread \ {t} : todo'[u] = todo[u]
  BY DEF AudioInv, Basics, IndInv, Types
<1>2. Talk'
  <2>1. ASSUME NEW u \in Thread, NEW x \in Elements(todo'[u]) PROVE Quiet(u, x)
    BY <1>1, <2>1 DEF AudioInv, Basics, Talk
  <2>2. ASSUME NEW s \in Sharcs, NEW i \in 2 .. Len(todo'[<<s, "irq">>]) PROVE todo'[<<s, "irq">>][i].op \notin Audible
    <3>1. <<s, "irq">> \in Thread
      BY DEF Thread, Core
    <3> QED BY <1>1, <2>2, <3>1 DEF AudioInv, Basics, Talk
  <2>3. \A u \in Thread : \A x \in Elements(todo[u])' : Quiet(u, x)
    BY <2>1 DEF Elements
  <2> QED BY <2>2, <2>3 DEF Talk
<1>3. Prepared'
  <2> SUFFICES ASSUME NEW c \in Core PROVE c \in ready' \/ todo'[<<c, "task">>] \in {ArmStartup, SharcStartup}
    BY DEF Prepared
  <2>1. <<c, "task">> \in Thread
    BY DEF Thread
  <2>2. CASE t = <<c, "task">>
    BY <2>1, <2>2, StartupLists DEF AudioInv, Basics, Prepared
  <2>3. CASE t # <<c, "task">>
    BY <1>1, <2>1, <2>3 DEF AudioInv, Basics, Prepared
  <2> QED BY <2>2, <2>3
<1>4. AudioTypes' /\ Silence' /\ BlocksReturn'
  BY DEF AudioInv, Basics, AudioTypes, Silence, BlocksReturn
<1>5. todo'[ArmIrq] = todo[ArmIrq]
  BY <1>1, Threads DEF ArmIrq
<1>6. Staged'
  <2>1. PICK k \in 0 .. 13, d \in Dirs, m \in Msg : Phase(k, d, m)
    BY DEF AudioInv, Staged
  <2>2. Phase(k, d, m)'
    BY <1>5, <2>1, OthersKeepPhase DEF AudioInv, Basics, AudioTypes
  <2> QED BY <2>2 DEF Staged
<1> QED BY <1>2, <1>3, <1>4, <1>6 DEF AudioInv, Basics

\* A SHARC's interrupt takes the first of its queue.
LEMMA SharcReceives ==
  ASSUME AudioInv, NEW s \in Sharcs, Receive(s)
  PROVE  AudioInv'
<1> DEFINE t == <<s, "irq">>
<1>1. s \in Core /\ t \in Thread \ {ArmIrq} /\ s # "ARM"
  BY Threads DEF ArmIrq
<1>2. IndInv /\ Talk /\ AudioTypes /\ IndInv'
  BY <1>1, ReceiveKeeps DEF AudioInv, Basics
<1>3. PICK m : m = Head(queue[s])
  OBVIOUS
<1>4. PICK l : l = Handle(s, m)
  OBVIOUS
<1>5. /\ todo[t] = <<>> /\ queue[s] # <<>> /\ queue' = [queue EXCEPT ![s] = Tail(@)]
      /\ UNCHANGED <<ready, running, active, pp, stream, got, block, info, data>>
  BY DEF Receive, bootVars, appVars, armVars
<1>6. todo' = [todo EXCEPT ![t] = l]
  <2>1. s \in callback
    BY <1>1, <1>2, <1>5 DEF IndInv, Flow, Queues
  <2> QED BY <1>3, <1>4, <2>1 DEF Receive
<1>7. queue \in [Core -> Seq(Msg)] /\ queue[s] \in Seq(Msg) /\ m \in Msg
  BY <1>1, <1>2, <1>3, <1>5 DEF IndInv, Types
<1>8. l \in Seq(Call)
  BY <1>1, <1>4, <1>7, HandleAdds DEF Adds
<1>9. /\ l # <<>> /\ CallItem(l[1]) = ItemOf(m) /\ \A i \in 2 .. Len(l) : l[i].op \notin Audible
      /\ \A x \in Elements(l) : Quiet(t, x)
  BY <1>1, <1>4, <1>7, HandleItem DEF Quiet
<1>10. ASSUME NEW r \in Sharcs PROVE LineKept(r)
  <2>1. CASE r = s
    <3>1. Doing(s) = Nil
      BY <1>5, <1>2, DoingIsItem
    <3>2. Doing(s)' = ItemOf(m) /\ queue'[s] = Tail(queue[s])
      <4>1. todo'[t] = l
        BY <1>1, <1>2, <1>6 DEF IndInv, Types
      <4> QED BY <1>1, <1>5, <1>7, <1>9, <4>1 DEF Doing, First
    <3>3. LineAt(s) = LineOf(Nil, queue[s]) /\ LineAt(s)' = LineOf(ItemOf(Head(queue[s])), Tail(queue[s]))
      BY <1>3, <3>1, <3>2 DEF LineAt
    <3>4. Moved(LineAt(s), LineAt(s)', Len(queue[s]) - 1)
      <4>1. Nil \in Audio \cup {Mark, Nil}
        OBVIOUS
      <4> QED BY <1>5, <1>7, <3>3, <4>1, LinesOf
    <3> QED BY <1>2, <1>5, <2>1, <3>4, LinePinged DEF AudioTypes
  <2>2. CASE r # s
    <3>1. LineAt(r)' = LineAt(r)
      <4>1. <<r, "irq">> # t /\ <<r, "irq">> \in Thread /\ r \in Core
        BY <2>2, Threads
      <4>2. todo'[<<r, "irq">>] = todo[<<r, "irq">>] /\ queue'[r] = queue[r]
        BY <1>2, <1>5, <1>6, <1>7, <2>2, <4>1 DEF IndInv, Types
      <4> QED BY <4>2 DEF LineAt, Doing
    <3> QED BY <1>2, <1>5, <3>1, LineSame DEF AudioTypes
  <2> QED BY <2>1, <2>2
<1> HIDE DEF t
<1> QED BY <1>1, <1>2, <1>5, <1>6, <1>8, <1>9, <1>10, NewListKeeps

\* The house-keeping begins.
LEMMA HouseStep ==
  ASSUME AudioInv, houseKeepingTask
  PROVE  AudioInv'
<1> DEFINE t == <<"ARM", "task">>
           a == Plain("ping")
           b == Plain("ask")
<1>1. IndInv /\ IndInv' /\ AudioTypes
  BY HouseKeeps DEF AudioInv, Basics
<1>2. /\ todo[t] = <<>> /\ todo' = [todo EXCEPT ![t] = <<a, b>>]
      /\ UNCHANGED <<queue, ready, running, active, pp, stream, got, block, info, data>>
  BY DEF houseKeepingTask, busVars, bootVars, armVars
<1>3. t \in Thread \ {ArmIrq}
  BY Threads DEF ArmIrq
<1>4. a \in Call /\ b \in Call /\ a.op = "ping" /\ b.op = "ask"
  BY CallsAreCalls, StartupLists
<1>5. Quiet(t, a) /\ Quiet(t, b)
  BY <1>4 DEF Quiet, Audible, Routing
<1> HIDE DEF a, b
<1>6. <<a, b>> \in Seq(Call) /\ Elements(<<a, b>>) = {a, b}
  BY <1>4, ListOfTwo
<1>7. \A i \in 2 .. Len(<<a, b>>) : <<a, b>>[i].op \notin Audible
  BY <1>4 DEF Audible
<1>8. ASSUME NEW s \in Sharcs PROVE LineKept(s)
  <2>1. <<s, "irq">> \in Thread /\ <<s, "irq">> # t
    BY DEF Thread, Core
  <2>2. todo'[<<s, "irq">>] = todo[<<s, "irq">>]
    BY <1>1, <1>2, <2>1 DEF IndInv, Types
  <2>3. LineAt(s)' = LineAt(s)
    BY <1>2, <2>2 DEF LineAt, Doing
  <2> QED BY <1>1, <1>2, <2>3, LineSame DEF AudioTypes
<1> HIDE DEF t
<1> QED BY <1>1, <1>2, <1>3, <1>5, <1>6, <1>7, <1>8, NewListKeeps

-----------------------------------------------------------------------------
(* The lists of the stages *)

\* What a concatenation is.
LEMMA JoinIs ==
  ASSUME NEW T, NEW a \in Seq(T), NEW b \in Seq(T), NEW r \in Seq(T), Joined(a, b, r)
  PROVE  a \o b = r
<1>1. /\ a \o b \in Seq(T) /\ Len(a \o b) = Len(a) + Len(b)
      /\ \A i \in 1 .. Len(a) + Len(b) : (a \o b)[i] = IF i <= Len(a) THEN a[i] ELSE b[i - Len(a)]
  BY ConcatProperties
<1>2. Len(a) \in Nat /\ Len(b) \in Nat
  OBVIOUS
<1>3. \A i \in 1 .. Len(a) + Len(b) :
        \/ i \in 1 .. Len(a) /\ i <= Len(a)
        \/ ~(i <= Len(a)) /\ i - Len(a) \in 1 .. Len(b) /\ (i - Len(a)) + Len(a) = i
  BY <1>2
<1>4. \A i \in 1 .. Len(a) + Len(b) : (a \o b)[i] = r[i]
  BY <1>1, <1>3 DEF Joined
<1> QED BY <1>1, <1>4, SeqEqual DEF Joined

\* Concatenations of tuples.
LEMMA TupleJoins ==
  /\ \A a, b, c, d : <<a, b>> \o <<c, d>> = <<a, b, c, d>>
  /\ \A a, b, c : <<a, b>> \o <<c>> = <<a, b, c>>
  /\ \A a, b, c, d, e, f : <<a, b, c, d, e>> \o <<f>> = <<a, b, c, d, e, f>>
<1>1. ASSUME NEW a, NEW b, NEW c, NEW d PROVE <<a, b>> \o <<c, d>> = <<a, b, c, d>>
  <2> DEFINE T == {a, b, c, d}
             p == <<a, b>>
             q == <<c, d>>
             r == <<a, b, c, d>>
  <2>1. p \in Seq(T) /\ q \in Seq(T) /\ r \in Seq(T)
    OBVIOUS
  <2>2. Len(p) = 2 /\ Len(q) = 2 /\ Len(r) = 4 /\ r[1] = p[1] /\ r[2] = p[2] /\ r[3] = q[1] /\ r[4] = q[2]
    OBVIOUS
  <2> HIDE DEF T, p, q, r
  <2>3. Joined(p, q, r)
    BY <2>2 DEF Joined
  <2>4. p \o q = r
    BY <2>1, <2>3, JoinIs
  <2> QED BY <2>4 DEF p, q, r
<1>2. ASSUME NEW a, NEW b, NEW c PROVE <<a, b>> \o <<c>> = <<a, b, c>>
  <2> DEFINE T == {a, b, c}
             p == <<a, b>>
             q == <<c>>
             r == <<a, b, c>>
  <2>1. p \in Seq(T) /\ q \in Seq(T) /\ r \in Seq(T)
    OBVIOUS
  <2>2. Len(p) = 2 /\ Len(q) = 1 /\ Len(r) = 3 /\ r[1] = p[1] /\ r[2] = p[2] /\ r[3] = q[1]
    OBVIOUS
  <2> HIDE DEF T, p, q, r
  <2>3. Joined(p, q, r)
    BY <2>2 DEF Joined
  <2>4. p \o q = r
    BY <2>1, <2>3, JoinIs
  <2> QED BY <2>4 DEF p, q, r
<1>3. ASSUME NEW a, NEW b, NEW c, NEW d, NEW e, NEW f PROVE <<a, b, c, d, e>> \o <<f>> = <<a, b, c, d, e, f>>
  <2> DEFINE T == {a, b, c, d, e, f}
             p == <<a, b, c, d, e>>
             q == <<f>>
             r == <<a, b, c, d, e, f>>
  <2>1. p \in Seq(T) /\ q \in Seq(T) /\ r \in Seq(T)
    OBVIOUS
  <2>2. /\ Len(p) = 5 /\ Len(q) = 1 /\ Len(r) = 6 /\ r[1] = p[1] /\ r[2] = p[2] /\ r[3] = p[3]
        /\ r[4] = p[4] /\ r[5] = p[5] /\ r[6] = q[1]
    OBVIOUS
  <2> HIDE DEF T, p, q, r
  <2>3. Joined(p, q, r)
    BY <2>2 DEF Joined
  <2>4. p \o q = r
    BY <2>1, <2>3, JoinIs
  <2> QED BY <2>4 DEF p, q, r
<1> QED BY <1>1, <1>2, <1>3

\* The parts of short tuples.
LEMMA TupleParts ==
  /\ \A a : <<a>> # <<>> /\ Head(<<a>>) = a /\ Tail(<<a>>) = <<>>
  /\ \A a, b : <<a, b>> # <<>> /\ Head(<<a, b>>) = a /\ Tail(<<a, b>>) = <<b>>
  /\ \A a, b, c : <<a, b, c>> # <<>> /\ Head(<<a, b, c>>) = a /\ Tail(<<a, b, c>>) = <<b, c>>
  /\ \A a, b, c, d : <<a, b, c, d>> # <<>> /\ Head(<<a, b, c, d>>) = a /\ Tail(<<a, b, c, d>>) = <<b, c, d>>
  /\ \A a, b, c, d, e : <<a, b, c, d, e>> # <<>> /\ Head(<<a, b, c, d, e>>) = a /\ Tail(<<a, b, c, d, e>>) = <<b, c, d, e>>
  /\ \A a, b, c, d, e, f : <<a, b, c, d, e, f>> # <<>> /\ Head(<<a, b, c, d, e, f>>) = a /\ Tail(<<a, b, c, d, e, f>>) = <<b, c, d, e, f>>
<1>1. ASSUME NEW a PROVE <<a>> # <<>> /\ Head(<<a>>) = a /\ Tail(<<a>>) = <<>>
  <2>1. <<a>> # <<>>
    OBVIOUS
  <2>2. Head(<<a>>) = a
    OBVIOUS
  <2>3. Tail(<<a>>) = <<>>
    OBVIOUS
  <2> QED BY <2>1, <2>2, <2>3
<1>2. ASSUME NEW a, NEW b PROVE <<a, b>> # <<>> /\ Head(<<a, b>>) = a /\ Tail(<<a, b>>) = <<b>>
  <2>1. <<a, b>> # <<>>
    OBVIOUS
  <2>2. Head(<<a, b>>) = a
    OBVIOUS
  <2>3. Tail(<<a, b>>) = <<b>>
    OBVIOUS
  <2> QED BY <2>1, <2>2, <2>3
<1>3. ASSUME NEW a, NEW b, NEW c PROVE <<a, b, c>> # <<>> /\ Head(<<a, b, c>>) = a /\ Tail(<<a, b, c>>) = <<b, c>>
  <2>1. <<a, b, c>> # <<>>
    OBVIOUS
  <2>2. Head(<<a, b, c>>) = a
    OBVIOUS
  <2>3. Tail(<<a, b, c>>) = <<b, c>>
    OBVIOUS
  <2> QED BY <2>1, <2>2, <2>3
<1>4. ASSUME NEW a, NEW b, NEW c, NEW d PROVE <<a, b, c, d>> # <<>> /\ Head(<<a, b, c, d>>) = a /\ Tail(<<a, b, c, d>>) = <<b, c, d>>
  <2>1. <<a, b, c, d>> # <<>>
    OBVIOUS
  <2>2. Head(<<a, b, c, d>>) = a
    OBVIOUS
  <2>3. Tail(<<a, b, c, d>>) = <<b, c, d>>
    OBVIOUS
  <2> QED BY <2>1, <2>2, <2>3
<1>5. ASSUME NEW a, NEW b, NEW c, NEW d, NEW e PROVE <<a, b, c, d, e>> # <<>> /\ Head(<<a, b, c, d, e>>) = a /\ Tail(<<a, b, c, d, e>>) = <<b, c, d, e>>
  <2>1. <<a, b, c, d, e>> # <<>>
    OBVIOUS
  <2>2. Head(<<a, b, c, d, e>>) = a
    OBVIOUS
  <2>3. Tail(<<a, b, c, d, e>>) = <<b, c, d, e>>
    OBVIOUS
  <2> QED BY <2>1, <2>2, <2>3
<1>6. ASSUME NEW a, NEW b, NEW c, NEW d, NEW e, NEW f PROVE <<a, b, c, d, e, f>> # <<>> /\ Head(<<a, b, c, d, e, f>>) = a /\ Tail(<<a, b, c, d, e, f>>) = <<b, c, d, e, f>>
  <2>1. <<a, b, c, d, e, f>> # <<>>
    OBVIOUS
  <2>2. Head(<<a, b, c, d, e, f>>) = a
    OBVIOUS
  <2>3. Tail(<<a, b, c, d, e, f>>) = <<b, c, d, e, f>>
    OBVIOUS
  <2> QED BY <2>1, <2>2, <2>3
<1> QED BY <1>1, <1>2, <1>3, <1>4, <1>5, <1>6

\* The first call of each stage, and the stage after it.
Course(d, n, m) ==
  /\ \A k \in 0 .. 12 : Calls(k, d, n, m) # <<>>
  /\ \A k \in {1, 2, 4, 5, 7, 8, 9, 10, 11} : Tail(Calls(k, d, n, m)) = Calls(k + 1, d, n, m)
  /\ Tail(Calls(6, d, n, m)) = <<>> /\ Tail(Calls(12, d, n, m)) = <<>>
  /\ ProcessCalls(m) \o <<Plain("route")>> = Calls(7, d, n, m)
  /\ Head(Calls(0, d, n, m)) = Op("xfer", Buffer(d, "SHARC0", 0), "SHARC0")
  /\ Head(Calls(3, d, n, m)) = Op("xfer", Buffer(d, "SHARC1", 0), "SHARC1")
  /\ <<Ref(Buffer(d, "SHARC0", Sent(n))), Send(Buffer(d, "SHARC0", Sent(n)), "SHARC0")>>
       \o Tail(Calls(0, d, n, m)) = Calls(1, d, n, m)
  /\ <<Ref(Buffer(d, "SHARC1", Sent(n))), Send(Buffer(d, "SHARC1", Sent(n)), "SHARC1")>>
       \o Tail(Calls(3, d, n, m)) = Calls(4, d, n, m)
  /\ Head(Calls(2, d, n, m)) = Send(Buffer(d, "SHARC0", Sent(n)), "SHARC0")
  /\ Head(Calls(5, d, n, m)) = Send(Buffer(d, "SHARC1", Sent(n)), "SHARC1")
  /\ Head(Calls(8, d, n, m)) = Send(m, "SHARC0") /\ Head(Calls(10, d, n, m)) = Send(m, "SHARC1")
  /\ \A k \in {1, 4, 7, 9} : Head(Calls(k, d, n, m)).op = "ref"
  /\ Head(Calls(11, d, n, m)).op = "unref" /\ Head(Calls(6, d, n, m)).op = "domain"
  /\ Head(Calls(12, d, n, m)).op = "route"

\* What the lists of the stages are.
LEMMA StageLists == ASSUME NEW d, NEW n, NEW m PROVE Course(d, n, m)
<1> DEFINE x == Buffer(d, "SHARC0", Sent(n))
           y == Buffer(d, "SHARC1", Sent(n))
           w == Op("xfer", Buffer(d, "SHARC0", 0), "SHARC0")
           z == Op("xfer", Buffer(d, "SHARC1", 0), "SHARC1")
           o == Plain("domain")
           r == Plain("route")
<1>1. /\ Calls(0, d, n, m) = <<w, z, o>>
      /\ Calls(1, d, n, m) = <<Ref(x), Send(x, "SHARC0"), z, o>>
      /\ Calls(2, d, n, m) = <<Send(x, "SHARC0"), z, o>>
      /\ Calls(3, d, n, m) = <<z, o>>
      /\ Calls(4, d, n, m) = <<Ref(y), Send(y, "SHARC1"), o>>
      /\ Calls(5, d, n, m) = <<Send(y, "SHARC1"), o>>
      /\ Calls(6, d, n, m) = <<o>>
      /\ Calls(7, d, n, m) = <<Ref(m), Send(m, "SHARC0"), Ref(m), Send(m, "SHARC1"), Unref(m), r>>
      /\ Calls(8, d, n, m) = <<Send(m, "SHARC0"), Ref(m), Send(m, "SHARC1"), Unref(m), r>>
      /\ Calls(9, d, n, m) = <<Ref(m), Send(m, "SHARC1"), Unref(m), r>>
      /\ Calls(10, d, n, m) = <<Send(m, "SHARC1"), Unref(m), r>>
      /\ Calls(11, d, n, m) = <<Unref(m), r>>
      /\ Calls(12, d, n, m) = <<r>>
  <2>0. Calls(0, d, n, m) = <<w, z, o>>
    BY DEF Calls
  <2>1. Calls(1, d, n, m) = <<Ref(x), Send(x, "SHARC0"), z, o>>
    BY DEF Calls
  <2>2. Calls(2, d, n, m) = <<Send(x, "SHARC0"), z, o>>
    BY DEF Calls
  <2>3. Calls(3, d, n, m) = <<z, o>>
    BY DEF Calls
  <2>4. Calls(4, d, n, m) = <<Ref(y), Send(y, "SHARC1"), o>>
    BY DEF Calls
  <2>5. Calls(5, d, n, m) = <<Send(y, "SHARC1"), o>>
    BY DEF Calls
  <2>6. Calls(6, d, n, m) = <<o>>
    BY DEF Calls
  <2>7. Calls(7, d, n, m) = <<Ref(m), Send(m, "SHARC0"), Ref(m), Send(m, "SHARC1"), Unref(m), r>>
    BY DEF Calls
  <2>8. Calls(8, d, n, m) = <<Send(m, "SHARC0"), Ref(m), Send(m, "SHARC1"), Unref(m), r>>
    BY DEF Calls
  <2>9. Calls(9, d, n, m) = <<Ref(m), Send(m, "SHARC1"), Unref(m), r>>
    BY DEF Calls
  <2>10. Calls(10, d, n, m) = <<Send(m, "SHARC1"), Unref(m), r>>
    BY DEF Calls
  <2>11. Calls(11, d, n, m) = <<Unref(m), r>>
    BY DEF Calls
  <2>12. Calls(12, d, n, m) = <<r>>
    BY DEF Calls
  <2> QED BY <2>0, <2>1, <2>2, <2>3, <2>4, <2>5, <2>6, <2>7, <2>8, <2>9, <2>10, <2>11, <2>12
<1>2. /\ Ref(x).op = "ref" /\ Ref(y).op = "ref" /\ Ref(m).op = "ref" /\ Unref(m).op = "unref"
      /\ o.op = "domain" /\ r.op = "route"
  BY StartupLists DEF Ref, Unref, Op
<1> HIDE DEF x, y, w, z, o, r
<1>3. /\ Calls(0, d, n, m) # <<>> /\ Head(Calls(0, d, n, m)) = w /\ Tail(Calls(0, d, n, m)) = <<z, o>>
      /\ Calls(1, d, n, m) # <<>> /\ Head(Calls(1, d, n, m)) = Ref(x) /\ Tail(Calls(1, d, n, m)) = <<Send(x, "SHARC0"), z, o>>
      /\ Calls(2, d, n, m) # <<>> /\ Head(Calls(2, d, n, m)) = Send(x, "SHARC0") /\ Tail(Calls(2, d, n, m)) = <<z, o>>
      /\ Calls(3, d, n, m) # <<>> /\ Head(Calls(3, d, n, m)) = z /\ Tail(Calls(3, d, n, m)) = <<o>>
      /\ Calls(4, d, n, m) # <<>> /\ Head(Calls(4, d, n, m)) = Ref(y) /\ Tail(Calls(4, d, n, m)) = <<Send(y, "SHARC1"), o>>
      /\ Calls(5, d, n, m) # <<>> /\ Head(Calls(5, d, n, m)) = Send(y, "SHARC1") /\ Tail(Calls(5, d, n, m)) = <<o>>
      /\ Calls(6, d, n, m) # <<>> /\ Head(Calls(6, d, n, m)) = o /\ Tail(Calls(6, d, n, m)) = <<>>
      /\ Calls(7, d, n, m) # <<>> /\ Head(Calls(7, d, n, m)) = Ref(m) /\ Tail(Calls(7, d, n, m)) = <<Send(m, "SHARC0"), Ref(m), Send(m, "SHARC1"), Unref(m), r>>
      /\ Calls(8, d, n, m) # <<>> /\ Head(Calls(8, d, n, m)) = Send(m, "SHARC0") /\ Tail(Calls(8, d, n, m)) = <<Ref(m), Send(m, "SHARC1"), Unref(m), r>>
      /\ Calls(9, d, n, m) # <<>> /\ Head(Calls(9, d, n, m)) = Ref(m) /\ Tail(Calls(9, d, n, m)) = <<Send(m, "SHARC1"), Unref(m), r>>
      /\ Calls(10, d, n, m) # <<>> /\ Head(Calls(10, d, n, m)) = Send(m, "SHARC1") /\ Tail(Calls(10, d, n, m)) = <<Unref(m), r>>
      /\ Calls(11, d, n, m) # <<>> /\ Head(Calls(11, d, n, m)) = Unref(m) /\ Tail(Calls(11, d, n, m)) = <<r>>
      /\ Calls(12, d, n, m) # <<>> /\ Head(Calls(12, d, n, m)) = r /\ Tail(Calls(12, d, n, m)) = <<>>
  <2>0. Calls(0, d, n, m) # <<>> /\ Head(Calls(0, d, n, m)) = w /\ Tail(Calls(0, d, n, m)) = <<z, o>>
    <3>1. Calls(0, d, n, m) = <<w, z, o>>
      BY <1>1
    <3>2. <<w, z, o>> # <<>> /\ Head(<<w, z, o>>) = w /\ Tail(<<w, z, o>>) = <<z, o>>
      BY TupleParts
    <3> QED BY <3>1, <3>2
  <2>1. Calls(1, d, n, m) # <<>> /\ Head(Calls(1, d, n, m)) = Ref(x) /\ Tail(Calls(1, d, n, m)) = <<Send(x, "SHARC0"), z, o>>
    <3>1. Calls(1, d, n, m) = <<Ref(x), Send(x, "SHARC0"), z, o>>
      BY <1>1
    <3>2. <<Ref(x), Send(x, "SHARC0"), z, o>> # <<>> /\ Head(<<Ref(x), Send(x, "SHARC0"), z, o>>) = Ref(x) /\ Tail(<<Ref(x), Send(x, "SHARC0"), z, o>>) = <<Send(x, "SHARC0"), z, o>>
      BY TupleParts
    <3> QED BY <3>1, <3>2
  <2>2. Calls(2, d, n, m) # <<>> /\ Head(Calls(2, d, n, m)) = Send(x, "SHARC0") /\ Tail(Calls(2, d, n, m)) = <<z, o>>
    <3>1. Calls(2, d, n, m) = <<Send(x, "SHARC0"), z, o>>
      BY <1>1
    <3>2. <<Send(x, "SHARC0"), z, o>> # <<>> /\ Head(<<Send(x, "SHARC0"), z, o>>) = Send(x, "SHARC0") /\ Tail(<<Send(x, "SHARC0"), z, o>>) = <<z, o>>
      BY TupleParts
    <3> QED BY <3>1, <3>2
  <2>3. Calls(3, d, n, m) # <<>> /\ Head(Calls(3, d, n, m)) = z /\ Tail(Calls(3, d, n, m)) = <<o>>
    <3>1. Calls(3, d, n, m) = <<z, o>>
      BY <1>1
    <3>2. <<z, o>> # <<>> /\ Head(<<z, o>>) = z /\ Tail(<<z, o>>) = <<o>>
      BY TupleParts
    <3> QED BY <3>1, <3>2
  <2>4. Calls(4, d, n, m) # <<>> /\ Head(Calls(4, d, n, m)) = Ref(y) /\ Tail(Calls(4, d, n, m)) = <<Send(y, "SHARC1"), o>>
    <3>1. Calls(4, d, n, m) = <<Ref(y), Send(y, "SHARC1"), o>>
      BY <1>1
    <3>2. <<Ref(y), Send(y, "SHARC1"), o>> # <<>> /\ Head(<<Ref(y), Send(y, "SHARC1"), o>>) = Ref(y) /\ Tail(<<Ref(y), Send(y, "SHARC1"), o>>) = <<Send(y, "SHARC1"), o>>
      BY TupleParts
    <3> QED BY <3>1, <3>2
  <2>5. Calls(5, d, n, m) # <<>> /\ Head(Calls(5, d, n, m)) = Send(y, "SHARC1") /\ Tail(Calls(5, d, n, m)) = <<o>>
    <3>1. Calls(5, d, n, m) = <<Send(y, "SHARC1"), o>>
      BY <1>1
    <3>2. <<Send(y, "SHARC1"), o>> # <<>> /\ Head(<<Send(y, "SHARC1"), o>>) = Send(y, "SHARC1") /\ Tail(<<Send(y, "SHARC1"), o>>) = <<o>>
      BY TupleParts
    <3> QED BY <3>1, <3>2
  <2>6. Calls(6, d, n, m) # <<>> /\ Head(Calls(6, d, n, m)) = o /\ Tail(Calls(6, d, n, m)) = <<>>
    <3>1. Calls(6, d, n, m) = <<o>>
      BY <1>1
    <3>2. <<o>> # <<>> /\ Head(<<o>>) = o /\ Tail(<<o>>) = <<>>
      BY TupleParts
    <3> QED BY <3>1, <3>2
  <2>7. Calls(7, d, n, m) # <<>> /\ Head(Calls(7, d, n, m)) = Ref(m) /\ Tail(Calls(7, d, n, m)) = <<Send(m, "SHARC0"), Ref(m), Send(m, "SHARC1"), Unref(m), r>>
    <3>1. Calls(7, d, n, m) = <<Ref(m), Send(m, "SHARC0"), Ref(m), Send(m, "SHARC1"), Unref(m), r>>
      BY <1>1
    <3>2. <<Ref(m), Send(m, "SHARC0"), Ref(m), Send(m, "SHARC1"), Unref(m), r>> # <<>> /\ Head(<<Ref(m), Send(m, "SHARC0"), Ref(m), Send(m, "SHARC1"), Unref(m), r>>) = Ref(m) /\ Tail(<<Ref(m), Send(m, "SHARC0"), Ref(m), Send(m, "SHARC1"), Unref(m), r>>) = <<Send(m, "SHARC0"), Ref(m), Send(m, "SHARC1"), Unref(m), r>>
      BY TupleParts
    <3> QED BY <3>1, <3>2
  <2>8. Calls(8, d, n, m) # <<>> /\ Head(Calls(8, d, n, m)) = Send(m, "SHARC0") /\ Tail(Calls(8, d, n, m)) = <<Ref(m), Send(m, "SHARC1"), Unref(m), r>>
    <3>1. Calls(8, d, n, m) = <<Send(m, "SHARC0"), Ref(m), Send(m, "SHARC1"), Unref(m), r>>
      BY <1>1
    <3>2. <<Send(m, "SHARC0"), Ref(m), Send(m, "SHARC1"), Unref(m), r>> # <<>> /\ Head(<<Send(m, "SHARC0"), Ref(m), Send(m, "SHARC1"), Unref(m), r>>) = Send(m, "SHARC0") /\ Tail(<<Send(m, "SHARC0"), Ref(m), Send(m, "SHARC1"), Unref(m), r>>) = <<Ref(m), Send(m, "SHARC1"), Unref(m), r>>
      BY TupleParts
    <3> QED BY <3>1, <3>2
  <2>9. Calls(9, d, n, m) # <<>> /\ Head(Calls(9, d, n, m)) = Ref(m) /\ Tail(Calls(9, d, n, m)) = <<Send(m, "SHARC1"), Unref(m), r>>
    <3>1. Calls(9, d, n, m) = <<Ref(m), Send(m, "SHARC1"), Unref(m), r>>
      BY <1>1
    <3>2. <<Ref(m), Send(m, "SHARC1"), Unref(m), r>> # <<>> /\ Head(<<Ref(m), Send(m, "SHARC1"), Unref(m), r>>) = Ref(m) /\ Tail(<<Ref(m), Send(m, "SHARC1"), Unref(m), r>>) = <<Send(m, "SHARC1"), Unref(m), r>>
      BY TupleParts
    <3> QED BY <3>1, <3>2
  <2>10. Calls(10, d, n, m) # <<>> /\ Head(Calls(10, d, n, m)) = Send(m, "SHARC1") /\ Tail(Calls(10, d, n, m)) = <<Unref(m), r>>
    <3>1. Calls(10, d, n, m) = <<Send(m, "SHARC1"), Unref(m), r>>
      BY <1>1
    <3>2. <<Send(m, "SHARC1"), Unref(m), r>> # <<>> /\ Head(<<Send(m, "SHARC1"), Unref(m), r>>) = Send(m, "SHARC1") /\ Tail(<<Send(m, "SHARC1"), Unref(m), r>>) = <<Unref(m), r>>
      BY TupleParts
    <3> QED BY <3>1, <3>2
  <2>11. Calls(11, d, n, m) # <<>> /\ Head(Calls(11, d, n, m)) = Unref(m) /\ Tail(Calls(11, d, n, m)) = <<r>>
    <3>1. Calls(11, d, n, m) = <<Unref(m), r>>
      BY <1>1
    <3>2. <<Unref(m), r>> # <<>> /\ Head(<<Unref(m), r>>) = Unref(m) /\ Tail(<<Unref(m), r>>) = <<r>>
      BY TupleParts
    <3> QED BY <3>1, <3>2
  <2>12. Calls(12, d, n, m) # <<>> /\ Head(Calls(12, d, n, m)) = r /\ Tail(Calls(12, d, n, m)) = <<>>
    <3>1. Calls(12, d, n, m) = <<r>>
      BY <1>1
    <3>2. <<r>> # <<>> /\ Head(<<r>>) = r /\ Tail(<<r>>) = <<>>
      BY TupleParts
    <3> QED BY <3>1, <3>2
  <2> QED BY <2>0, <2>1, <2>2, <2>3, <2>4, <2>5, <2>6, <2>7, <2>8, <2>9, <2>10, <2>11, <2>12
<1>4. \A k \in 0 .. 12 : Calls(k, d, n, m) # <<>>
  <2>1. \A k \in 0 .. 12 : k = 0 \/ k = 1 \/ k = 2 \/ k = 3 \/ k = 4 \/ k = 5 \/ k = 6 \/ k = 7 \/ k = 8
                           \/ k = 9 \/ k = 10 \/ k = 11 \/ k = 12
    OBVIOUS
  <2> QED BY <1>3, <2>1
<1>5. \A k \in {1, 2, 4, 5, 7, 8, 9, 10, 11} : Tail(Calls(k, d, n, m)) = Calls(k + 1, d, n, m)
  <2>1. Tail(Calls(1, d, n, m)) = Calls(2, d, n, m)
    BY <1>1, <1>3
  <2>2. Tail(Calls(2, d, n, m)) = Calls(3, d, n, m)
    BY <1>1, <1>3
  <2>3. Tail(Calls(4, d, n, m)) = Calls(5, d, n, m)
    BY <1>1, <1>3
  <2>4. Tail(Calls(5, d, n, m)) = Calls(6, d, n, m)
    BY <1>1, <1>3
  <2>5. Tail(Calls(7, d, n, m)) = Calls(8, d, n, m)
    BY <1>1, <1>3
  <2>6. Tail(Calls(8, d, n, m)) = Calls(9, d, n, m)
    BY <1>1, <1>3
  <2>7. Tail(Calls(9, d, n, m)) = Calls(10, d, n, m)
    BY <1>1, <1>3
  <2>8. Tail(Calls(10, d, n, m)) = Calls(11, d, n, m)
    BY <1>1, <1>3
  <2>9. Tail(Calls(11, d, n, m)) = Calls(12, d, n, m)
    BY <1>1, <1>3
  <2>10. \A k \in {1, 2, 4, 5, 7, 8, 9, 10, 11} :
          \/ k = 1 /\ k + 1 = 2
          \/ k = 2 /\ k + 1 = 3
          \/ k = 4 /\ k + 1 = 5
          \/ k = 5 /\ k + 1 = 6
          \/ k = 7 /\ k + 1 = 8
          \/ k = 8 /\ k + 1 = 9
          \/ k = 9 /\ k + 1 = 10
          \/ k = 10 /\ k + 1 = 11
          \/ k = 11 /\ k + 1 = 12
    OBVIOUS
  <2>11. ASSUME NEW k, NEW j,
                \/ k = 1 /\ j = 2
                \/ k = 2 /\ j = 3
                \/ k = 4 /\ j = 5
                \/ k = 5 /\ j = 6
                \/ k = 7 /\ j = 8
                \/ k = 8 /\ j = 9
                \/ k = 9 /\ j = 10
                \/ k = 10 /\ j = 11
                \/ k = 11 /\ j = 12
         PROVE  Tail(Calls(k, d, n, m)) = Calls(j, d, n, m)
    BY <2>1, <2>2, <2>3, <2>4, <2>5, <2>6, <2>7, <2>8, <2>9, <2>11, Zenon
  <2> QED BY <2>10, <2>11
<1>6. /\ <<Ref(x), Send(x, "SHARC0")>> \o Tail(Calls(0, d, n, m)) = Calls(1, d, n, m)
      /\ <<Ref(y), Send(y, "SHARC1")>> \o Tail(Calls(3, d, n, m)) = Calls(4, d, n, m)
  <2>1. <<Ref(x), Send(x, "SHARC0")>> \o Tail(Calls(0, d, n, m)) = Calls(1, d, n, m)
    <3>1. <<Ref(x), Send(x, "SHARC0")>> \o <<z, o>> = <<Ref(x), Send(x, "SHARC0"), z, o>>
      BY TupleJoins
    <3> QED BY <1>1, <1>3, <3>1
  <2>2. <<Ref(y), Send(y, "SHARC1")>> \o Tail(Calls(3, d, n, m)) = Calls(4, d, n, m)
    <3>1. <<Ref(y), Send(y, "SHARC1")>> \o <<o>> = <<Ref(y), Send(y, "SHARC1"), o>>
      BY TupleJoins
    <3> QED BY <1>1, <1>3, <3>1
  <2> QED BY <2>1, <2>2
<1>7. ProcessCalls(m) \o <<r>> = Calls(7, d, n, m)
  <2>1. ProcessCalls(m) = <<Ref(m), Send(m, "SHARC0"), Ref(m), Send(m, "SHARC1"), Unref(m)>>
    BY DEF ProcessCalls
  <2>2. <<Ref(m), Send(m, "SHARC0"), Ref(m), Send(m, "SHARC1"), Unref(m)>> \o <<r>>
          = <<Ref(m), Send(m, "SHARC0"), Ref(m), Send(m, "SHARC1"), Unref(m), r>>
    BY TupleJoins
  <2> QED BY <1>1, <2>1, <2>2
<1>8. \A k \in {1, 4, 7, 9} : Head(Calls(k, d, n, m)).op = "ref"
  BY <1>2, <1>3
<1>9. /\ Tail(Calls(6, d, n, m)) = <<>> /\ Tail(Calls(12, d, n, m)) = <<>>
      /\ Head(Calls(11, d, n, m)).op = "unref" /\ Head(Calls(6, d, n, m)).op = "domain"
      /\ Head(Calls(12, d, n, m)).op = "route"
  BY <1>2, <1>3
<1>10. /\ Head(Calls(0, d, n, m)) = w /\ Head(Calls(3, d, n, m)) = z
       /\ Head(Calls(2, d, n, m)) = Send(x, "SHARC0") /\ Head(Calls(5, d, n, m)) = Send(y, "SHARC1")
       /\ Head(Calls(8, d, n, m)) = Send(m, "SHARC0") /\ Head(Calls(10, d, n, m)) = Send(m, "SHARC1")
  BY <1>3
<1> QED BY <1>4, <1>5, <1>6, <1>7, <1>8, <1>9, <1>10 DEF Course, x, y, w, z, r

\* The stages at which something is done for s.
SwapAt(s) == IF s = "SHARC0" THEN 0 ELSE 3
SendAt(s) == IF s = "SHARC0" THEN 2 ELSE 5
TellAt(s) == IF s = "SHARC0" THEN 8 ELSE 10

\* What the change from a stage to the next does.
LEMMA StageChanges ==
  ASSUME NEW s \in Sharcs, NEW d, NEW k \in 0 .. 11, k # 6
  PROVE  /\ Telling(k + 1) = Telling(k) /\ (Telling(k) <=> k >= 7)
         /\ k # SwapAt(s) => Swapped(k + 1, d, s) = Swapped(k, d, s)
         /\ k # SendAt(s) => SentDirs(k + 1, d, s) = SentDirs(k, d, s)
         /\ k # TellAt(s) => Told(k + 1, s) = Told(k, s)
         /\ k = SwapAt(s) => Swapped(k, d, s) = Arrived \ {d} /\ Swapped(k + 1, d, s) = Arrived
         /\ k = SendAt(s) => SentDirs(k, d, s) = Arrived \ {d} /\ SentDirs(k + 1, d, s) = Arrived
         /\ k = TellAt(s) => Telling(k) /\ ~Told(k, s) /\ Told(k + 1, s) /\ SentDirs(k, d, s) = Dirs
         /\ ~Telling(k) => ~Told(k, s) /\ ~Told(k + 1, s)
         /\ Told(k, s) => Told(k + 1, s)
<1>1. CASE s = "SHARC0"
  BY <1>1 DEF Telling, Swapped, SentDirs, Told, At, SwapAt, SendAt, TellAt
<1>2. CASE s = "SHARC1"
  BY <1>2 DEF Telling, Swapped, SentDirs, Told, At, SwapAt, SendAt, TellAt
<1> QED BY <1>1, <1>2, Threads

\* The ARM's interrupt goes on: it begins no call of a SHARC.
LEMMA ArmIrqGoes ==
  ASSUME AudioInv, todo[ArmIrq] # <<>>, NEW then \in Seq(Call), Continue(ArmIrq, then),
         \A x \in Elements(then) : x.op \notin Audible,
         ready' = ready, Head(todo[ArmIrq]).op # "initialize"
  PROVE  /\ Talk' /\ Prepared'
         /\ todo'[ArmIrq] = then \o Tail(todo[ArmIrq]) /\ \A u \in Thread \ {ArmIrq} : todo'[u] = todo[u]
         /\ \A s \in Sharcs : Doing(s)' = Doing(s)
<1> DEFINE l == then \o Tail(todo[ArmIrq])
<1>1. /\ ArmIrq \in Thread /\ \A s \in Sharcs : <<s, "irq">> \in Thread \ {ArmIrq}
  BY Threads DEF ArmIrq, Thread
<1>2. todo \in [Thread -> Seq(Call)] /\ todo[ArmIrq] \in Seq(Call) /\ Talk /\ IndInv /\ Prepared
  BY <1>1 DEF AudioInv, Basics, IndInv, Types
<1>3. /\ Tail(todo[ArmIrq]) \in Seq(Call)
      /\ \A i \in 1 .. Len(Tail(todo[ArmIrq])) : Tail(todo[ArmIrq])[i] = todo[ArmIrq][i + 1] /\ i + 1 \in 2 .. Len(todo[ArmIrq])
  BY <1>2, TailOfCalls
<1>4. l \in Seq(Call) /\ Elements(l) \subseteq Elements(then) \cup Elements(todo[ArmIrq])
  BY <1>2, <1>3, GoesOn, BothLists
<1>5. todo' = [todo EXCEPT ![ArmIrq] = l]
  BY <1>1, <1>2 DEF Continue
<1>6. todo'[ArmIrq] = l /\ \A u \in Thread \ {ArmIrq} : todo'[u] = todo[u]
  BY <1>1, <1>2, <1>4, <1>5
<1> HIDE DEF l
<1>7. \A x : x.op \notin Audible => Quiet(ArmIrq, x)
  BY DEF Quiet, Audible
<1>8. \A u \in Thread : \A x \in Elements(todo'[u]) : Quiet(u, x)
  BY <1>2, <1>4, <1>6, <1>7 DEF Talk
<1>9. Talk'
  <2>1. \A u \in Thread : \A x \in Elements(todo[u])' : Quiet(u, x)
    BY <1>8 DEF Elements
  <2>2. \A s \in Sharcs : \A i \in 2 .. Len(todo'[<<s, "irq">>]) : todo'[<<s, "irq">>][i].op \notin Audible
    BY <1>1, <1>2, <1>6 DEF Talk
  <2> QED BY <2>1, <2>2 DEF Talk
<1>10. \A s \in Sharcs : Doing(s)' = Doing(s)
  BY <1>1, <1>6 DEF Doing
<1>11. Prepared'
  BY <1>1, <1>2, PreparedStays
<1> QED BY <1>6, <1>9, <1>10, <1>11 DEF l

\* The ARM's interrupt goes on, and the invariant is kept if the stage is.
LEMMA ArmKeeps ==
  ASSUME AudioInv, IndInv', todo[ArmIrq] # <<>>, NEW then \in Seq(Call), Continue(ArmIrq, then),
         \A x \in Elements(then) : x.op \notin Audible,
         UNCHANGED <<ready, running>>, Head(todo[ArmIrq]).op # "initialize",
         AudioTypes', Silence', BlocksReturn', Staged'
  PROVE  AudioInv'
BY ArmIrqGoes DEF AudioInv, Basics

\* The stage tells the call, and the call the stage.
StageOf(k, d, m, x) ==
  \/ k = 13 /\ x.op \in {"heard", "unref"}
  \/ k \in {1, 4, 7, 9} /\ x.op = "ref"
  \/ k = 11 /\ x.op = "unref"
  \/ k = 6 /\ x.op = "domain"
  \/ k = 12 /\ x.op = "route"
  \/ \E s \in Sharcs : k = SwapAt(s) /\ x = Op("xfer", Buffer(d, s, 0), s) /\ x.op = "xfer"
  \/ \E s \in Sharcs : k = SendAt(s) /\ x = Send(Buffer(d, s, Sent(block)), s) /\ x.op = "send"
  \/ \E s \in Sharcs : k = TellAt(s) /\ x = Send(m, s) /\ x.op = "send"

\* The stage and the first call of the list.
LEMMA HeadStage ==
  ASSUME IndInv, todo[ArmIrq] # <<>>, NEW k \in 0 .. 13, NEW d, NEW m, Phase(k, d, m)
  PROVE  StageOf(k, d, m, Head(todo[ArmIrq]))
<1>1. PICK x : x = Head(todo[ArmIrq])
  OBVIOUS
<1>2. CASE k = 13
  <2>1. x \in Elements(todo[ArmIrq])
    <3>1. ArmIrq \in Thread
      BY Threads DEF ArmIrq
    <3>2. todo[ArmIrq] \in Seq(Call)
      BY <3>1 DEF IndInv, Types
    <3> QED BY <1>1, <3>1, <3>2, HeadIsProper
  <2>2. x.op \in {"heard", "unref"}
    BY <1>2, <2>1 DEF Phase, Listed
  <2> QED BY <1>1, <1>2, <2>2 DEF StageOf
<1>3. CASE k \in 0 .. 12
  <2>0. Course(d, block, m)
    BY StageLists
  <2>1. x = Head(Calls(k, d, block, m))
    BY <1>1, <1>3 DEF Phase, Listed
  <2>2. /\ \A b, c : Send(b, c).op = "send" /\ Op("xfer", b, c).op = "xfer"
        /\ "SHARC0" \in Sharcs /\ "SHARC1" \in Sharcs /\ "SHARC0" # "SHARC1"
    BY DEF Send, Op, Sharcs
  <2>3. \/ k \in {1, 4, 7, 9}
        \/ k = 6
        \/ k = 11
        \/ k = 12
        \/ k = SwapAt("SHARC0") /\ k = 0
        \/ k = SwapAt("SHARC1") /\ k = 3
        \/ k = SendAt("SHARC0") /\ k = 2
        \/ k = SendAt("SHARC1") /\ k = 5
        \/ k = TellAt("SHARC0") /\ k = 8
        \/ k = TellAt("SHARC1") /\ k = 10
    BY <1>3 DEF SwapAt, SendAt, TellAt
  <2>4. /\ k \in {1, 4, 7, 9} => x.op = "ref"
        /\ k = 6 => x.op = "domain"
        /\ k = 11 => x.op = "unref"
        /\ k = 12 => x.op = "route"
    <3>1. \A j \in {1, 4, 7, 9} : Head(Calls(j, d, block, m)).op = "ref"
      BY <2>0 DEF Course
    <3>2. /\ Head(Calls(11, d, block, m)).op = "unref" /\ Head(Calls(6, d, block, m)).op = "domain"
          /\ Head(Calls(12, d, block, m)).op = "route"
      BY <2>0 DEF Course
    <3> QED BY <2>1, <3>1, <3>2
  <2>5. /\ k = 0 => x = Op("xfer", Buffer(d, "SHARC0", 0), "SHARC0")
        /\ k = 3 => x = Op("xfer", Buffer(d, "SHARC1", 0), "SHARC1")
    <3>1. Head(Calls(0, d, block, m)) = Op("xfer", Buffer(d, "SHARC0", 0), "SHARC0") /\ Head(Calls(3, d, block, m)) = Op("xfer", Buffer(d, "SHARC1", 0), "SHARC1")
      BY <2>0 DEF Course
    <3> QED BY <2>1, <3>1
  <2>6. /\ k = 2 => x = Send(Buffer(d, "SHARC0", Sent(block)), "SHARC0")
        /\ k = 5 => x = Send(Buffer(d, "SHARC1", Sent(block)), "SHARC1")
    <3>1. Head(Calls(2, d, block, m)) = Send(Buffer(d, "SHARC0", Sent(block)), "SHARC0") /\ Head(Calls(5, d, block, m)) = Send(Buffer(d, "SHARC1", Sent(block)), "SHARC1")
      BY <2>0 DEF Course
    <3> QED BY <2>1, <3>1
  <2>7. /\ k = 8 => x = Send(m, "SHARC0")
        /\ k = 10 => x = Send(m, "SHARC1")
    <3>1. Head(Calls(8, d, block, m)) = Send(m, "SHARC0") /\ Head(Calls(10, d, block, m)) = Send(m, "SHARC1")
      BY <2>0 DEF Course
    <3> QED BY <2>1, <3>1
  <2>8. StageOf(k, d, m, x)
    <3>1. CASE k \in {1, 4, 7, 9} \/ k = 6 \/ k = 11 \/ k = 12
      BY <2>4, <3>1 DEF StageOf
    <3>2. CASE k = SwapAt("SHARC0") /\ k = 0
      BY <2>2, <2>5, <3>2 DEF StageOf
    <3>3. CASE k = SwapAt("SHARC1") /\ k = 3
      BY <2>2, <2>5, <3>3 DEF StageOf
    <3>4. CASE k = SendAt("SHARC0") /\ k = 2
      BY <2>2, <2>6, <3>4 DEF StageOf
    <3>5. CASE k = SendAt("SHARC1") /\ k = 5
      BY <2>2, <2>6, <3>5 DEF StageOf
    <3>6. CASE k = TellAt("SHARC0") /\ k = 8
      BY <2>2, <2>7, <3>6 DEF StageOf
    <3>7. CASE k = TellAt("SHARC1") /\ k = 10
      BY <2>2, <2>7, <3>7 DEF StageOf
    <3> QED BY <2>3, <3>1, <3>2, <3>3, <3>4, <3>5, <3>6, <3>7
  <2> QED BY <1>1, <2>8
<1>4. k = 13 \/ k \in 0 .. 12
  OBVIOUS
<1> QED BY <1>2, <1>3, <1>4

\* The interrupt goes on to the next stage.
LEMMA ArmAdvance ==
  ASSUME NEW k \in 0 .. 11, k # 6, NEW d, NEW m, Phase(k, d, m),
         active' = active, block' = block, todo'[ArmIrq] = Calls(k + 1, d, block, m),
         \A s \in Sharcs : /\ Pair(k + 1, d, s)' /\ LineIs(k + 1, d, s)'
                           /\ Mark \in Items(LineAt(s))' => Mark \in Items(LineAt(s)) \/ Told(k + 1, s)
  PROVE  Phase(k + 1, d, m)'
<1>1. Arrived' = Arrived
  BY DEF Arrived
<1>2. Listed(k + 1, d, m)'
  <2>1. Listed(k, d, m)
    BY DEF Phase
  <2>2. /\ k + 1 \in 0 .. 12 /\ (k + 1 <= 6 => k <= 6) /\ (k + 1 >= 7 => k >= 7) /\ k # 13 
    OBVIOUS
  <2> QED BY <1>1, <2>1, <2>2 DEF Listed
<1>3. ASSUME NEW s \in Sharcs PROVE InTime(k + 1, s)'
  <2>1. InTime(k, s)
    BY DEF Phase
  <2>2. Telling(k + 1) = Telling(k) /\ (Told(k, s) => Told(k + 1, s))
    BY StageChanges
  <2> QED BY <1>1, <2>1, <2>2 DEF InTime
<1> QED BY <1>2, <1>3 DEF Phase

\* A stage that does nothing to the pairs of s, or to its line.
LEMMA PairSame ==
  ASSUME NEW k \in 0 .. 11, k # 6, NEW d, NEW s \in Sharcs, Pair(k, d, s), k # SwapAt(s),
         UNCHANGED <<active, block>>, \A e \in Dirs : pp'[e][s] = pp[e][s] /\ stream'[e][s] = stream[e][s]
  PROVE  Pair(k + 1, d, s)'
<1>1. Swapped(k + 1, d, s)' = Swapped(k, d, s)
  <2>1. Swapped(k + 1, d, s)' = Swapped(k + 1, d, s)
    BY DEF Swapped, Arrived
  <2> QED BY <2>1, StageChanges
<1> QED BY <1>1 DEF Pair

\* A line that only the stage changes around.
LEMMA LineUntouched ==
  ASSUME NEW k \in 0 .. 11, k # 6, NEW d, NEW s \in Sharcs, LineIs(k, d, s), k \notin {SendAt(s), TellAt(s)},
         LineAt(s)' = LineAt(s), UNCHANGED <<active, block, info, data>>
  PROVE  LineIs(k + 1, d, s)'
<1>1. SentDirs(k + 1, d, s)' = SentDirs(k, d, s) /\ Told(k + 1, s) = Told(k, s)
  <2>1. SentDirs(k + 1, d, s)' = SentDirs(k + 1, d, s)
    BY DEF SentDirs, Arrived
  <2> QED BY <2>1, StageChanges
<1> QED BY <1>1 DEF LineIs

\* At rest the interrupt stays at rest.
LEMMA RestKeeps ==
  ASSUME AudioInv, NEW d \in Dirs, NEW m \in Msg, Phase(13, d, m),
         UNCHANGED <<active, pp, stream, block>>,
         \A x \in Elements(todo[ArmIrq])' : x.op \in {"heard", "unref"},
         \A s \in Sharcs : LineAt(s)' = LineAt(s) \/ LineKept(s), UNCHANGED <<info, data>>
  PROVE  Staged'
<1>1. AudioTypes
  BY DEF AudioInv, Basics
<1>2. Listed(13, d, m)'
  <2>1. Arrived' = Arrived /\ ~(13 \in 0 .. 12)
    BY DEF Arrived
  <2> QED BY <2>1 DEF Phase, Listed
<1>3. \A s \in Sharcs : LineKept(s)
  BY <1>1, LineSame DEF AudioTypes
<1>4. Phase(13, d, m)'
  BY <1>1, <1>2, <1>3, LinesKeepPhase DEF AudioTypes
<1> QED BY <1>4 DEF Staged

\* A step of the ARM's interrupt that takes a reference, gives one back or
\* hears of a SHARC.
LEMMA ArmNothing ==
  ASSUME AudioInv, IndInv', todo[ArmIrq] # <<>>, Head(todo[ArmIrq]).op \in {"ref", "unref", "heard"},
         Continue(ArmIrq, <<>>), UNCHANGED <<queue, ready, running, appVars>>
  PROVE  AudioInv'
<1> DEFINE op == Head(todo[ArmIrq])
<1>1. IndInv /\ AudioTypes /\ Silence /\ BlocksReturn
  BY DEF AudioInv, Basics
<1>2. UNCHANGED <<queue, active, pp, stream, got, block, info, data>>
  BY DEF appVars, armVars
<1>3. ArmIrq \in Thread /\ todo[ArmIrq] \in Seq(Call) /\ Tail(todo[ArmIrq]) \in Seq(Call)
  <2>1. ArmIrq \in Thread
    BY Threads DEF ArmIrq
  <2>2. todo[ArmIrq] \in Seq(Call)
    BY <1>1, <2>1 DEF IndInv, Types
  <2> QED BY <2>1, <2>2, TailOfCalls
<1>4. /\ todo'[ArmIrq] = Tail(todo[ArmIrq]) /\ \A s \in Sharcs : Doing(s)' = Doing(s)
      /\ Elements(Tail(todo[ArmIrq])) \subseteq Elements(todo[ArmIrq])
  <2>1. op.op # "initialize"
    OBVIOUS
  <2>2. todo'[ArmIrq] = <<>> \o Tail(todo[ArmIrq]) /\ \A s \in Sharcs : Doing(s)' = Doing(s)
    BY <1>2, <2>1, EmptyList, ArmIrqGoes
  <2>3. <<>> \o Tail(todo[ArmIrq]) = Tail(todo[ArmIrq])
    BY <1>3
  <2>4. Elements(<<>> \o Tail(todo[ArmIrq])) \subseteq Elements(<<>>) \cup Elements(todo[ArmIrq])
    BY <1>3, EmptyList, GoesOn
  <2> QED BY <2>2, <2>3, <2>4, EmptyList
<1>5. \A s \in Sharcs : LineAt(s)' = LineAt(s)
  BY <1>2, <1>4 DEF LineAt
<1>6. PICK k \in 0 .. 13, d \in Dirs, m \in Msg : Phase(k, d, m)
  BY DEF AudioInv, Staged
<1>7. \/ k = 13 /\ \A x \in Elements(todo[ArmIrq]) : x.op \in {"heard", "unref"}
      \/ k \in {1, 4, 7, 9, 11} /\ todo[ArmIrq] = Calls(k, d, block, m)
  <2>1. StageOf(k, d, m, op)
    BY <1>1, <1>6, HeadStage
  <2>2. Listed(k, d, m)
    BY <1>6 DEF Phase
  <2>3. k = 13 \/ k \in {1, 4, 7, 9, 11}
    BY <2>1 DEF StageOf
  <2> QED BY <2>2, <2>3 DEF Listed
<1>8. ASSUME k = 13, \A x \in Elements(todo[ArmIrq]) : x.op \in {"heard", "unref"} PROVE Staged'
  <2>1. \A x \in Elements(todo[ArmIrq])' : x.op \in {"heard", "unref"}
    <3>1. \A x \in Elements(todo'[ArmIrq]) : x.op \in {"heard", "unref"}
      BY <1>4, <1>8
    <3> QED BY <3>1 DEF Elements
  <2>2. Phase(13, d, m)
    BY <1>6, <1>8
  <2> QED BY <1>2, <1>5, <2>1, <2>2, RestKeeps
<1>9. ASSUME k \in {1, 4, 7, 9, 11}, todo[ArmIrq] = Calls(k, d, block, m) PROVE Staged'
  <2>1. k \in 0 .. 11 /\ k # 6 /\ k + 1 \in 0 .. 13 /\ k \in {1, 2, 4, 5, 7, 8, 9, 10, 11}
    BY <1>9
  <2>2. todo'[ArmIrq] = Calls(k + 1, d, block, m)
    <3>1. Course(d, block, m)
      BY StageLists
    <3>2. Tail(Calls(k, d, block, m)) = Calls(k + 1, d, block, m)
      BY <2>1, <3>1 DEF Course
    <3> QED BY <1>4, <1>9, <3>2
  <2>3. ASSUME NEW s \in Sharcs
        PROVE  /\ Pair(k + 1, d, s)' /\ LineIs(k + 1, d, s)'
               /\ Mark \in Items(LineAt(s))' => Mark \in Items(LineAt(s))
    <3>1. k \notin {SwapAt(s), SendAt(s), TellAt(s)}
      BY <1>9 DEF SwapAt, SendAt, TellAt
    <3>2. Pair(k, d, s) /\ LineIs(k, d, s)
      BY <1>6 DEF Phase
    <3>3. Pair(k + 1, d, s)'
      BY <1>2, <2>1, <3>1, <3>2, PairSame
    <3>4. LineIs(k + 1, d, s)'
      BY <1>2, <1>5, <2>1, <3>1, <3>2, LineUntouched
    <3>5. Items(LineAt(s))' = Items(LineAt(s))
      BY <1>5 DEF Items
    <3> QED BY <3>3, <3>4, <3>5
  <2>4. Phase(k + 1, d, m)'
    BY <1>2, <1>6, <2>1, <2>2, <2>3, ArmAdvance
  <2>5. PICK j \in 0 .. 13 : j = k + 1
    BY <2>1
  <2>6. Phase(j, d, m)'
    BY <2>4, <2>5
  <2> QED BY <2>6 DEF Staged
<1>10. Staged'
  BY <1>7, <1>8, <1>9
<1>11. AudioTypes' /\ Silence' /\ BlocksReturn'
  BY <1>1, <1>2 DEF AudioTypes, Silence, BlocksReturn
<1>12. op.op # "initialize" /\ UNCHANGED <<ready, running>>
  OBVIOUS
<1> QED BY <1>10, <1>11, <1>12, EmptyList, ArmKeeps

-----------------------------------------------------------------------------
(* The steps of the ARM's interrupt *)

\* xferSharcAudio: the ARM swaps the buffers of a pair.
LEMMA XferStep ==
  ASSUME AudioInv, IndInv', todo[ArmIrq] # <<>>, xferSharcAudio(ArmIrq, Head(todo[ArmIrq]))
  PROVE  AudioInv'
<1>1. IndInv /\ AudioTypes /\ Silence /\ BlocksReturn
  BY DEF AudioInv, Basics
<1>2. PICK op : op = Head(todo[ArmIrq])
  OBVIOUS
<1>3. PICK k \in 0 .. 13, d \in Dirs, m \in Msg : Phase(k, d, m)
  BY DEF AudioInv, Staged
<1>4. PICK s \in Sharcs : k = SwapAt(s) /\ op = Op("xfer", Buffer(d, s, 0), s) /\ op.op = "xfer"
  <2>1. StageOf(k, d, m, op)
    BY <1>1, <1>2, <1>3, HeadStage
  <2>2. op.op = "xfer"
    BY <1>2 DEF xferSharcAudio
  <2> QED BY <2>1, <2>2 DEF StageOf
<1>5. op.msg.type = d /\ op.core = s
  BY <1>4, BufferParts DEF Op
<1>6. /\ k \in 0 .. 11 /\ k # 6 /\ k \in {0, 3} /\ k <= 6
      /\ \A r \in Sharcs \ {s} : k # SwapAt(r)
      /\ \A r \in Sharcs : k \notin {SendAt(r), TellAt(r)}
  BY <1>4 DEF SwapAt, SendAt, TellAt, Sharcs
<1>7. block \in Nat /\ Kept(block) \in 0 .. 1 /\ Sent(block) = 1 - Kept(block) /\ Sent(block) \in 0 .. 1
  BY <1>1, Parity DEF AudioTypes
<1>8. pp[d][s] = Kept(block)
  <2>1. d \notin Swapped(k, d, s)
    BY <1>4, <1>6, StageChanges
  <2> QED BY <1>3, <2>1 DEF Phase, Pair
<1>9. PICK x : x = Buffer(d, s, Sent(block))
  OBVIOUS
<1>10. PICK then : then = <<Ref(x), Send(x, s)>>
  OBVIOUS
<1>11. /\ stream' = [stream EXCEPT ![d][s] = Kept(block)] /\ pp' = [pp EXCEPT ![d][s] = Sent(block)]
       /\ Continue(ArmIrq, then) /\ UNCHANGED <<queue, ready, running, active, got, block, info, data>>
  BY <1>2, <1>5, <1>7, <1>8, <1>9, <1>10 DEF xferSharcAudio, Swap, busVars, bootVars
<1>12. then \in Seq(Call) /\ \A y \in Elements(then) : y.op \notin Audible
  <2>1. x \in Audio /\ x \in Msg /\ s \in Core
    BY <1>7, <1>9, BufferParts, Threads DEF Msg, Persistent, Core
  <2>2. Ref(x) \in Call /\ Send(x, s) \in Call
    BY <2>1, CallsAreCalls
  <2>3. then \in Seq(Call) /\ Elements(then) = {Ref(x), Send(x, s)}
    BY <1>10, <2>2, ListOfTwo
  <2>4. Ref(x).op = "ref" /\ Send(x, s).op = "send"
    BY DEF Ref, Send, Op
  <2> QED BY <2>3, <2>4 DEF Audible
<1>13. /\ todo'[ArmIrq] = then \o Tail(todo[ArmIrq]) /\ \A r \in Sharcs : Doing(r)' = Doing(r)
  <2>1. Head(todo[ArmIrq]).op # "initialize" /\ ready' = ready
    BY <1>2, <1>4, <1>11
  <2> QED BY <1>11, <1>12, <2>1, ArmIrqGoes
<1>14. todo'[ArmIrq] = Calls(k + 1, d, block, m)
  <2>1. Course(d, block, m)
    BY StageLists
  <2>2. todo[ArmIrq] = Calls(k, d, block, m)
    BY <1>3, <1>6 DEF Phase, Listed
  <2>3. CASE s = "SHARC0"
    <3>1. k = 0 /\ k + 1 = 1
      BY <1>4, <2>3 DEF SwapAt
    <3>2. then \o Tail(Calls(0, d, block, m)) = Calls(1, d, block, m)
      BY <1>9, <1>10, <2>1, <2>3 DEF Course
    <3> QED BY <1>13, <2>2, <3>1, <3>2
  <2>4. CASE s = "SHARC1"
    <3>1. k = 3 /\ k + 1 = 4
      BY <1>4, <2>4 DEF SwapAt
    <3>2. then \o Tail(Calls(3, d, block, m)) = Calls(4, d, block, m)
      BY <1>9, <1>10, <2>1, <2>4 DEF Course
    <3> QED BY <1>13, <2>2, <3>1, <3>2
  <2> QED BY <2>3, <2>4 DEF Sharcs
<1>15. /\ pp'[d][s] = Sent(block) /\ stream'[d][s] = Kept(block)
       /\ \A e \in Dirs, r \in Sharcs : e # d \/ r # s => pp'[e][r] = pp[e][r] /\ stream'[e][r] = stream[e][r]
       /\ stream' \in [Dirs -> [Sharcs -> {None, 0, 1}]]
  <2>1. pp \in [Dirs -> [Sharcs -> 0 .. 1]] /\ stream \in [Dirs -> [Sharcs -> {None, 0, 1}]]
    BY <1>1 DEF IndInv, Types, PingPong, AudioTypes, Dirs
  <2>2. Kept(block) \in {None, 0, 1}
    BY <1>7
  <2>3. /\ pp'[d][s] = Sent(block) /\ \A e \in Dirs, r \in Sharcs : e # d \/ r # s => pp'[e][r] = pp[e][r]
    BY <1>7, <1>11, <2>1
  <2>4. /\ stream'[d][s] = Kept(block) /\ \A e \in Dirs, r \in Sharcs : e # d \/ r # s => stream'[e][r] = stream[e][r]
    BY <1>11, <2>1
  <2>5. stream' \in [Dirs -> [Sharcs -> {None, 0, 1}]]
    BY <1>11, <2>1, <2>2
  <2> QED BY <2>3, <2>4, <2>5
<1>16. \A r \in Sharcs : LineAt(r)' = LineAt(r)
  BY <1>11, <1>13 DEF LineAt
<1>17. ASSUME NEW r \in Sharcs
       PROVE  /\ Pair(k + 1, d, r)' /\ LineIs(k + 1, d, r)'
              /\ Mark \in Items(LineAt(r))' => Mark \in Items(LineAt(r))
  <2>1. Pair(k, d, r) /\ LineIs(k, d, r)
    BY <1>3 DEF Phase
  <2>2. LineIs(k + 1, d, r)'
    BY <1>6, <1>11, <1>16, <2>1, LineUntouched
  <2>3. Pair(k + 1, d, r)'
    <3>1. CASE r = s
      <4>1. Swapped(k, d, s) = Arrived \ {d} /\ Swapped(k + 1, d, s)' = Arrived
        <5>1. Swapped(k + 1, d, s)' = Swapped(k + 1, d, s)
          BY <1>11 DEF Swapped, Arrived
        <5> QED BY <1>4, <1>6, <5>1, StageChanges
      <4>2. d \in Arrived
        BY <1>3, <1>6 DEF Phase, Listed
      <4> QED BY <1>11, <1>15, <2>1, <3>1, <4>1, <4>2 DEF Pair
    <3>2. CASE r # s
      <4>1. UNCHANGED <<active, block>> /\ \A e \in Dirs : pp'[e][r] = pp[e][r] /\ stream'[e][r] = stream[e][r]
        BY <1>11, <1>15, <3>2
      <4> QED BY <1>6, <2>1, <3>2, <4>1, PairSame
    <3> QED BY <3>1, <3>2
  <2>4. Items(LineAt(r))' = Items(LineAt(r))
    BY <1>16 DEF Items
  <2> QED BY <2>2, <2>3, <2>4
<1>18. Phase(k + 1, d, m)'
  BY <1>3, <1>6, <1>11, <1>14, <1>17, ArmAdvance
<1>19. Staged'
  <2>1. PICK j \in 0 .. 13 : j = k + 1
    BY <1>6
  <2>2. Phase(j, d, m)'
    BY <1>18, <2>1
  <2> QED BY <2>2 DEF Staged
<1>20. AudioTypes' /\ Silence' /\ BlocksReturn'
  BY <1>1, <1>11, <1>15 DEF AudioTypes, Silence, BlocksReturn
<1>21. Head(todo[ArmIrq]).op # "initialize" /\ UNCHANGED <<ready, running>>
  BY <1>2, <1>4, <1>11
<1> QED BY <1>11, <1>12, <1>19, <1>20, <1>21, ArmKeeps

\* The calls of the ARM's interrupt are accepted: the queues have room, and a
\* process message can be created.
Accepted ==
  todo[ArmIrq] # <<>> =>
    LET op == Head(todo[ArmIrq]) IN
    /\ op.op = "send" => ~QueueFull(op.core)
    /\ op.op = "domain" => FreeIds # {}

\* The ARM sends x, a buffer or the message to process, to s.
LEMMA ArmSends ==
  ASSUME AudioInv, Accepted, NEW k \in 0 .. 11, k # 6, NEW d, NEW m, Phase(k, d, m), todo[ArmIrq] # <<>>,
         NEW x, NEW s \in Sharcs, Head(todo[ArmIrq]) = Send(x, s), ipcToCore(ArmIrq, Send(x, s))
  PROVE  /\ Continue(ArmIrq, <<>>) /\ todo'[ArmIrq] = Tail(todo[ArmIrq])
         /\ UNCHANGED <<ready, running, active, pp, stream, got, block, info, data>>
         /\ Grown(LineAt(s), LineAt(s)', Len(queue[s]), ItemOf(x))
         /\ \A r \in Sharcs \ {s} : LineAt(r)' = LineAt(r)
<1>1. IndInv /\ Talk /\ Prepared
  BY DEF AudioInv, Basics
<1>2. PICK op : op = Send(x, s)
  OBVIOUS
<1>3. op.op = "send" /\ op.msg = x /\ op.core = s
  BY <1>2 DEF Send, Op
<1>4. ArmIrq \in Thread /\ todo[ArmIrq] \in Seq(Call) /\ Tail(todo[ArmIrq]) \in Seq(Call)
  <2>1. ArmIrq \in Thread
    BY Threads DEF ArmIrq
  <2>2. todo[ArmIrq] \in Seq(Call)
    BY <1>1, <2>1 DEF IndInv, Types
  <2> QED BY <2>1, <2>2, TailOfCalls
<1>5. Proper(ArmIrq, op)
  BY <1>1, <1>2, <1>4, HeadIsProper
<1>6. s \in ready /\ x \in Msg /\ ~QueueFull(s)
  <2>1. s \in callback /\ x \in Msg
    BY <1>3, <1>5 DEF Proper
  <2>2. s \in ready
    BY <1>1, <2>1, CallbackIsReady
  <2> QED BY <1>2, <1>3, <2>1, <2>2 DEF Accepted
<1>7. /\ Continue(ArmIrq, <<>>) /\ queue' = [queue EXCEPT ![s] = Append(@, x)]
      /\ UNCHANGED <<ready, running, active, pp, stream, got, block, info, data>>
  BY <1>2, <1>3, <1>6 DEF ipcToCore, bootVars, appVars, armVars
<1>8. todo'[ArmIrq] = Tail(todo[ArmIrq]) /\ \A r \in Sharcs : Doing(r)' = Doing(r)
  <2>1. Head(todo[ArmIrq]).op # "initialize" /\ ready' = ready
    BY <1>2, <1>3, <1>7
  <2>2. todo'[ArmIrq] = <<>> \o Tail(todo[ArmIrq]) /\ \A r \in Sharcs : Doing(r)' = Doing(r)
    BY <1>7, <2>1, EmptyList, ArmIrqGoes
  <2>3. <<>> \o Tail(todo[ArmIrq]) = Tail(todo[ArmIrq])
    BY <1>4
  <2> QED BY <2>2, <2>3
<1>9. queue \in [Core -> Seq(Msg)] /\ s \in Core /\ queue[s] \in Seq(Msg)
  BY <1>1, Threads DEF IndInv, Types, Core
<1>10. Grown(LineAt(s), LineAt(s)', Len(queue[s]), ItemOf(x))
  <2>1. Doing(s) \in Audio \cup {Mark, Nil}
    BY <1>1, DoingIsItem
  <2>2. queue'[s] = Append(queue[s], x)
    BY <1>7, <1>9
  <2>3. LineAt(s)' = LineOf(Doing(s), Append(queue[s], x))
    BY <1>8, <2>2 DEF LineAt
  <2> QED BY <1>6, <1>9, <2>1, <2>3, LinesOf DEF LineAt
<1>11. ASSUME NEW r \in Sharcs \ {s} PROVE LineAt(r)' = LineAt(r)
  <2>1. queue'[r] = queue[r]
    BY <1>7, <1>9
  <2> QED BY <1>8, <2>1 DEF LineAt
<1> QED BY <1>7, <1>8, <1>10, <1>11

\* What the other SHARC's pairs and line are when something is sent to s.
LEMMA OtherSharc ==
  ASSUME NEW k \in 0 .. 11, k # 6, NEW d, NEW s \in Sharcs, k \in {SendAt(s), TellAt(s)},
         NEW r \in Sharcs \ {s}, Pair(k, d, r), LineIs(k, d, r), LineAt(r)' = LineAt(r),
         UNCHANGED <<active, pp, stream, block, info, data>>
  PROVE  /\ Pair(k + 1, d, r)' /\ LineIs(k + 1, d, r)'
         /\ Mark \in Items(LineAt(r))' => Mark \in Items(LineAt(r))
<1>1. k # SwapAt(r) /\ k \notin {SendAt(r), TellAt(r)}
  BY DEF SwapAt, SendAt, TellAt, Sharcs
<1>2. Pair(k + 1, d, r)'
  BY <1>1, PairSame
<1>3. LineIs(k + 1, d, r)'
  BY <1>1, LineUntouched
<1>4. Items(LineAt(r))' = Items(LineAt(r))
  BY DEF Items
<1> QED BY <1>2, <1>3, <1>4

\* ipcToCore, called by the ARM's interrupt.
LEMMA ArmSendStep ==
  ASSUME AudioInv, Accepted, IndInv', todo[ArmIrq] # <<>>, ipcToCore(ArmIrq, Head(todo[ArmIrq]))
  PROVE  AudioInv'
<1>1. IndInv /\ AudioTypes /\ Silence /\ BlocksReturn
  BY DEF AudioInv, Basics
<1>2. PICK op : op = Head(todo[ArmIrq])
  OBVIOUS
<1>3. PICK k \in 0 .. 13, d \in Dirs, m \in Msg : Phase(k, d, m)
  BY DEF AudioInv, Staged
<1>4. PICK s \in Sharcs : \/ k = SendAt(s) /\ op = Send(Buffer(d, s, Sent(block)), s)
                          \/ k = TellAt(s) /\ op = Send(m, s)
  <2>1. StageOf(k, d, m, op)
    BY <1>1, <1>2, <1>3, HeadStage
  <2>2. op.op = "send"
    BY <1>2 DEF ipcToCore
  <2> QED BY <2>1, <2>2 DEF StageOf
<1>5. /\ k \in 0 .. 11 /\ k # 6 /\ k \in {1, 2, 4, 5, 7, 8, 9, 10, 11} /\ k # SwapAt(s)
      /\ k = SendAt(s) => k <= 6 /\ k # TellAt(s)
      /\ k = TellAt(s) => k >= 7 /\ k # SendAt(s)
  BY <1>4 DEF SwapAt, SendAt, TellAt, Sharcs
<1>6. block \in Nat /\ Sent(block) \in 0 .. 1
  BY <1>1, Parity DEF AudioTypes
<1>7. PICK x : \/ k = SendAt(s) /\ x = Buffer(d, s, Sent(block)) /\ x \in Audio /\ ItemOf(x) = x
               \/ k = TellAt(s) /\ x = m /\ ItemOf(x) = Mark
      /\ op = Send(x, s)
  <2>1. Buffer(d, s, Sent(block)) \in Audio
    BY <1>6, BufferParts
  <2>2. k = TellAt(s) => m.type = "PROCESS" /\ m \notin Audio
    <3>1. \A y \in Audio : y.type # "PROCESS"
      BY BufferParts DEF Dirs
    <3> QED BY <1>3, <1>5, <3>1 DEF Phase, Listed
  <2> QED BY <1>4, <2>1, <2>2 DEF ItemOf
<1>8. /\ Continue(ArmIrq, <<>>) /\ todo'[ArmIrq] = Tail(todo[ArmIrq])
      /\ UNCHANGED <<ready, running, active, pp, stream, got, block, info, data>>
      /\ Grown(LineAt(s), LineAt(s)', Len(queue[s]), ItemOf(x))
      /\ \A r \in Sharcs \ {s} : LineAt(r)' = LineAt(r)
  <2>1. Head(todo[ArmIrq]) = Send(x, s) /\ ipcToCore(ArmIrq, Send(x, s))
    BY <1>2, <1>7
  <2> QED BY <1>3, <1>5, <2>1, ArmSends
<1>9. todo'[ArmIrq] = Calls(k + 1, d, block, m)
  <2>1. todo[ArmIrq] = Calls(k, d, block, m)
    BY <1>3, <1>5 DEF Phase, Listed
  <2>2. Course(d, block, m)
    BY StageLists
  <2>3. Tail(Calls(k, d, block, m)) = Calls(k + 1, d, block, m)
    BY <1>5, <2>2 DEF Course
  <2> QED BY <1>8, <2>1, <2>3
<1>10. /\ Pair(k + 1, d, s)' /\ LineIs(k + 1, d, s)'
       /\ Mark \in Items(LineAt(s))' => Mark \in Items(LineAt(s)) \/ Told(k + 1, s)
  <2>1. Pair(k, d, s) /\ LineIs(k, d, s) /\ InTime(k, s)
    BY <1>3 DEF Phase
  <2>2. Pair(k + 1, d, s)'
    <3>1. UNCHANGED <<active, block>> /\ \A e \in Dirs : pp'[e][s] = pp[e][s] /\ stream'[e][s] = stream[e][s]
      BY <1>8
    <3> QED BY <1>5, <2>1, <3>1, PairSame
  <2> PICK M : M = LineAt(s)'
    OBVIOUS
  <2>3. Pipe(s, LineAt(s), block, SentDirs(k, d, s), Told(k, s), info[s], data)
    BY <2>1 DEF LineIs
  <2>4. Grown(LineAt(s), M, Len(queue[s]), ItemOf(x))
    BY <1>8
  <2>5. LineIs(k + 1, d, s)' <=> Pipe(s, M, block, SentDirs(k + 1, d, s), Told(k + 1, s), info[s], data)
    <3>1. SentDirs(k + 1, d, s)' = SentDirs(k + 1, d, s)
      BY <1>8 DEF SentDirs, Arrived
    <3> QED BY <1>8, <3>1 DEF LineIs
  <2>6. Mark \in Items(LineAt(s))' <=> Mark \in Items(M)
    BY DEF Items
  <2>7. CASE k = SendAt(s) /\ x = Buffer(d, s, Sent(block)) /\ x \in Audio /\ ItemOf(x) = x
    <3>1. SentDirs(k, d, s) = Arrived \ {d} /\ SentDirs(k + 1, d, s) = Arrived
      BY <1>5, <2>7, StageChanges
    <3>2. Told(k, s) = FALSE /\ Told(k + 1, s) = FALSE
      BY <1>5, <2>7 DEF Told, Telling, SendAt, Sharcs
    <3>3. d \in Arrived /\ Arrived \ {d} \in SUBSET Dirs /\ d \notin Arrived \ {d} /\ (Arrived \ {d}) \cup {d} = Arrived
      <4>1. d \in Arrived
        BY <1>3, <1>5, <2>7 DEF Phase, Listed
      <4>2. Arrived \subseteq Dirs
        BY DEF Arrived, DirOf, Dirs
      <4> QED BY <4>1, <4>2
    <3>4. Pipe(s, M, block, Arrived, FALSE, info[s], data) /\ \A y : y \in Items(M) <=> y \in Items(LineAt(s)) \/ y = x
      <4> PICK S : S = Arrived \ {d}
        OBVIOUS
      <4>1. S \in SUBSET Dirs /\ d \notin S /\ Arrived = S \cup {d} /\ Pipe(s, LineAt(s), block, S, FALSE, info[s], data)
        BY <2>3, <3>1, <3>2, <3>3
      <4>2. Grown(LineAt(s), M, Len(queue[s]), x)
        BY <2>4, <2>7
      <4>3. Sends(s, block, d, S, Arrived, x, info[s], data, Len(queue[s]), LineAt(s), M)
        BY <1>6, <2>7, <4>1, <4>2 DEF Sends
      <4>4. Pipe(s, M, block, Arrived, FALSE, info[s], data)
        BY <4>3, PipeSendsBuffer
      <4>5. x # Nil
        BY <2>7, BufferParts
      <4>6. Items(M) = Items(LineAt(s)) \cup {x}
        <5> PICK L : L = LineAt(s)
          OBVIOUS
        <5>1. Items(M) = IF x = Nil THEN Items(L) ELSE Items(L) \cup {x}
          BY <4>2, LineGrows
        <5> QED BY <4>5, <5>1
      <4> QED BY <4>4, <4>6
    <3>5. LineIs(k + 1, d, s)'
      BY <2>5, <3>1, <3>2, <3>3, <3>4
    <3>6. Mark \in Items(M) => Mark \in Items(LineAt(s))
      BY <2>7, <3>4, BufferParts
    <3> QED BY <2>2, <2>6, <3>5, <3>6
  <2>8. CASE k = TellAt(s) /\ x = m /\ ItemOf(x) = Mark
    <3>1. SentDirs(k, d, s) = Dirs /\ SentDirs(k + 1, d, s) = Dirs /\ Told(k, s) = FALSE /\ Told(k + 1, s) = TRUE
      BY <1>5, <2>8, StageChanges DEF Told
    <3>2. Mark \notin Items(LineAt(s))
      BY <1>5, <2>1, <2>8, <3>1, StageChanges DEF InTime
    <3>3. Pipe(s, LineAt(s), block, Dirs, FALSE, info[s], data) /\ Grown(LineAt(s), M, Len(queue[s]), Mark)
      BY <2>3, <2>4, <2>8, <3>1
    <3>4. Pipe(s, M, block, Dirs, TRUE, info[s], data)
      BY <1>6, <3>2, <3>3, PipeSendsProcess
    <3>5. LineIs(k + 1, d, s)'
      BY <2>5, <3>1, <3>4
    <3> QED BY <2>2, <3>1, <3>5
  <2> QED BY <1>7, <2>7, <2>8
<1>11. ASSUME NEW r \in Sharcs
       PROVE  /\ Pair(k + 1, d, r)' /\ LineIs(k + 1, d, r)'
              /\ Mark \in Items(LineAt(r))' => Mark \in Items(LineAt(r)) \/ Told(k + 1, r)
  <2>1. CASE r = s
    BY <1>10, <2>1
  <2>2. CASE r # s
    <3>1. Pair(k, d, r) /\ LineIs(k, d, r) /\ r \in Sharcs \ {s} /\ LineAt(r)' = LineAt(r)
      BY <1>3, <1>8, <2>2 DEF Phase
    <3>2. k \in {SendAt(s), TellAt(s)} /\ UNCHANGED <<active, pp, stream, block, info, data>>
      BY <1>4, <1>8
    <3> QED BY <1>5, <3>1, <3>2, OtherSharc
  <2> QED BY <2>1, <2>2
<1>12. Phase(k + 1, d, m)'
  BY <1>3, <1>5, <1>8, <1>9, <1>11, ArmAdvance
<1>13. Staged'
  <2>1. PICK j \in 0 .. 13 : j = k + 1
    BY <1>5
  <2>2. Phase(j, d, m)'
    BY <1>12, <2>1
  <2> QED BY <2>2 DEF Staged
<1>14. AudioTypes' /\ Silence' /\ BlocksReturn'
  BY <1>1, <1>8 DEF AudioTypes, Silence, BlocksReturn
<1>15. Head(todo[ArmIrq]).op # "initialize" /\ UNCHANGED <<ready, running>>
  BY <1>2, <1>4, <1>8 DEF Send, Op
<1> QED BY <1>8, <1>13, <1>14, <1>15, EmptyList, ArmKeeps

\* When both directions have arrived nothing of the block before is left.
LEMMA BothArrived ==
  ASSUME active \subseteq {"CODEC_IN", "CODEC_OUT"}
  PROVE  /\ Arrived = Dirs <=> active = {"CODEC_IN", "CODEC_OUT"}
         /\ \A c \in {"CODEC_IN", "CODEC_OUT"} : DirOf(c) \in Arrived <=> c \in active
         /\ \A c \in {"CODEC_IN", "CODEC_OUT"} : DirOf(c) \in Dirs
<1>1. DirOf("CODEC_IN") = "OUT" /\ DirOf("CODEC_OUT") = "IN"
  BY DEF DirOf
<1>2. "OUT" \in Arrived <=> "CODEC_IN" \in active
  BY <1>1 DEF Arrived
<1>3. "IN" \in Arrived <=> "CODEC_OUT" \in active
  BY <1>1 DEF Arrived
<1>4. Arrived \subseteq Dirs
  BY <1>1 DEF Arrived, Dirs
<1>5. Arrived = Dirs <=> active = {"CODEC_IN", "CODEC_OUT"}
  BY <1>2, <1>3, <1>4 DEF Dirs
<1> QED BY <1>1, <1>2, <1>3, <1>5 DEF Dirs

\* clock_domain_ready: the SHARCs are told to process when both directions
\* have arrived.
LEMMA DomainStep ==
  ASSUME AudioInv, Accepted, IndInv', todo[ArmIrq] # <<>>, DomainReady(ArmIrq, Head(todo[ArmIrq]))
  PROVE  AudioInv'
<1>1. IndInv /\ AudioTypes /\ Silence /\ BlocksReturn
  BY DEF AudioInv, Basics
<1>2. PICK op : op = Head(todo[ArmIrq])
  OBVIOUS
<1>3. PICK k \in 0 .. 13, d \in Dirs, m \in Msg : Phase(k, d, m)
  BY DEF AudioInv, Staged
<1>4. k = 6 /\ op.op = "domain"
  <2>1. StageOf(k, d, m, op)
    BY <1>1, <1>2, <1>3, HeadStage
  <2>2. op.op = "domain"
    BY <1>2 DEF DomainReady
  <2> QED BY <2>1, <2>2 DEF StageOf
<1>5. Phase(6, d, m) /\ todo[ArmIrq] = Calls(6, d, block, m) /\ Tail(todo[ArmIrq]) = <<>>
  <2>1. Course(d, block, m)
    BY StageLists
  <2>2. Tail(Calls(6, d, block, m)) = <<>>
    BY <2>1 DEF Course
  <2>3. Phase(6, d, m)
    BY <1>3, <1>4
  <2>4. todo[ArmIrq] = Calls(6, d, block, m)
    BY <2>3 DEF Phase, Listed
  <2> QED BY <2>2, <2>3, <2>4
<1>6. active \subseteq {"CODEC_IN", "CODEC_OUT"} /\ (Arrived = Dirs <=> active = {"CODEC_IN", "CODEC_OUT"})
  BY <1>1, BothArrived DEF AudioTypes
<1>7. PICK f : f = Fresh("PROCESS", "ARM")
  OBVIOUS
<1>8. f \in Short /\ f.type = "PROCESS" /\ f # Nil
  <2>1. FreeIds # {}
    BY <1>2, <1>4 DEF Accepted
  <2>2. f # Nil
    <3>1. \A i : Message("PROCESS", "ARM", i).type = "PROCESS"
      BY DEF Message
    <3>2. Nil.type = "NULL"
      BY DEF Nil, Message
    <3> QED BY <1>7, <2>1, <3>1, <3>2 DEF Fresh
  <2> QED BY <1>7, <2>2, FreshIsFree DEF Core
<1>9. PICK then : then = IF active = {"CODEC_IN", "CODEC_OUT"} THEN ProcessCalls(f) \o <<Plain("route")>> ELSE <<>>
  OBVIOUS
<1>10. /\ Continue(ArmIrq, then)
       /\ active' = IF active = {"CODEC_IN", "CODEC_OUT"} THEN {} ELSE active
       /\ UNCHANGED <<queue, ready, running, pp, stream, got, block, info, data>>
  BY <1>2, <1>7, <1>8, <1>9 DEF DomainReady, bootVars
<1>11. then \in Seq(Call) /\ \A y \in Elements(then) : y.op \notin Audible
  <2>1. CASE active = {"CODEC_IN", "CODEC_OUT"}
    <3>1. /\ ProcessCalls(f) \in Seq(Call)
          /\ Elements(ProcessCalls(f)) = {Ref(f), Send(f, "SHARC0"), Send(f, "SHARC1"), Unref(f)}
      BY <1>8, ProcessAdds DEF Adds
    <3>2. Plain("route") \in Call /\ Plain("route").op = "route"
      BY CallsAreCalls, StartupLists
    <3>3. <<Plain("route")>> \in Seq(Call) /\ Elements(<<Plain("route")>>) = {Plain("route")}
      BY <3>2, ListOfOne
    <3>4. then \in Seq(Call) /\ Elements(then) \subseteq Elements(ProcessCalls(f)) \cup Elements(<<Plain("route")>>)
      BY <1>9, <2>1, <3>1, <3>3, BothLists
    <3>5. \A y \in Elements(ProcessCalls(f)) : y.op \in {"ref", "send", "unref"}
      BY <3>1 DEF Ref, Send, Unref, Op
    <3> QED BY <3>2, <3>3, <3>4, <3>5 DEF Audible
  <2>2. CASE active # {"CODEC_IN", "CODEC_OUT"}
    BY <1>9, <2>2, EmptyList
  <2> QED BY <2>1, <2>2
<1>12. todo'[ArmIrq] = then /\ \A s \in Sharcs : Doing(s)' = Doing(s)
  <2>1. Head(todo[ArmIrq]).op # "initialize" /\ ready' = ready
    BY <1>2, <1>4, <1>10
  <2>2. todo'[ArmIrq] = then \o Tail(todo[ArmIrq]) /\ \A s \in Sharcs : Doing(s)' = Doing(s)
    BY <1>10, <1>11, <2>1, ArmIrqGoes
  <2>3. then \o <<>> = then
    BY <1>11
  <2> QED BY <1>5, <2>2, <2>3
<1>13. \A s \in Sharcs : LineAt(s)' = LineAt(s)
  BY <1>10, <1>12 DEF LineAt
<1>14. ASSUME NEW s \in Sharcs
       PROVE  /\ \A e \in Dirs : /\ pp[e][s] = IF e \in Arrived THEN Sent(block) ELSE Kept(block)
                                 /\ stream[e][s] = IF e \in Arrived THEN Kept(block) ELSE None
              /\ Pipe(s, LineAt(s), block, Arrived, FALSE, info[s], data)
              /\ Arrived = Dirs => Mark \notin Items(LineAt(s))
  <2>1. /\ ~Telling(6) /\ Swapped(6, d, s) = Arrived /\ SentDirs(6, d, s) = Arrived
        /\ Told(6, s) = FALSE
    BY DEF Telling, Swapped, SentDirs, Told, At
  <2> QED BY <1>5, <2>1 DEF Phase, Pair, LineIs, InTime
<1>15. Staged'
  <2>1. CASE active = {"CODEC_IN", "CODEC_OUT"}
    <3>1. Arrived = Dirs /\ active' = {} /\ f \in Msg
      BY <1>6, <1>8, <1>10, <2>1 DEF Msg
    <3>2. Telling(7) /\ \A s : Swapped(7, d, s)' = Dirs /\ SentDirs(7, d, s)' = Dirs
      BY DEF Telling, Swapped, SentDirs
    <3>3. \A s \in Sharcs : Told(7, s) = FALSE
      BY DEF Told
    <3>4. Listed(7, d, f)'
      <4>1. Course(d, block, f)
        BY StageLists
      <4>2. todo'[ArmIrq] = Calls(7, d, block, f) /\ block' = block
        BY <1>9, <1>10, <1>12, <2>1, <4>1 DEF Course
      <4> QED BY <1>8, <3>1, <4>2 DEF Listed
    <3>5. ASSUME NEW s \in Sharcs PROVE Pair(7, d, s)' /\ LineIs(7, d, s)' /\ InTime(7, s)'
      <4>1. Pair(7, d, s)'
        BY <1>10, <1>14, <3>1, <3>2 DEF Pair
      <4>2. LineIs(7, d, s)'
        BY <1>10, <1>13, <1>14, <3>1, <3>2, <3>3 DEF LineIs
      <4>3. Items(LineAt(s))' = Items(LineAt(s))
        BY <1>13 DEF Items
      <4>4. InTime(7, s)'
        BY <1>14, <3>1, <4>3 DEF InTime
      <4> QED BY <4>1, <4>2, <4>4
    <3>6. Phase(7, d, f)'
      BY <3>4, <3>5 DEF Phase
    <3> QED BY <3>1, <3>6 DEF Staged
  <2>2. CASE active # {"CODEC_IN", "CODEC_OUT"}
    <3>1. Arrived # Dirs /\ active' = active /\ Arrived' = Arrived
      BY <1>6, <1>10, <2>2 DEF Arrived
    <3>2. ~Telling(13) /\ \A s : Swapped(13, d, s)' = Arrived /\ SentDirs(13, d, s)' = Arrived
      BY <3>1 DEF Telling, Swapped, SentDirs, At
    <3>3. \A s \in Sharcs : Told(13, s) = FALSE
      BY DEF Told, Telling
    <3>4. Listed(13, d, m)'
      <4>1. \A x \in Elements(todo[ArmIrq])' : x.op \in {"heard", "unref"}
        <5>1. \A x \in Elements(todo'[ArmIrq]) : x.op \in {"heard", "unref"}
          BY <1>9, <1>12, <2>2, EmptyList
        <5> QED BY <5>1 DEF Elements
      <4> QED BY <3>1, <4>1 DEF Listed
    <3>5. ASSUME NEW s \in Sharcs PROVE Pair(13, d, s)' /\ LineIs(13, d, s)' /\ InTime(13, s)'
      <4>1. Pair(13, d, s)'
        BY <1>10, <1>14, <3>2 DEF Pair
      <4>2. LineIs(13, d, s)'
        BY <1>10, <1>13, <1>14, <3>2, <3>3 DEF LineIs
      <4>3. InTime(13, s)'
        BY <3>1, <3>2 DEF InTime
      <4> QED BY <4>1, <4>2, <4>3
    <3>6. Phase(13, d, m)'
      BY <3>4, <3>5 DEF Phase
    <3> QED BY <3>6 DEF Staged
  <2> QED BY <2>1, <2>2
<1>16. AudioTypes' /\ Silence' /\ BlocksReturn'
  BY <1>1, <1>10 DEF AudioTypes, Silence, BlocksReturn
<1>17. Head(todo[ArmIrq]).op # "initialize" /\ UNCHANGED <<ready, running>>
  BY <1>2, <1>4, <1>10
<1> QED BY <1>10, <1>11, <1>15, <1>16, <1>17, ArmKeeps

\* routeAudio: the ARM reads what the SHARCs returned, fills the buffers it
\* kept and begins the next block.
LEMMA RouteStep ==
  ASSUME AudioInv, IndInv', todo[ArmIrq] # <<>>, RouteAudio(ArmIrq, Head(todo[ArmIrq]))
  PROVE  AudioInv'
<1>1. IndInv /\ AudioTypes /\ Silence /\ BlocksReturn
  BY DEF AudioInv, Basics
<1>2. PICK op : op = Head(todo[ArmIrq])
  OBVIOUS
<1>3. PICK k \in 0 .. 13, d \in Dirs, m \in Msg : Phase(k, d, m)
  BY DEF AudioInv, Staged
<1>4. k = 12 /\ op.op = "route"
  <2>1. StageOf(k, d, m, op)
    BY <1>1, <1>2, <1>3, HeadStage
  <2>2. op.op = "route"
    BY <1>2 DEF RouteAudio
  <2> QED BY <2>1, <2>2 DEF StageOf
<1>5. Phase(12, d, m) /\ Tail(todo[ArmIrq]) = <<>> /\ active = {}
  <2>1. Course(d, block, m)
    BY StageLists
  <2>2. Tail(Calls(12, d, block, m)) = <<>>
    BY <2>1 DEF Course
  <2>3. Phase(12, d, m)
    BY <1>3, <1>4
  <2>4. todo[ArmIrq] = Calls(12, d, block, m) /\ active = {}
    BY <2>3 DEF Phase, Listed
  <2> QED BY <2>2, <2>3, <2>4
<1>6. running
  <2>1. ArmIrq \in Thread
    BY Threads DEF ArmIrq
  <2>2. todo[ArmIrq] \in Seq(Call)
    BY <1>1, <2>1 DEF IndInv, Types
  <2>3. Proper(ArmIrq, op)
    BY <1>1, <1>2, <2>1, <2>2, HeadIsProper
  <2> QED BY <1>4, <2>3 DEF Proper
<1>7. /\ block' = block + 1 /\ Continue(ArmIrq, <<>>)
      /\ got' = [s \in Sharcs |-> data[Buffer("OUT", s, stream["OUT"][s])]]
      /\ data' = [x \in Audio |-> IF x.type = "IN" /\ stream["IN"][x.core] = x.id THEN block + 1 ELSE data[x]]
      /\ stream' = [e \in Dirs |-> [s \in Sharcs |-> None]]
      /\ UNCHANGED <<queue, ready, running, active, pp, info>>
  BY <1>2 DEF RouteAudio, busVars, bootVars, Dirs
<1>8. block \in Nat /\ Kept(block + 1) = Sent(block)
  BY <1>1, Parity DEF AudioTypes
<1>9. todo'[ArmIrq] = <<>> /\ \A s \in Sharcs : Doing(s)' = Doing(s)
  <2>1. Head(todo[ArmIrq]).op # "initialize" /\ ready' = ready
    BY <1>2, <1>4, <1>7
  <2>2. todo'[ArmIrq] = <<>> \o Tail(todo[ArmIrq]) /\ \A s \in Sharcs : Doing(s)' = Doing(s)
    BY <1>7, <2>1, EmptyList, ArmIrqGoes
  <2>3. <<>> \o <<>> = <<>>
    OBVIOUS
  <2> QED BY <1>5, <2>2, <2>3
<1>10. \A s \in Sharcs : LineAt(s)' = LineAt(s)
  BY <1>7, <1>9 DEF LineAt
<1>11. ASSUME NEW s \in Sharcs
       PROVE  /\ \A e \in Dirs : pp[e][s] = Sent(block) /\ stream[e][s] = Kept(block)
              /\ Pipe(s, LineAt(s), block, Dirs, TRUE, info[s], data)
  <2>1. /\ Telling(12) /\ Swapped(12, d, s) = Dirs /\ SentDirs(12, d, s) = Dirs /\ Told(12, s) = TRUE
    BY DEF Telling, Swapped, SentDirs, Told
  <2> QED BY <1>5, <2>1 DEF Phase, Pair, LineIs
<1>12. Routed(block, data, data')
  <2>1. \A x \in Audio : x.core \in Sharcs /\ stream["IN"][x.core] = Kept(block)
    BY <1>11, BufferParts DEF Dirs
  <2> QED BY <1>7, <2>1 DEF Routed
<1>13. ASSUME NEW s \in Sharcs
       PROVE  /\ Pipe(s, LineAt(s), block + 1, {}, FALSE, info[s], data')
              /\ data[Buffer("OUT", s, Kept(block))] = Prev(block)
  <2> PICK L : L = LineAt(s)
    OBVIOUS
  <2> PICK put : put = data'
    OBVIOUS
  <2>1. Pipe(s, L, block, Dirs, TRUE, info[s], data) /\ Routed(block, data, put)
    BY <1>11, <1>12
  <2>2. Pipe(s, L, block + 1, {}, FALSE, info[s], put) /\ data[Buffer("OUT", s, Kept(block))] = Prev(block)
    BY <1>8, <2>1, PipeRoutes
  <2> QED BY <2>2
<1>14. BlocksReturn'
  <2>1. ASSUME NEW s \in Sharcs PROVE got'[s] = Prev(block)
    <3>1. stream["OUT"][s] = Kept(block)
      BY <1>11 DEF Dirs
    <3> QED BY <1>7, <1>13, <3>1
  <2>2. Prev(block) = IF block + 1 <= 2 THEN 0 ELSE (block + 1) - 2
    BY <1>8 DEF Prev
  <2> QED BY <1>7, <2>1, <2>2 DEF BlocksReturn
<1>15. AudioTypes' /\ Silence'
  <2>1. block' \in Nat /\ block' # 0 /\ running'
    BY <1>6, <1>7, <1>8
  <2>2. data' \in [Audio -> Nat]
    BY <1>1, <1>7, <1>8 DEF AudioTypes
  <2>3. stream' \in [Dirs -> [Sharcs -> {None, 0, 1}]]
    BY <1>7
  <2> QED BY <1>1, <1>7, <2>1, <2>2, <2>3 DEF AudioTypes, Silence
<1>16. Staged'
  <2>1. Arrived' = {} /\ {} # Dirs
    BY <1>5, <1>7 DEF Arrived, Dirs
  <2>2. ~Telling(13) /\ \A s : Swapped(13, d, s)' = {} /\ SentDirs(13, d, s)' = {}
    BY <2>1 DEF Telling, Swapped, SentDirs, At
  <2>3. \A s \in Sharcs : Told(13, s) = FALSE
    BY DEF Told, Telling
  <2>4. Listed(13, d, m)'
    <3>1. \A x \in Elements(todo[ArmIrq])' : x.op \in {"heard", "unref"}
      <4>1. \A x \in Elements(todo'[ArmIrq]) : x.op \in {"heard", "unref"}
        BY <1>9, EmptyList
      <4> QED BY <4>1 DEF Elements
    <3> QED BY <2>1, <3>1 DEF Listed
  <2>5. ASSUME NEW s \in Sharcs PROVE Pair(13, d, s)' /\ LineIs(13, d, s)' /\ InTime(13, s)'
    <3>1. Pair(13, d, s)'
      <4>1. \A e \in Dirs : pp'[e][s] = Kept(block') /\ stream'[e][s] = None
        BY <1>7, <1>8, <1>11
      <4> QED BY <2>2, <4>1 DEF Pair
    <3>2. LineIs(13, d, s)'
      <4>1. Pipe(s, LineAt(s)', block', {}, FALSE, info'[s], data')
        BY <1>7, <1>10, <1>13
      <4> QED BY <2>2, <2>3, <4>1 DEF LineIs
    <3>3. InTime(13, s)'
      BY <2>1, <2>2 DEF InTime
    <3> QED BY <3>1, <3>2, <3>3
  <2>6. Phase(13, d, m)'
    BY <2>4, <2>5 DEF Phase
  <2> QED BY <2>6 DEF Staged
<1>17. Head(todo[ArmIrq]).op # "initialize" /\ UNCHANGED <<ready, running>>
  BY <1>2, <1>4, <1>7
<1> QED BY <1>7, <1>14, <1>15, <1>16, <1>17, EmptyList, ArmKeeps

\* Every call of the ARM's interrupt.
LEMMA ArmStepKeeps ==
  ASSUME AudioInv, Accepted, Step(ArmIrq)
  PROVE  AudioInv'
<1>1. ArmIrq \in Thread
  BY Threads DEF ArmIrq
<1>2. PICK op : op = Head(todo[ArmIrq])
  OBVIOUS
<1>3. todo[ArmIrq] # <<>> /\ IndInv /\ IndInv'
  BY <1>1, StepKeeps DEF Step, CanRun, AudioInv, Basics
<1>4. op.op \in {"ref", "unref", "heard", "xfer", "send", "domain", "route"}
  <2>1. PICK k \in 0 .. 13, d \in Dirs, m \in Msg : Phase(k, d, m)
    BY DEF AudioInv, Staged
  <2>2. StageOf(k, d, m, op)
    BY <1>2, <1>3, <2>1, HeadStage
  <2> QED BY <2>2 DEF StageOf
<1>5. \/ DoRef(ArmIrq, op) \/ DoUnref(ArmIrq, op) \/ Heard(ArmIrq, op)
      \/ ipcToCore(ArmIrq, op) \/ xferSharcAudio(ArmIrq, op)
      \/ DomainReady(ArmIrq, op) \/ RouteAudio(ArmIrq, op)
  <2>1. op.op \notin {"initialize", "register", "buffers", "enable", "wait", "cycles", "announce", "ping", "ask",
                      "reply", "audio", "process"}
    BY <1>4
  <2> QED BY <1>2, <2>1 DEF Step, Initialize, Register, sae_buffer_init, EnableSharcs, WaitForSharcs, CreateCycles,
                            Announce, Ping, Ask, Reply, newAudio, sharcProcessAudio
<1>6. CASE DoRef(ArmIrq, op) \/ DoUnref(ArmIrq, op) \/ Heard(ArmIrq, op)
  <2>1. op.op \in {"ref", "unref", "heard"} /\ Continue(ArmIrq, <<>>) /\ UNCHANGED <<queue, ready, running, appVars>>
    BY <1>6 DEF DoRef, DoUnref, Heard, busVars, bootVars
  <2> QED BY <1>2, <1>3, <2>1, ArmNothing
<1>7. CASE ipcToCore(ArmIrq, op)
  BY <1>2, <1>3, <1>7, ArmSendStep
<1>8. CASE xferSharcAudio(ArmIrq, op)
  BY <1>2, <1>3, <1>8, XferStep
<1>9. CASE DomainReady(ArmIrq, op)
  BY <1>2, <1>3, <1>9, DomainStep
<1>10. CASE RouteAudio(ArmIrq, op)
  BY <1>2, <1>3, <1>10, RouteStep
<1> QED BY <1>5, <1>6, <1>7, <1>8, <1>9, <1>10

\* The ARM's idle interrupt begins the list l.
LEMMA ArmBegins ==
  ASSUME AudioInv, IndInv', todo[ArmIrq] = <<>>, NEW l \in Seq(Call), todo' = [todo EXCEPT ![ArmIrq] = l],
         \A x \in Elements(l) : x.op \notin Audible, UNCHANGED <<ready, running, block, got>>,
         AudioTypes', Silence', Staged'
  PROVE  AudioInv'
<1>1. ArmIrq \in Thread /\ \A s \in Sharcs : <<s, "irq">> \in Thread \ {ArmIrq}
  BY Threads DEF ArmIrq, Thread
<1>2. todo'[ArmIrq] = l /\ \A u \in Thread \ {ArmIrq} : todo'[u] = todo[u]
  BY <1>1 DEF AudioInv, Basics, IndInv, Types
<1>3. Talk'
  <2>1. ASSUME NEW u \in Thread, NEW x \in Elements(todo'[u]) PROVE Quiet(u, x)
    BY <1>2, <2>1 DEF AudioInv, Basics, Talk, Quiet, Audible
  <2>2. \A u \in Thread : \A x \in Elements(todo[u])' : Quiet(u, x)
    BY <2>1 DEF Elements
  <2>3. \A s \in Sharcs : \A i \in 2 .. Len(todo'[<<s, "irq">>]) : todo'[<<s, "irq">>][i].op \notin Audible
    BY <1>1, <1>2 DEF AudioInv, Basics, Talk
  <2> QED BY <2>2, <2>3 DEF Talk
<1>4. Prepared'
  <2>1. \A c \in Core : <<c, "task">> \in Thread \ {ArmIrq}
    BY DEF Thread, ArmIrq
  <2> QED BY <1>2, <2>1 DEF AudioInv, Basics, Prepared
<1>5. BlocksReturn'
  BY DEF AudioInv, BlocksReturn
<1> QED BY <1>3, <1>4, <1>5 DEF AudioInv, Basics

\* Nothing is left to do for the ARM's interrupt.
LEMMA AtRest ==
  ASSUME AudioInv, todo[ArmIrq] = <<>>
  PROVE  /\ \E d \in Dirs, m \in Msg : Phase(13, d, m)
         /\ Arrived # Dirs
<1>1. PICK k \in 0 .. 13, d \in Dirs, m \in Msg : Phase(k, d, m)
  BY DEF AudioInv, Staged
<1>2. k = 13
  <2>1. Course(d, block, m)
    BY StageLists
  <2>2. \A j \in 0 .. 12 : Calls(j, d, block, m) # <<>>
    BY <2>1 DEF Course
  <2> QED BY <1>1, <2>2 DEF Phase, Listed
<1>3. Phase(13, d, m)
  BY <1>1, <1>2
<1>4. Arrived # Dirs
  BY <1>3 DEF Phase, Listed
<1> QED BY <1>3, <1>4

\* The ARM's interrupt takes the first of its queue.
LEMMA ArmReceives ==
  ASSUME AudioInv, Receive("ARM")
  PROVE  AudioInv'
<1>1. IndInv /\ IndInv' /\ AudioTypes /\ Silence /\ "ARM" \in Core
  BY ReceiveKeeps, Threads DEF AudioInv, Basics
<1>2. PICK m : m = Head(queue["ARM"])
  OBVIOUS
<1>3. PICK l : l = Handle("ARM", m)
  OBVIOUS
<1>4. /\ todo[ArmIrq] = <<>> /\ queue["ARM"] # <<>> /\ queue' = [queue EXCEPT !["ARM"] = Tail(@)]
      /\ UNCHANGED <<ready, running, active, pp, stream, got, block, info, data>>
  BY DEF Receive, bootVars, appVars, armVars, ArmIrq
<1>5. queue \in [Core -> Seq(Msg)] /\ queue["ARM"] \in Seq(Msg) /\ m \in Msg
  BY <1>1, <1>2, <1>4 DEF IndInv, Types
<1>6. todo' = [todo EXCEPT ![ArmIrq] = l]
  <2>1. "ARM" \in callback
    BY <1>1, <1>4 DEF IndInv, Flow, Queues
  <2> QED BY <1>2, <1>3, <2>1 DEF Receive, ArmIrq
<1>7. l \in Seq(Call) /\ \A x \in Elements(l) : x.op \in {"heard", "unref"}
  <2>1. l \in Seq(Call)
    BY <1>1, <1>3, <1>5, HandleAdds DEF Adds
  <2> QED BY <1>1, <1>3, <1>5, <2>1, HandleItem
<1>8. PICK d \in Dirs, k \in Msg : Phase(13, d, k)
  BY <1>4, AtRest
<1>9. ArmIrq \in Thread /\ \A s \in Sharcs : <<s, "irq">> \in Thread \ {ArmIrq} /\ s \in Core /\ s # "ARM"
  BY Threads DEF ArmIrq, Thread, Sharcs
<1>10. todo'[ArmIrq] = l /\ \A u \in Thread \ {ArmIrq} : todo'[u] = todo[u]
  BY <1>1, <1>6, <1>9 DEF IndInv, Types
<1>11. \A s \in Sharcs : LineAt(s)' = LineAt(s)
  <2>1. \A s \in Sharcs : queue'[s] = queue[s] /\ todo'[<<s, "irq">>] = todo[<<s, "irq">>]
    BY <1>4, <1>5, <1>9, <1>10
  <2> QED BY <2>1 DEF LineAt, Doing
<1>12. Staged'
  <2>1. \A x \in Elements(todo[ArmIrq])' : x.op \in {"heard", "unref"}
    <3>1. \A x \in Elements(todo'[ArmIrq]) : x.op \in {"heard", "unref"}
      BY <1>7, <1>10
    <3> QED BY <3>1 DEF Elements
  <2> QED BY <1>4, <1>8, <1>11, <2>1, RestKeeps
<1>13. AudioTypes' /\ Silence'
  BY <1>1, <1>4 DEF AudioTypes, Silence
<1>14. \A x \in Elements(l) : x.op \notin Audible
  BY <1>7 DEF Audible
<1> QED BY <1>1, <1>4, <1>6, <1>7, <1>12, <1>13, <1>14, ArmBegins

\* processAudio: a codec stream arrives.
LEMMA CodecStep ==
  ASSUME Deadline, AudioInv, NEW c \in {"CODEC_IN", "CODEC_OUT"}, codecAudio(c)
  PROVE  AudioInv'
<1>1. IndInv /\ IndInv' /\ Talk /\ AudioTypes /\ Silence
  BY CodecKeeps DEF AudioInv, Basics
<1>2. PICK d : d = DirOf(c)
  OBVIOUS
<1>3. PICK a : a = Op("xfer", Buffer(d, "SHARC0", 0), "SHARC0")
  OBVIOUS
<1>4. PICK b : b = Op("xfer", Buffer(d, "SHARC1", 0), "SHARC1")
  OBVIOUS
<1>5. PICK e : e = Plain("domain")
  OBVIOUS
<1>6. PICK l : l = <<a, b, e>>
  OBVIOUS
<1>7. /\ todo[ArmIrq] = <<>> /\ c \notin active /\ active' = active \cup {c}
      /\ todo' = [todo EXCEPT ![ArmIrq] = l]
      /\ UNCHANGED <<queue, ready, running, pp, stream, got, block, info, data>>
  BY <1>2, <1>3, <1>4, <1>5, <1>6 DEF codecAudio, busVars, bootVars, ArmIrq, DirOf
<1>8. /\ active # {} => \A s \in Sharcs :
            /\ \A i \in 1 .. Len(queue[s]) : queue[s][i].type # "PROCESS"
            /\ \A i \in 1 .. Len(todo[<<s, "irq">>]) : todo[<<s, "irq">>][i].op # "process"
  BY DEF codecAudio
<1>9. PICK d0 \in Dirs, m \in Msg : Phase(13, d0, m)
  BY <1>7, AtRest
<1>10. /\ d \in Dirs /\ d \notin Arrived /\ Arrived' = Arrived \cup {d}
       /\ Arrived' = Dirs => active # {}
  <2>1. d \in Dirs /\ d \notin Arrived
    BY <1>1, <1>2, <1>7, BothArrived DEF AudioTypes
  <2>2. Arrived' = Arrived \cup {d}
    BY <1>2, <1>7 DEF Arrived
  <2>3. active = {} => Arrived = {}
    BY DEF Arrived
  <2>4. {d} # Dirs
    BY DEF Dirs
  <2> QED BY <2>1, <2>2, <2>3, <2>4
<1>11. ArmIrq \in Thread /\ \A s \in Sharcs : <<s, "irq">> \in Thread \ {ArmIrq} /\ s \in Core
  BY Threads DEF ArmIrq, Thread, Sharcs, Core
<1>12. l \in Seq(Call) /\ \A x \in Elements(l) : x.op \notin Audible
  <2>1. Buffer(d, "SHARC0", 0) \in Msg /\ Buffer(d, "SHARC1", 0) \in Msg /\ "SHARC0" \in Core /\ "SHARC1" \in Core
    <3>1. 0 \in 0 .. 1 /\ "SHARC0" \in Sharcs /\ "SHARC1" \in Sharcs
      BY DEF Sharcs
    <3>2. Buffer(d, "SHARC0", 0) \in Audio /\ Buffer(d, "SHARC1", 0) \in Audio
      BY <1>10, <3>1, BufferParts
    <3> QED BY <3>1, <3>2 DEF Msg, Persistent, Core
  <2>2. a \in Call /\ b \in Call /\ e \in Call
    <3>1. e \in Call
      BY <1>5, CallsAreCalls
    <3>2. a \in Call /\ b \in Call
      BY <1>3, <1>4, <2>1 DEF Call, Op, OpName
    <3> QED BY <3>1, <3>2
  <2>3. a.op = "xfer" /\ b.op = "xfer" /\ e.op = "domain"
    BY <1>3, <1>4, <1>5, StartupLists DEF Op
  <2>4. l \in Seq(Call) /\ Elements(l) = {a, b, e}
    BY <1>6, <2>2, ListOfThree
  <2> QED BY <2>3, <2>4 DEF Audible
<1>13. todo'[ArmIrq] = l /\ \A u \in Thread \ {ArmIrq} : todo'[u] = todo[u]
  BY <1>1, <1>7, <1>11 DEF IndInv, Types
<1>14. \A s \in Sharcs : LineAt(s)' = LineAt(s)
  BY <1>7, <1>11, <1>13 DEF LineAt, Doing
<1>15. ASSUME active # {}, NEW s \in Sharcs PROVE Mark \notin Items(LineAt(s))
  <2>1. queue[s] \in Seq(Msg) /\ todo[<<s, "irq">>] \in Seq(Call)
    BY <1>1, <1>11 DEF IndInv, Types
  <2>2. \A i \in 1 .. Len(queue[s]) : ItemOf(queue[s][i]) # Mark
    <3>1. \A x : x.type # "PROCESS" => ItemOf(x) # Mark
      BY BufferParts DEF ItemOf
    <3> QED BY <1>8, <1>15, <3>1
  <2>3. Doing(s) # Mark
    <3>1. CASE todo[<<s, "irq">>] = <<>>
      BY <1>1, <3>1, DoingIsItem, BufferParts
    <3>2. CASE todo[<<s, "irq">>] # <<>>
      <4>1. Head(todo[<<s, "irq">>]).op # "process"
        BY <1>8, <1>15, <2>1, <3>2
      <4>2. Doing(s) = CallItem(Head(todo[<<s, "irq">>]))
        BY <1>1, <3>2, DoingIsItem
      <4>3. Head(todo[<<s, "irq">>]).op = "audio" => Head(todo[<<s, "irq">>]).msg \in Audio
        <5>1. Head(todo[<<s, "irq">>]) \in Elements(todo[<<s, "irq">>])
          BY <1>1, <1>11, <2>1, <3>2, HeadIsProper
        <5> QED BY <1>1, <1>11, <5>1 DEF Talk, Quiet
      <4> QED BY <4>1, <4>2, <4>3, BufferParts DEF CallItem
    <3> QED BY <3>1, <3>2
  <2>4. Len(queue[s]) \in Nat
    BY <2>1
  <2>5. \A i \in 0 .. Len(queue[s]) : LineAt(s)[i] # Mark
    <3>1. \A i \in 0 .. Len(queue[s]) : i = 0 \/ i \in 1 .. Len(queue[s])
      BY <2>4
    <3> QED BY <2>2, <2>3, <3>1 DEF LineAt, LineOf
  <2>6. DOMAIN LineAt(s) = 0 .. Len(queue[s])
    BY DEF LineAt, LineOf
  <2> QED BY <2>5, <2>6 DEF Items
<1>16. Staged'
  <2>1. ~Telling(0) /\ \A s : Swapped(0, d, s)' = Arrived /\ SentDirs(0, d, s)' = Arrived
    <3>1. Arrived' \ {d} = Arrived
      BY <1>10
    <3>2. \A s : 0 < At(s, 1) /\ 0 < At(s, 3)
      BY DEF At
    <3> QED BY <3>1, <3>2 DEF Telling, Swapped, SentDirs
  <2>2. \A s \in Sharcs : Told(0, s) = FALSE
    BY DEF Told, Telling
  <2>3. Listed(0, d, m)'
    <3>1. l = Calls(0, d, block, m)
      BY <1>3, <1>4, <1>5, <1>6 DEF Calls
    <3>2. d \in Arrived' /\ todo'[ArmIrq] = Calls(0, d, block', m)
      BY <1>7, <1>10, <1>13, <3>1
    <3> QED BY <3>2 DEF Listed
  <2>4. ASSUME NEW s \in Sharcs
        PROVE  /\ \A x \in Dirs : /\ pp[x][s] = IF x \in Arrived THEN Sent(block) ELSE Kept(block)
                                  /\ stream[x][s] = IF x \in Arrived THEN Kept(block) ELSE None
               /\ Pipe(s, LineAt(s), block, Arrived, FALSE, info[s], data)
    <3>1. /\ Swapped(13, d0, s) = Arrived /\ SentDirs(13, d0, s) = Arrived /\ Told(13, s) = FALSE
      BY DEF Telling, Swapped, SentDirs, Told, At
    <3> QED BY <1>9, <3>1 DEF Phase, Pair, LineIs
  <2>5. ASSUME NEW s \in Sharcs PROVE Pair(0, d, s)' /\ LineIs(0, d, s)' /\ InTime(0, s)'
    <3>1. Pair(0, d, s)'
      BY <1>7, <2>1, <2>4 DEF Pair
    <3>2. LineIs(0, d, s)'
      BY <1>7, <1>14, <2>1, <2>2, <2>4 DEF LineIs
    <3>3. InTime(0, s)'
      <4>1. Items(LineAt(s))' = Items(LineAt(s))
        BY <1>14 DEF Items
      <4> QED BY <1>10, <1>15, <2>1, <4>1 DEF InTime
    <3> QED BY <3>1, <3>2, <3>3
  <2>6. Phase(0, d, m)'
    BY <2>3, <2>5 DEF Phase
  <2> QED BY <1>10, <2>6 DEF Staged
<1>17. AudioTypes' /\ Silence'
  BY <1>1, <1>7 DEF AudioTypes, Silence
<1> QED BY <1>1, <1>7, <1>12, <1>13, <1>16, <1>17, ArmBegins

-----------------------------------------------------------------------------
(* The theorems about the audio *)

\* Nothing is under way, and all is silent.
LEMMA PipeBegins ==
  ASSUME NEW s \in Sharcs, NEW inf, NEW dat, \A d \in Dirs : inf[d] = None, \A x \in Audio : dat[x] = 0
  PROVE  Pipe(s, LineOf(Nil, <<>>), 0, {}, FALSE, inf, dat)
<1> PICK L : L = LineOf(Nil, <<>>)
  OBVIOUS
<1>1. L = [i \in 0 .. 0 |-> Nil]
  <2>1. Len(<<>>) = 0 /\ \A i \in 0 .. 0 : i = 0
    OBVIOUS
  <2> QED BY <2>1 DEF LineOf
<1>2. Items(L) = {}
  BY <1>1 DEF Items
<1>3. Mark # Nil /\ Nil \notin Audio
  BY BufferParts
<1>4. Kept(0) = 0 /\ Sent(0) = 1 /\ Prev(0) = 0 /\ Now({}, 0, FALSE) = Sent(0)
  BY DEF Kept, Sent, Prev, Now
<1>5. Order(L, Sent(0))
  <2>1. DOMAIN L = 0 .. 0 /\ \A i \in 0 .. 0 : L[i] = Nil /\ i = 0
    BY <1>1
  <2> QED BY <1>3, <2>1 DEF Order
<1>6. LineOK(s, {}, 0, {}, FALSE) /\ InfoOK(s, {}, 0, {}, FALSE, inf)
  <2>1. Now({}, 0, FALSE) # Kept(0)
    BY DEF Now, Sent, Kept
  <2>2. LineOK(s, {}, 0, {}, FALSE)
    BY <2>1 DEF LineOK
  <2>3. InfoOK(s, {}, 0, {}, FALSE, inf)
    BY <2>1 DEF InfoOK
  <2> QED BY <2>2, <2>3
<1>7. DataOK(s, {}, 0, FALSE, dat)
  <2>1. \A d \in Dirs, i \in 0 .. 1 : dat[Buffer(d, s, i)] = 0
    BY BufferParts
  <2>2. "IN" \in Dirs /\ "OUT" \in Dirs /\ 0 \in 0 .. 1 /\ 1 \in 0 .. 1
    BY DEF Dirs
  <2> QED BY <1>4, <2>1, <2>2 DEF DataOK
<1> QED BY <1>2, <1>4, <1>5, <1>6, <1>7 DEF Pipe, Content

\* The startup has nothing to do with the audio.
LEMMA StartupIsMeek ==
  \A x \in Elements(ArmStartup) \cup Elements(SharcStartup) : x.op \in StartupOps
<1>1. \A o : Plain(o).op = o
  BY StartupLists
<1>2. ASSUME NEW x \in Elements(ArmStartup) PROVE x.op \in StartupOps
  <2> DEFINE a == Plain("initialize")
             b == Plain("register")
             c == Plain("buffers")
             d == Plain("enable")
             e == Plain("wait")
  <2>1. \A i \in 1 .. Len(<<a, b, c, d, e>>) : <<a, b, c, d, e>>[i] \in {a, b, c, d, e}
    <3> HIDE DEF a, b, c, d, e
    <3> QED OBVIOUS
  <2>2. x \in {a, b, c, d, e}
    <3> HIDE DEF a, b, c, d, e
    <3>1. ArmStartup = <<a, b, c, d, e>>
      BY DEF ArmStartup, a, b, c, d, e
    <3> QED BY <2>1, <3>1 DEF Elements
  <2> QED BY <1>1, <2>2 DEF StartupOps
<1>3. ASSUME NEW x \in Elements(SharcStartup) PROVE x.op \in StartupOps
  <2> DEFINE a == Plain("initialize")
             b == Plain("cycles")
             c == Plain("register")
             d == Plain("announce")
  <2>1. \A i \in 1 .. Len(<<a, b, c, d>>) : <<a, b, c, d>>[i] \in {a, b, c, d}
    <3> HIDE DEF a, b, c, d
    <3> QED OBVIOUS
  <2>2. x \in {a, b, c, d}
    <3> HIDE DEF a, b, c, d
    <3>1. SharcStartup = <<a, b, c, d>>
      BY DEF SharcStartup, a, b, c, d
    <3> QED BY <2>1, <3>1 DEF Elements
  <2> QED BY <1>1, <2>2 DEF StartupOps
<1> QED BY <1>2, <1>3

\* The initial states.
LEMMA AudioInit == Init => AudioInv
<1> SUFFICES ASSUME Init PROVE AudioInv
  OBVIOUS
<1>1. IndInv
  BY InitInv
<1>2. /\ \A t \in Thread : /\ t[2] = "irq" => todo[t] = <<>>
                           /\ todo[t] \in {<<>>, ArmStartup, SharcStartup}
      /\ \A c \in Core : todo[<<c, "task">>] \in {ArmStartup, SharcStartup}
  <2>1. todo = [t \in Thread |-> IF t[2] = "irq" THEN <<>>
                                 ELSE IF t[1] = "ARM" THEN ArmStartup ELSE SharcStartup]
    BY DEF Init
  <2>2. \A c \in Core : <<c, "task">> \in Thread /\ <<c, "task">>[2] # "irq"
    BY DEF Thread
  <2> QED BY <2>1, <2>2
<1>3. \A s \in Sharcs : <<s, "irq">> \in Thread /\ s \in Core /\ todo[<<s, "irq">>] = <<>>
  BY <1>2, Threads DEF Thread, Core
<1>4. Talk
  <2>1. \A x : x.op \in StartupOps => \A t : Quiet(t, x)
    BY DEF StartupOps, Quiet, Audible, Routing
  <2>2. \A t \in Thread : \A x \in Elements(todo[t]) : Quiet(t, x)
    BY <1>2, <2>1, StartupIsMeek, EmptyList
  <2>3. \A s \in Sharcs : 2 .. Len(todo[<<s, "irq">>]) = {}
    <3>1. 2 .. Len(<<>>) = {}
      OBVIOUS
    <3> QED BY <1>3, <3>1
  <2> QED BY <2>2, <2>3 DEF Talk
<1>5. AudioTypes /\ Silence /\ Prepared /\ BlocksReturn
  <2>1. AudioTypes
    BY DEF Init, AudioTypes, Dirs
  <2>2. Silence /\ BlocksReturn
    BY DEF Init, Silence, BlocksReturn
  <2> QED BY <1>2, <2>1, <2>2 DEF Prepared
<1>6. Staged
  <2> PICK m : m = Cycles("SHARC0")
    OBVIOUS
  <2>1. m \in Msg /\ "IN" \in Dirs
    BY DEF Msg, Persistent, Dirs, Sharcs
  <2>2. Arrived = {} /\ {} # Dirs
    BY DEF Init, Arrived, Dirs
  <2>3. Listed(13, "IN", m)
    <3>1. ArmIrq \in Thread /\ ArmIrq[2] = "irq"
      BY Threads DEF ArmIrq
    <3>2. Elements(todo[ArmIrq]) = {}
      BY <1>2, <3>1, EmptyList
    <3> QED BY <2>2, <3>2 DEF Listed
  <2>4. ASSUME NEW s \in Sharcs PROVE Pair(13, "IN", s) /\ LineIs(13, "IN", s) /\ InTime(13, s)
    <3>1. /\ ~Telling(13) /\ Swapped(13, "IN", s) = {} /\ SentDirs(13, "IN", s) = {} /\ Told(13, s) = FALSE
      BY <2>2 DEF Telling, Swapped, SentDirs, Told, At
    <3>2. block = 0 /\ \A e \in Dirs : pp[e][s] = Kept(0) /\ stream[e][s] = None /\ info[s][e] = None
      BY DEF Init, Dirs, Kept
    <3>3. LineAt(s) = LineOf(Nil, <<>>)
      <4>1. queue[s] = <<>>
        BY <1>3 DEF Init
      <4> QED BY <1>3, <4>1 DEF LineAt, Doing, First
    <3>4. \A x \in Audio : data[x] = 0
      BY DEF Init
    <3>5. Pipe(s, LineAt(s), block, {}, FALSE, info[s], data)
      BY <3>2, <3>3, <3>4, PipeBegins
    <3> QED BY <2>2, <3>1, <3>2, <3>5 DEF Pair, LineIs, InTime
  <2>5. Phase(13, "IN", m)
    BY <2>3, <2>4 DEF Phase
  <2> QED BY <2>1, <2>5 DEF Staged
<1> QED BY <1>1, <1>4, <1>5, <1>6 DEF AudioInv, Basics

\* The invariant of the audio is inductive as long as the SHARCs keep the
\* deadline and no call of the ARM's interrupt is refused.
LEMMA AudioInductive ==
  ASSUME Deadline
  PROVE  Spec /\ []Accepted => []AudioInv
<1>1. AudioInv /\ Accepted /\ [Next]_vars => AudioInv'
  <2> SUFFICES ASSUME AudioInv, Accepted, [Next]_vars PROVE AudioInv'
    OBVIOUS
  <2>1. ASSUME NEW t \in Thread, Step(t) PROVE AudioInv'
    <3>1. CASE t = ArmIrq
      BY <2>1, <3>1, ArmStepKeeps
    <3>2. CASE t # ArmIrq
      BY <2>1, <3>2, OtherStepsKeep
    <3> QED BY <3>1, <3>2
  <2>2. ASSUME NEW c \in Core, Receive(c) PROVE AudioInv'
    <3>1. CASE c = "ARM"
      BY <2>2, <3>1, ArmReceives
    <3>2. CASE c \in Sharcs
      BY <2>2, <3>2, SharcReceives
    <3> QED BY <3>1, <3>2 DEF Core
  <2>3. ASSUME NEW c \in {"CODEC_IN", "CODEC_OUT"}, codecAudio(c) PROVE AudioInv'
    BY <2>3, CodecStep
  <2>4. CASE houseKeepingTask
    BY <2>4, HouseStep
  <2>5. CASE UNCHANGED vars
    BY <2>5, NoStep
  <2> QED BY <2>1, <2>2, <2>3, <2>4, <2>5 DEF Next, Finished
<1> QED BY AudioInit, <1>1, PTL DEF Spec

\* What the ARM reads back of a SHARC is the block before the one it routes,
\* with nothing lost, repeated or out of order (routeAudio, audioReady): as long
\* as the SHARCs deal with a block before the next is complete and no call of
\* the ARM's interrupt is refused, for whatever the queues and the heap hold.
THEOREM BlocksComeBack ==
  ASSUME Deadline
  PROVE  Spec /\ []Accepted => []BlocksReturn
<1>1. AudioInv => BlocksReturn
  BY DEF AudioInv
<1> QED BY AudioInductive, <1>1, PTL

\* The ARM routes between buffers it has kept, and a SHARC works on others.
LEMMA BuffersApart ==
  ASSUME AudioInv
  PROVE  NoSharedBuffer
<1>1. IndInv /\ Talk /\ AudioTypes /\ block \in Nat
  BY DEF AudioInv, Basics, AudioTypes
<1>2. PICK k \in 0 .. 13, d \in Dirs, m \in Msg : Phase(k, d, m)
  BY DEF AudioInv, Staged
<1>3. ASSUME NEW t \in Thread, t # ArmIrq, \A s \in Sharcs : t # <<s, "irq">> PROVE Touches(t) = {}
  <2>1. CASE todo[t] = <<>>
    BY <2>1 DEF Touches
  <2>2. CASE todo[t] # <<>>
    <3>1. todo[t] \in Seq(Call)
      BY <1>1 DEF IndInv, Types
    <3>2. Quiet(t, Head(todo[t]))
      BY <1>1, <2>2, <3>1, HeadIsProper DEF Talk
    <3>3. \A s : t[1] = s /\ t[2] = "irq" => t = <<s, "irq">>
      BY DEF Thread
    <3>4. Head(todo[t]).op \notin {"route", "audio", "process"}
      BY <1>3, <3>2, <3>3 DEF Quiet, Audible, Routing
    <3> QED BY <2>2, <3>4 DEF Touches
  <2> QED BY <2>1, <2>2
<1>4. ASSUME NEW x \in Touches(ArmIrq)
      PROVE  k = 12 /\ \E e \in Dirs, s \in Sharcs : x = Buffer(e, s, Kept(block))
  <2>1. todo[ArmIrq] # <<>>
    BY <1>4 DEF Touches
  <2>2. PICK op : op = Head(todo[ArmIrq])
    OBVIOUS
  <2>3. StageOf(k, d, m, op)
    BY <1>1, <1>2, <2>1, <2>2, HeadStage
  <2>4. op.op \notin {"audio", "process"}
    BY <2>3 DEF StageOf
  <2>5. op.op = "route" /\ x \in {Buffer(e, s, stream[e][s]) : e \in Dirs, s \in Sharcs}
    BY <1>4, <2>1, <2>2, <2>4 DEF Touches, Dirs
  <2>6. k = 12
    BY <2>3, <2>5 DEF StageOf
  <2>7. \A e \in Dirs, s \in Sharcs : stream[e][s] = Kept(block)
    <3>1. Phase(12, d, m)
      BY <1>2, <2>6
    <3>2. Telling(12) /\ \A s : Swapped(12, d, s) = Dirs
      BY DEF Telling, Swapped
    <3> QED BY <3>1, <3>2 DEF Phase, Pair
  <2> QED BY <2>5, <2>6, <2>7
<1>5. ASSUME NEW s \in Sharcs, NEW x \in Touches(<<s, "irq">>)
      PROVE  x.core = s /\ (k = 12 => x.id # Kept(block))
  <2> DEFINE t == <<s, "irq">>
  <2>1. t \in Thread /\ t # ArmIrq /\ t[1] = s
    BY Threads DEF Thread, ArmIrq, Core
  <2>2. todo[t] # <<>>
    BY <1>5 DEF Touches
  <2>3. PICK op : op = Head(todo[t])
    OBVIOUS
  <2>4. op \in Elements(todo[t]) /\ Quiet(t, op)
    <3>1. todo[t] \in Seq(Call)
      BY <1>1, <2>1 DEF IndInv, Types
    <3> QED BY <1>1, <2>1, <2>2, <2>3, <3>1, HeadIsProper DEF Talk
  <2>5. op.op # "route"
    BY <2>1, <2>4 DEF Quiet, Routing
  <2>6. LineAt(s)[0] = CallItem(op) /\ 0 \in DOMAIN LineAt(s)
    <3>1. LineAt(s)[0] = Doing(s) /\ Doing(s) = CallItem(op) /\ IsLine(LineAt(s), Len(queue[s]))
      BY <1>1, <2>2, <2>3, DoingIsItem
    <3> QED BY <3>1, ItemsOf
  <2>7. Pipe(s, LineAt(s), block, SentDirs(k, d, s), Told(k, s), info[s], data)
    BY <1>2 DEF Phase, LineIs
  <2>8. k = 12 => Told(k, s) = TRUE /\ Now(Items(LineAt(s)), block, Told(k, s)) = Sent(block)
    BY DEF Told, Telling, Now
  <2>9. Kept(block) # Sent(block) /\ Sent(block) \in 0 .. 1
    BY <1>1, Parity
  <2>10. CASE op.op = "audio"
    <3>1. x = op.msg /\ x \in Audio
      BY <1>5, <2>2, <2>3, <2>4, <2>10 DEF Touches, Quiet
    <3>2. x \in Items(LineAt(s))
      BY <2>6, <2>10, <3>1, BufferParts DEF CallItem, Items
    <3>3. x.core = s /\ (x.id = Kept(block) => Now(Items(LineAt(s)), block, Told(k, s)) = Kept(block))
      BY <2>7, <3>1, <3>2 DEF Pipe, Content, LineOK
    <3> QED BY <2>8, <2>9, <3>3
  <2>11. CASE op.op = "process"
    <3>1. Both(s) /\ x \in {Buffer(e, s, info[s][e]) : e \in Dirs}
      BY <1>5, <2>1, <2>2, <2>3, <2>11 DEF Touches, Dirs
    <3>2. PICK e \in Dirs : x = Buffer(e, s, info[s][e])
      BY <3>1
    <3>3. info[s][e] # None
      BY <3>1 DEF Both, Dirs
    <3>4. x.core = s /\ x.id = info[s][e]
      BY <3>2 DEF Buffer, Message
    <3>5. InfoOK(s, Items(LineAt(s)), block, SentDirs(k, d, s), Told(k, s), info[s])
      BY <2>7 DEF Pipe, Content
    <3>6. k = 12 => info[s][e] = Sent(block)
      BY <2>8, <2>9, <3>3, <3>5 DEF InfoOK
    <3> QED BY <2>9, <3>4, <3>6
  <2>12. op.op \in {"audio", "process"}
    BY <1>5, <2>2, <2>3, <2>5 DEF Touches
  <2> QED BY <2>10, <2>11, <2>12
<1>6. SUFFICES ASSUME NEW t \in Thread, NEW u \in Thread, t # u, NEW x \in Touches(t) \cap Touches(u) PROVE FALSE
  BY DEF NoSharedBuffer
<1>7. ASSUME NEW s \in Sharcs, x \in Touches(ArmIrq), x \in Touches(<<s, "irq">>) PROVE FALSE
  <2>1. k = 12 /\ x.id # Kept(block)
    BY <1>4, <1>5, <1>7
  <2>2. PICK e \in Dirs, r \in Sharcs : x = Buffer(e, r, Kept(block))
    BY <1>4, <1>7
  <2> QED BY <2>1, <2>2 DEF Buffer, Message
<1>8. ASSUME NEW s \in Sharcs, NEW r \in Sharcs, s # r, x \in Touches(<<s, "irq">>), x \in Touches(<<r, "irq">>)
      PROVE  FALSE
  BY <1>5, <1>8
<1>9. /\ t = ArmIrq \/ \E s \in Sharcs : t = <<s, "irq">>
      /\ u = ArmIrq \/ \E s \in Sharcs : u = <<s, "irq">>
  BY <1>3, <1>6
<1> QED BY <1>6, <1>7, <1>8, <1>9

\* No two interrupts, on whatever cores, ever work on the same buffer, under the
\* same two conditions: that is what the two parts of a pair are for.
THEOREM BuffersAreApart ==
  ASSUME Deadline
  PROVE  Spec /\ []Accepted => []NoSharedBuffer
BY AudioInductive, BuffersApart, PTL

-----------------------------------------------------------------------------
(* How much a thread can have in hand *)

\* The first of a list is replaced by "then".
LEMMA NumberGoesOn ==
  ASSUME NEW l \in Seq(Call), l # <<>>, NEW then \in Seq(Call), NEW S
  PROVE  /\ Number(then \o Tail(l), 1, S) = Number(then, 1, S) + Number(Tail(l), 1, S)
         /\ Number(l, 1, S) = Number(Tail(l), 1, S) + (IF Head(l) \in S THEN 1 ELSE 0)
         /\ Number(then, 1, S) \in Nat /\ Number(Tail(l), 1, S) \in Nat
<1> DEFINE b == Tail(l)
           r == then \o b
<1>1. /\ b \in Seq(Call) /\ Len(b) = Len(l) - 1 /\ 1 \in 1 .. Len(l) /\ Head(l) = l[1]
      /\ \A i \in 1 .. Len(b) : b[i] = l[i + 1]
  BY TailOfCalls
<1> HIDE DEF b
<1>2. r \in Seq(Call) /\ Joined(then, b, r) /\ 1 \in 1 .. Len(then) + 1
  <2>1. b \in Seq(Call)
    BY <1>1
  <2>2. \A p, q \in Seq(Call) : p \o q \in Seq(Call) /\ Joined(p, q, p \o q) /\ 1 \in 1 .. Len(p) + 1
    BY DEF Joined
  <2> QED BY <2>1, <2>2
<1> HIDE DEF r
<1>3. Number(r, 1, S) = Number(then, 1, S) + Number(b, 1, S)
  BY <1>1, <1>2, NumberOfBoth
<1>4. Number(l, 1 + 1, S) = Number(b, 1, S)
  <2>1. Shifted(b, 1, l, 1) /\ 1 \in Nat /\ 1 \in Int /\ 1 + 1 \in Nat
    BY <1>1 DEF Shifted
  <2> QED BY <1>1, <2>1, NumberShift
<1>5. Number(l, 1, S) = Number(l, 1 + 1, S) + (IF l[1] \in S THEN 1 ELSE 0)
  BY <1>1, NumberStep
<1>6. Number(then, 1, S) \in Nat /\ Number(b, 1, S) \in Nat
  <2>1. 1 \in Nat
    OBVIOUS
  <2> QED BY <1>1, <2>1, PlacesFinite
<1> QED BY <1>1, <1>3, <1>4, <1>5, <1>6 DEF b, r

\* Counting goes one place at a time.
LEMMA NumberByStep ==
  ASSUME NEW s \in Seq(Call), NEW S
  PROVE  /\ \A j : \A k \in 1 .. Len(s) : j = k + 1 => Number(s, k, S) = Number(s, j, S) + In(s[k], S)
         /\ \A j : j = Len(s) + 1 => Number(s, j, S) = 0
<1>1. Len(s) + 1 \in Nat /\ \A i \in Len(s) + 1 .. Len(s) : FALSE
  OBVIOUS
<1>2. Number(s, Len(s) + 1, S) = 0
  BY <1>1, NumberOfNone
<1> QED BY <1>2, NumberStep DEF In

\* What a list of one call, and of up to five, has of S.
LEMMA NumberOfOne ==
  ASSUME NEW a \in Call, NEW S
  PROVE  Number(<<a>>, 1, S) = In(a, S)
<1> DEFINE s == <<a>>
<1>1. s \in Seq(Call) /\ Len(s) = 1 /\ s[1] = a
  OBVIOUS
<1> HIDE DEF s
<1>2. 1 \in 1 .. Len(s) /\ 2 = 1 + 1 /\ 2 = Len(s) + 1
  BY <1>1
<1>3. Number(s, 1, S) = Number(s, 2, S) + In(a, S) /\ Number(s, 2, S) = 0
  BY <1>1, <1>2, NumberByStep
<1>4. \A x : In(x, S) \in {0, 1}
  BY DEF In
<1> QED BY <1>3, <1>4 DEF s

LEMMA NumberOfTwo ==
  ASSUME NEW a \in Call, NEW b \in Call, NEW S
  PROVE  Number(<<a, b>>, 1, S) = In(a, S) + In(b, S)
<1> DEFINE s == <<a, b>>
<1>1. s \in Seq(Call) /\ Len(s) = 2 /\ s[1] = a /\ s[2] = b
  OBVIOUS
<1> HIDE DEF s
<1>2. 1 \in 1 .. Len(s) /\ 2 = 1 + 1 /\ 2 \in 1 .. Len(s) /\ 3 = 2 + 1 /\ 3 = Len(s) + 1
  BY <1>1
<1>3. Number(s, 2, S) = Number(s, 3, S) + In(b, S) /\ Number(s, 3, S) = 0
  BY <1>1, <1>2, NumberByStep
<1>4. Number(s, 1, S) = Number(s, 2, S) + In(a, S)
  BY <1>1, <1>2, NumberByStep
<1>5. \A x : In(x, S) \in {0, 1}
  BY DEF In
<1> QED BY <1>3, <1>4, <1>5 DEF s

LEMMA NumberOfThree ==
  ASSUME NEW a \in Call, NEW b \in Call, NEW c \in Call, NEW S
  PROVE  Number(<<a, b, c>>, 1, S) = In(a, S) + In(b, S) + In(c, S)
<1> DEFINE s == <<a, b, c>>
<1>1. s \in Seq(Call) /\ Len(s) = 3 /\ s[1] = a /\ s[2] = b /\ s[3] = c
  OBVIOUS
<1> HIDE DEF s
<1>2. 1 \in 1 .. Len(s) /\ 2 = 1 + 1 /\ 2 \in 1 .. Len(s) /\ 3 = 2 + 1 /\ 3 \in 1 .. Len(s) /\ 4 = 3 + 1 /\ 4 = Len(s) + 1
  BY <1>1
<1>3. Number(s, 3, S) = Number(s, 4, S) + In(c, S) /\ Number(s, 4, S) = 0
  BY <1>1, <1>2, NumberByStep
<1>4. Number(s, 2, S) = Number(s, 3, S) + In(b, S)
  BY <1>1, <1>2, NumberByStep
<1>5. Number(s, 1, S) = Number(s, 2, S) + In(a, S)
  BY <1>1, <1>2, NumberByStep
<1>6. \A x : In(x, S) \in {0, 1}
  BY DEF In
<1> QED BY <1>3, <1>4, <1>5, <1>6 DEF s

LEMMA NumberOfFour ==
  ASSUME NEW a \in Call, NEW b \in Call, NEW c \in Call, NEW d \in Call, NEW S
  PROVE  Number(<<a, b, c, d>>, 1, S) = In(a, S) + In(b, S) + In(c, S) + In(d, S)
<1> DEFINE s == <<a, b, c, d>>
<1>1. s \in Seq(Call) /\ Len(s) = 4 /\ s[1] = a /\ s[2] = b /\ s[3] = c /\ s[4] = d
  OBVIOUS
<1> HIDE DEF s
<1>2. 1 \in 1 .. Len(s) /\ 2 = 1 + 1 /\ 2 \in 1 .. Len(s) /\ 3 = 2 + 1 /\ 3 \in 1 .. Len(s) /\ 4 = 3 + 1 /\ 4 \in 1 .. Len(s) /\ 5 = 4 + 1 /\ 5 = Len(s) + 1
  BY <1>1
<1>3. Number(s, 4, S) = Number(s, 5, S) + In(d, S) /\ Number(s, 5, S) = 0
  BY <1>1, <1>2, NumberByStep
<1>4. Number(s, 3, S) = Number(s, 4, S) + In(c, S)
  BY <1>1, <1>2, NumberByStep
<1>5. Number(s, 2, S) = Number(s, 3, S) + In(b, S)
  BY <1>1, <1>2, NumberByStep
<1>6. Number(s, 1, S) = Number(s, 2, S) + In(a, S)
  BY <1>1, <1>2, NumberByStep
<1>7. \A x : In(x, S) \in {0, 1}
  BY DEF In
<1> QED BY <1>3, <1>4, <1>5, <1>6, <1>7 DEF s

LEMMA NumberOfFive ==
  ASSUME NEW a \in Call, NEW b \in Call, NEW c \in Call, NEW d \in Call, NEW e \in Call, NEW S
  PROVE  Number(<<a, b, c, d, e>>, 1, S) = In(a, S) + In(b, S) + In(c, S) + In(d, S) + In(e, S)
<1> DEFINE s == <<a, b, c, d, e>>
<1>1. s \in Seq(Call) /\ Len(s) = 5 /\ s[1] = a /\ s[2] = b /\ s[3] = c /\ s[4] = d /\ s[5] = e
  OBVIOUS
<1> HIDE DEF s
<1>2. 1 \in 1 .. Len(s) /\ 2 = 1 + 1 /\ 2 \in 1 .. Len(s) /\ 3 = 2 + 1 /\ 3 \in 1 .. Len(s) /\ 4 = 3 + 1 /\ 4 \in 1 .. Len(s) /\ 5 = 4 + 1 /\ 5 \in 1 .. Len(s) /\ 6 = 5 + 1 /\ 6 = Len(s) + 1
  BY <1>1
<1>3. Number(s, 5, S) = Number(s, 6, S) + In(e, S) /\ Number(s, 6, S) = 0
  BY <1>1, <1>2, NumberByStep
<1>4. Number(s, 4, S) = Number(s, 5, S) + In(d, S)
  BY <1>1, <1>2, NumberByStep
<1>5. Number(s, 3, S) = Number(s, 4, S) + In(c, S)
  BY <1>1, <1>2, NumberByStep
<1>6. Number(s, 2, S) = Number(s, 3, S) + In(b, S)
  BY <1>1, <1>2, NumberByStep
<1>7. Number(s, 1, S) = Number(s, 2, S) + In(a, S)
  BY <1>1, <1>2, NumberByStep
<1>8. \A x : In(x, S) \in {0, 1}
  BY DEF In
<1> QED BY <1>3, <1>4, <1>5, <1>6, <1>7, <1>8 DEF s

\* The empty list has nothing.
LEMMA NumberOfEmpty == \A S : Number(<<>>, 1, S) = 0
<1>1. <<>> \in Seq(Call) /\ 1 \in Nat /\ \A i \in 1 .. Len(<<>>) : FALSE
  OBVIOUS
<1> QED BY <1>1, NumberOfNone

\* The calls that create a short message, and how often the list they are

\* What may replace the first call of l.
Allowed(t, l, then) ==
  /\ then \in Seq(Call) /\ Load(then) <= Weight(Head(l))
  /\ \A m \in Msg : \/ Number(then, 1, Gifts(m)) <= In(Head(l), Gifts(m))
                    \/ Number(then, 1, Gifts(m)) + Number(Tail(l), 1, Gifts(m)) <= 3
  /\ \A i \in 1 .. Len(then) : then[i].op = "route" => i = Len(then)
  /\ \A x \in Elements(then) : x.op # "domain" /\ (x.op = "route" => Head(l).op = "domain") /\ Apt(t, x)

\* Limits survive the replacement of the first call by what is allowed.
LEMMA LimitsKept ==
  ASSUME NEW t \in Thread, NEW l \in Seq(Call), l # <<>>, NEW then, Limits(l, t), Allowed(t, l, then)
  PROVE  Limits(then \o Tail(l), t)
<1> DEFINE b == Tail(l)
           r == then \o b
<1>1. then \in Seq(Call)
  BY DEF Allowed
<1>2. /\ b \in Seq(Call) /\ Len(b) = Len(l) - 1 /\ 1 \in 1 .. Len(l)
      /\ \A i \in 1 .. Len(b) : b[i] = l[i + 1]
  BY TailOfCalls
<1>3. r \in Seq(Call) /\ Len(r) = Len(then) + Len(b)
      /\ \A i \in 1 .. Len(r) : \/ i \in 1 .. Len(then) /\ r[i] = then[i]
                                \/ i - Len(then) \in 1 .. Len(b) /\ r[i] = b[i - Len(then)]
  BY <1>1, <1>2
<1>4. \A S : /\ Number(r, 1, S) = Number(then, 1, S) + Number(b, 1, S)
             /\ Number(l, 1, S) = Number(b, 1, S) + In(Head(l), S)
             /\ Number(then, 1, S) \in Nat /\ Number(b, 1, S) \in Nat /\ In(Head(l), S) \in Nat
  BY <1>1, NumberGoesOn DEF In
<1> HIDE DEF b, r
<1>5. Load(r) <= Cap(t)
  <2>1. Load(r) = Load(then) + Load(b) /\ Load(l) = Load(b) + Weight(Head(l))
        /\ Load(then) \in Nat /\ Load(b) \in Nat /\ Weight(Head(l)) \in Nat
    <3>1. /\ Number(r, 1, GivesShort) = Number(then, 1, GivesShort) + Number(b, 1, GivesShort)
          /\ Number(r, 1, GivesTwice) = Number(then, 1, GivesTwice) + Number(b, 1, GivesTwice)
          /\ Number(r, 1, GivesThrice) = Number(then, 1, GivesThrice) + Number(b, 1, GivesThrice)
          /\ Number(l, 1, GivesShort) = Number(b, 1, GivesShort) + In(Head(l), GivesShort)
          /\ Number(l, 1, GivesTwice) = Number(b, 1, GivesTwice) + In(Head(l), GivesTwice)
          /\ Number(l, 1, GivesThrice) = Number(b, 1, GivesThrice) + In(Head(l), GivesThrice)
      BY <1>4
    <3>2. PICK p1, p2, p3, q1, q2, q3, w1, w2, w3 :
            /\ p1 = Number(then, 1, GivesShort) /\ p2 = Number(then, 1, GivesTwice) /\ p3 = Number(then, 1, GivesThrice)
            /\ q1 = Number(b, 1, GivesShort) /\ q2 = Number(b, 1, GivesTwice) /\ q3 = Number(b, 1, GivesThrice)
            /\ w1 = In(Head(l), GivesShort) /\ w2 = In(Head(l), GivesTwice) /\ w3 = In(Head(l), GivesThrice)
      OBVIOUS
    <3>3. /\ p1 \in Nat /\ p2 \in Nat /\ p3 \in Nat /\ q1 \in Nat /\ q2 \in Nat /\ q3 \in Nat
          /\ w1 \in Nat /\ w2 \in Nat /\ w3 \in Nat
      BY <1>4, <3>2
    <3>4. /\ Load(r) = (p1 + q1) + (p2 + q2) + (p3 + q3) /\ Load(then) = p1 + p2 + p3
          /\ Load(b) = q1 + q2 + q3
          /\ Load(l) = (q1 + w1) + (q2 + w2) + (q3 + w3) /\ Weight(Head(l)) = w1 + w2 + w3
      BY <3>1, <3>2, Zenon DEF Load, Weight
    <3> QED BY <3>3, <3>4
  <2>2. Load(then) <= Weight(Head(l)) /\ Load(l) <= Cap(t) /\ Cap(t) \in Nat
    BY DEF Allowed, Limits, Cap
  <2> QED BY <2>1, <2>2
<1>6. ASSUME NEW m \in Msg PROVE Number(r, 1, Gifts(m)) <= 3
  <2>1. /\ Number(r, 1, Gifts(m)) = Number(then, 1, Gifts(m)) + Number(b, 1, Gifts(m))
        /\ Number(l, 1, Gifts(m)) = Number(b, 1, Gifts(m)) + In(Head(l), Gifts(m))
        /\ Number(then, 1, Gifts(m)) \in Nat /\ Number(b, 1, Gifts(m)) \in Nat /\ In(Head(l), Gifts(m)) \in Nat
    BY <1>4
  <2>2. /\ \/ Number(then, 1, Gifts(m)) <= In(Head(l), Gifts(m))
           \/ Number(then, 1, Gifts(m)) + Number(b, 1, Gifts(m)) <= 3
        /\ Number(l, 1, Gifts(m)) <= 3
    BY DEF Allowed, Limits, b
  <2> QED BY <2>1, <2>2
<1>7. ASSUME NEW i \in 1 .. Len(r), r[i].op \in {"domain", "route"} PROVE i = Len(r)
  <2>1. CASE i \in 1 .. Len(then) /\ r[i] = then[i]
    <3>1. then[i] \in Elements(then)
      BY <2>1 DEF Elements
    <3>2. i = Len(then) /\ Head(l).op = "domain"
      BY <1>7, <2>1, <3>1 DEF Allowed
    <3>3. Head(l) = l[1] /\ l[1].op = "domain"
      BY <3>2, TailOfCalls
    <3>4. 1 = Len(l)
      BY <1>2, <3>3 DEF Limits
    <3>5. Len(r) = Len(then) + (Len(l) - 1) /\ Len(then) \in Nat /\ Len(l) \in Nat
      BY <1>1, <1>2, <1>3
    <3>6. Len(r) = Len(then)
      <4>1. PICK p, q, n : p = Len(r) /\ q = Len(then) /\ n = Len(l)
        OBVIOUS
      <4>2. n = 1 /\ p = q + (n - 1) /\ q \in Nat
        BY <3>4, <3>5, <4>1
      <4>3. p = q
        BY <4>2
      <4> QED BY <4>1, <4>3
    <3> QED BY <3>2, <3>6
  <2>2. CASE i - Len(then) \in 1 .. Len(b) /\ r[i] = b[i - Len(then)]
    <3>1. PICK j : j = i - Len(then)
      OBVIOUS
    <3>2. j \in 1 .. Len(b) /\ r[i] = b[j] /\ i = Len(then) + j
      BY <1>1, <2>2, <3>1
    <3>3. j + 1 \in 1 .. Len(l) /\ r[i] = l[j + 1]
      BY <1>2, <3>2
    <3>4. j + 1 = Len(l)
      BY <1>7, <3>3 DEF Limits
    <3>5. Len(r) = Len(then) + (Len(l) - 1) /\ Len(then) \in Nat /\ Len(l) \in Nat /\ j \in Int
      BY <1>1, <1>2, <1>3, <3>2
    <3> QED BY <3>2, <3>4, <3>5
  <2> QED BY <1>3, <2>1, <2>2
<1>8. \A x \in Elements(r) : Apt(t, x)
  <2>1. Elements(r) \subseteq Elements(then) \cup Elements(l)
    BY <1>1, GoesOn DEF r, b
  <2> QED BY <2>1 DEF Allowed, Limits
<1> QED BY <1>5, <1>6, <1>7, <1>8 DEF Limits, r, b

-----------------------------------------------------------------------------
(* What the calls weigh *)

\* What each call weighs, and which give a message away.
LEMMA Weights ==
  ASSUME NEW x \in Call
  PROVE  /\ Weight(x) \in Nat
         /\ x.op \in {"ping", "ask"} => Weight(x) = 2
         /\ x.op = "domain" => Weight(x) = 3
         /\ x.op \in {"announce", "reply"} => Weight(x) = 1
         /\ x.op \in {"send", "unref"} => Weight(x) = IF x.msg \in Short THEN 1 ELSE 0
         /\ x.op \notin Makes \cup {"send", "unref"} => Weight(x) = 0
<1>1. /\ x \in GivesShort <=> x.op \in Makes \/ (x.op \in {"send", "unref"} /\ x.msg \in Short)
      /\ x \in GivesTwice <=> x.op \in {"ping", "ask", "domain"}
      /\ x \in GivesThrice <=> x.op = "domain"
  BY DEF GivesShort, GivesTwice, GivesThrice
<1>2. PICK p, q, r : p = In(x, GivesShort) /\ q = In(x, GivesTwice) /\ r = In(x, GivesThrice)
  OBVIOUS
<1>3. Weight(x) = p + q + r
  BY <1>2, Zenon DEF Weight
<1>4. /\ p = IF x.op \in Makes \/ (x.op \in {"send", "unref"} /\ x.msg \in Short) THEN 1 ELSE 0
      /\ q = IF x.op \in {"ping", "ask", "domain"} THEN 1 ELSE 0
      /\ r = IF x.op = "domain" THEN 1 ELSE 0
  BY <1>1, <1>2 DEF In
<1> QED BY <1>3, <1>4 DEF Makes

\* A call gives each message away at most once.
LEMMA GiftsOf ==
  ASSUME NEW x \in Call, NEW m
  PROVE  /\ In(x, Gifts(m)) \in 0 .. 1
         /\ x.op \in {"send", "unref"} => In(x, Gifts(m)) = IF x.msg = m THEN 1 ELSE 0
         /\ x.op = "xfer" => In(x, Gifts(m)) = IF m \in Audio /\ x.msg.type = m.type /\ x.core = m.core THEN 1 ELSE 0
         /\ x.op \notin {"send", "unref", "xfer"} => In(x, Gifts(m)) = 0
BY DEF In, Gifts, Gives

\* The load of a few calls is what they weigh.
LEMMA LoadOfOne ==
  ASSUME NEW a \in Call
  PROVE  Load(<<a>>) = Weight(a)
<1>1. PICK p1, q1, r1 :
        /\ p1 = In(a, GivesShort) /\ q1 = In(a, GivesTwice) /\ r1 = In(a, GivesThrice)
  OBVIOUS
<1>2. /\ p1 \in Nat /\ q1 \in Nat /\ r1 \in Nat
  BY <1>1 DEF In
<1>3. /\ Number(<<a>>, 1, GivesShort) = p1
      /\ Number(<<a>>, 1, GivesTwice) = q1
      /\ Number(<<a>>, 1, GivesThrice) = r1
  BY <1>1, NumberOfOne
<1>4. Load(<<a>>) = (p1) + (q1) + (r1)
  BY <1>3, Zenon DEF Load
<1>5. /\ Weight(a) = p1 + q1 + r1
  BY <1>1, Zenon DEF Weight
<1> QED BY <1>2, <1>4, <1>5

LEMMA LoadOfTwo ==
  ASSUME NEW a \in Call, NEW b \in Call
  PROVE  Load(<<a, b>>) = Weight(a) + Weight(b)
<1>1. PICK p1, q1, r1, p2, q2, r2 :
        /\ p1 = In(a, GivesShort) /\ q1 = In(a, GivesTwice) /\ r1 = In(a, GivesThrice)
        /\ p2 = In(b, GivesShort) /\ q2 = In(b, GivesTwice) /\ r2 = In(b, GivesThrice)
  OBVIOUS
<1>2. /\ p1 \in Nat /\ q1 \in Nat /\ r1 \in Nat
      /\ p2 \in Nat /\ q2 \in Nat /\ r2 \in Nat
  BY <1>1 DEF In
<1>3. /\ Number(<<a, b>>, 1, GivesShort) = p1 + p2
      /\ Number(<<a, b>>, 1, GivesTwice) = q1 + q2
      /\ Number(<<a, b>>, 1, GivesThrice) = r1 + r2
  BY <1>1, NumberOfTwo
<1>4. Load(<<a, b>>) = (p1 + p2) + (q1 + q2) + (r1 + r2)
  BY <1>3, Zenon DEF Load
<1>5. /\ Weight(a) = p1 + q1 + r1
      /\ Weight(b) = p2 + q2 + r2
  BY <1>1, Zenon DEF Weight
<1> QED BY <1>2, <1>4, <1>5

LEMMA LoadOfThree ==
  ASSUME NEW a \in Call, NEW b \in Call, NEW c \in Call
  PROVE  Load(<<a, b, c>>) = Weight(a) + Weight(b) + Weight(c)
<1>1. PICK p1, q1, r1, p2, q2, r2, p3, q3, r3 :
        /\ p1 = In(a, GivesShort) /\ q1 = In(a, GivesTwice) /\ r1 = In(a, GivesThrice)
        /\ p2 = In(b, GivesShort) /\ q2 = In(b, GivesTwice) /\ r2 = In(b, GivesThrice)
        /\ p3 = In(c, GivesShort) /\ q3 = In(c, GivesTwice) /\ r3 = In(c, GivesThrice)
  OBVIOUS
<1>2. /\ p1 \in Nat /\ q1 \in Nat /\ r1 \in Nat
      /\ p2 \in Nat /\ q2 \in Nat /\ r2 \in Nat
      /\ p3 \in Nat /\ q3 \in Nat /\ r3 \in Nat
  BY <1>1 DEF In
<1>3. /\ Number(<<a, b, c>>, 1, GivesShort) = p1 + p2 + p3
      /\ Number(<<a, b, c>>, 1, GivesTwice) = q1 + q2 + q3
      /\ Number(<<a, b, c>>, 1, GivesThrice) = r1 + r2 + r3
  BY <1>1, NumberOfThree
<1>4. Load(<<a, b, c>>) = (p1 + p2 + p3) + (q1 + q2 + q3) + (r1 + r2 + r3)
  BY <1>3, Zenon DEF Load
<1>5. /\ Weight(a) = p1 + q1 + r1
      /\ Weight(b) = p2 + q2 + r2
      /\ Weight(c) = p3 + q3 + r3
  BY <1>1, Zenon DEF Weight
<1> QED BY <1>2, <1>4, <1>5

LEMMA LoadOfFour ==
  ASSUME NEW a \in Call, NEW b \in Call, NEW c \in Call, NEW d \in Call
  PROVE  Load(<<a, b, c, d>>) = Weight(a) + Weight(b) + Weight(c) + Weight(d)
<1>1. PICK p1, q1, r1, p2, q2, r2, p3, q3, r3, p4, q4, r4 :
        /\ p1 = In(a, GivesShort) /\ q1 = In(a, GivesTwice) /\ r1 = In(a, GivesThrice)
        /\ p2 = In(b, GivesShort) /\ q2 = In(b, GivesTwice) /\ r2 = In(b, GivesThrice)
        /\ p3 = In(c, GivesShort) /\ q3 = In(c, GivesTwice) /\ r3 = In(c, GivesThrice)
        /\ p4 = In(d, GivesShort) /\ q4 = In(d, GivesTwice) /\ r4 = In(d, GivesThrice)
  OBVIOUS
<1>2. /\ p1 \in Nat /\ q1 \in Nat /\ r1 \in Nat
      /\ p2 \in Nat /\ q2 \in Nat /\ r2 \in Nat
      /\ p3 \in Nat /\ q3 \in Nat /\ r3 \in Nat
      /\ p4 \in Nat /\ q4 \in Nat /\ r4 \in Nat
  BY <1>1 DEF In
<1>3. /\ Number(<<a, b, c, d>>, 1, GivesShort) = p1 + p2 + p3 + p4
      /\ Number(<<a, b, c, d>>, 1, GivesTwice) = q1 + q2 + q3 + q4
      /\ Number(<<a, b, c, d>>, 1, GivesThrice) = r1 + r2 + r3 + r4
  BY <1>1, NumberOfFour
<1>4. Load(<<a, b, c, d>>) = (p1 + p2 + p3 + p4) + (q1 + q2 + q3 + q4) + (r1 + r2 + r3 + r4)
  BY <1>3, Zenon DEF Load
<1>5. /\ Weight(a) = p1 + q1 + r1
      /\ Weight(b) = p2 + q2 + r2
      /\ Weight(c) = p3 + q3 + r3
      /\ Weight(d) = p4 + q4 + r4
  BY <1>1, Zenon DEF Weight
<1> QED BY <1>2, <1>4, <1>5

LEMMA LoadOfFive ==
  ASSUME NEW a \in Call, NEW b \in Call, NEW c \in Call, NEW d \in Call, NEW e \in Call
  PROVE  Load(<<a, b, c, d, e>>) = Weight(a) + Weight(b) + Weight(c) + Weight(d) + Weight(e)
<1>1. PICK p1, q1, r1, p2, q2, r2, p3, q3, r3, p4, q4, r4, p5, q5, r5 :
        /\ p1 = In(a, GivesShort) /\ q1 = In(a, GivesTwice) /\ r1 = In(a, GivesThrice)
        /\ p2 = In(b, GivesShort) /\ q2 = In(b, GivesTwice) /\ r2 = In(b, GivesThrice)
        /\ p3 = In(c, GivesShort) /\ q3 = In(c, GivesTwice) /\ r3 = In(c, GivesThrice)
        /\ p4 = In(d, GivesShort) /\ q4 = In(d, GivesTwice) /\ r4 = In(d, GivesThrice)
        /\ p5 = In(e, GivesShort) /\ q5 = In(e, GivesTwice) /\ r5 = In(e, GivesThrice)
  OBVIOUS
<1>2. /\ p1 \in Nat /\ q1 \in Nat /\ r1 \in Nat
      /\ p2 \in Nat /\ q2 \in Nat /\ r2 \in Nat
      /\ p3 \in Nat /\ q3 \in Nat /\ r3 \in Nat
      /\ p4 \in Nat /\ q4 \in Nat /\ r4 \in Nat
      /\ p5 \in Nat /\ q5 \in Nat /\ r5 \in Nat
  BY <1>1 DEF In
<1>3. /\ Number(<<a, b, c, d, e>>, 1, GivesShort) = p1 + p2 + p3 + p4 + p5
      /\ Number(<<a, b, c, d, e>>, 1, GivesTwice) = q1 + q2 + q3 + q4 + q5
      /\ Number(<<a, b, c, d, e>>, 1, GivesThrice) = r1 + r2 + r3 + r4 + r5
  BY <1>1, NumberOfFive
<1>4. Load(<<a, b, c, d, e>>) = (p1 + p2 + p3 + p4 + p5) + (q1 + q2 + q3 + q4 + q5) + (r1 + r2 + r3 + r4 + r5)
  BY <1>3, Zenon DEF Load
<1>5. /\ Weight(a) = p1 + q1 + r1
      /\ Weight(b) = p2 + q2 + r2
      /\ Weight(c) = p3 + q3 + r3
      /\ Weight(d) = p4 + q4 + r4
      /\ Weight(e) = p5 + q5 + r5
  BY <1>1, Zenon DEF Weight
<1> QED BY <1>2, <1>4, <1>5

\* The empty list has no load.
LEMMA LoadOfEmpty == Load(<<>>) = 0
<1>1. PICK p, q, r : p = Number(<<>>, 1, GivesShort) /\ q = Number(<<>>, 1, GivesTwice) /\ r = Number(<<>>, 1, GivesThrice)
  OBVIOUS
<1>2. p = 0 /\ q = 0 /\ r = 0
  BY <1>1, NumberOfEmpty
<1> QED BY <1>1, <1>2 DEF Load

-----------------------------------------------------------------------------
(* What a call may be replaced by *)

\* The parts of the calls that are made from a message.
LEMMA LibraryCalls ==
  ASSUME NEW m \in Msg
  PROVE  /\ Ref(m) \in Call /\ Ref(m).op = "ref" /\ Ref(m).msg = m
         /\ Unref(m) \in Call /\ Unref(m).op = "unref" /\ Unref(m).msg = m
         /\ \A c \in Core : Send(m, c) \in Call /\ Send(m, c).op = "send" /\ Send(m, c).msg = m
  BY CallsAreCalls DEF Ref, Unref, Send, Op

\* Calls of the library about m, the message or Nil.
About(then, m) ==
  then \in Seq(Call) /\ \A x \in Elements(then) : x.op \in {"ref", "send", "unref"} /\ x.msg = m

\* Such calls touch no other message and no audio.
LEMMA AboutApt ==
  ASSUME NEW m, NEW then, About(then, m), NEW t
  PROVE  /\ \A i \in 1 .. Len(then) : then[i].op # "route"
         /\ \A x \in Elements(then) : x.op # "domain" /\ x.op # "route" /\ Apt(t, x)
         /\ \A n \in Msg : n # m => Number(then, 1, Gifts(n)) = 0
<1>1. \A i \in 1 .. Len(then) : then[i] \in Elements(then)
  BY DEF Elements
<1>2. \A x \in Elements(then) : x.op \in {"ref", "send", "unref"} /\ x.msg = m
  BY DEF About
<1>3. ASSUME NEW n \in Msg, n # m PROVE Number(then, 1, Gifts(n)) = 0
  <2>1. \A i \in 1 .. Len(then) : then[i] \notin Gifts(n)
    BY <1>1, <1>2, <1>3 DEF Gifts, Gives
  <2>2. then \in Seq(Call) /\ 1 \in Nat
    BY DEF About
  <2> QED BY <2>1, <2>2, NumberOfNone
<1>4. \A x \in Elements(then) : x.op # "domain" /\ x.op # "route" /\ Apt(t, x)
  BY <1>2 DEF Apt, Routing, Audible
<1> QED BY <1>1, <1>2, <1>3, <1>4

\* A call that is simply done.
LEMMA AllowedNone ==
  ASSUME NEW t, NEW l \in Seq(Call), l # <<>>
  PROVE  Allowed(t, l, <<>>)
<1>1. Head(l) \in Call
  BY TailOfCalls
<1>2. Weight(Head(l)) \in Nat /\ Load(<<>>) = 0
  BY <1>1, Weights, LoadOfEmpty
<1>3. \A m \in Msg : Number(<<>>, 1, Gifts(m)) = 0 /\ In(Head(l), Gifts(m)) \in 0 .. 1
  BY <1>1, NumberOfEmpty, GiftsOf
<1>4. <<>> \in Seq(Call) /\ Elements(<<>>) = {} /\ \A i \in 1 .. Len(<<>>) : FALSE
  BY EmptyList
<1> QED BY <1>2, <1>3, <1>4 DEF Allowed

\* A send that is refused.
LEMMA AllowedUnref ==
  ASSUME NEW t, NEW l \in Seq(Call), l # <<>>, Head(l).op = "send", Head(l).msg \in Msg
  PROVE  Allowed(t, l, <<Unref(Head(l).msg)>>)
<1> DEFINE x == Head(l)
           m == x.msg
           u == Unref(m)
           then == <<u>>
<1>1. x \in Call /\ u \in Call /\ u.op = "unref" /\ u.msg = m
  BY TailOfCalls, LibraryCalls
<1>2. Weight(u) = Weight(x) /\ Weight(x) \in Nat
  BY <1>1, Weights
<1>3. \A n : In(u, Gifts(n)) = In(x, Gifts(n)) /\ In(x, Gifts(n)) \in 0 .. 1
  BY <1>1, GiftsOf
<1>4. Load(then) = Weight(u) /\ (\A n : Number(then, 1, Gifts(n)) = In(u, Gifts(n)))
  BY <1>1, LoadOfOne, NumberOfOne
<1>5. then \in Seq(Call) /\ Elements(then) = {u}
  BY <1>1, ListOfOne
<1> HIDE DEF then, u
<1>6. About(then, m)
  BY <1>1, <1>5 DEF About
<1>7. /\ \A i \in 1 .. Len(then) : then[i].op # "route"
      /\ \A y \in Elements(then) : y.op # "domain" /\ y.op # "route" /\ Apt(t, y)
  BY <1>6, AboutApt
<1>8. Load(then) <= Weight(x) /\ \A n : Number(then, 1, Gifts(n)) <= In(x, Gifts(n))
  BY <1>2, <1>3, <1>4
<1> QED BY <1>5, <1>7, <1>8 DEF Allowed, then, u

\* A transfer that begins.
LEMMA AllowedXfer ==
  ASSUME NEW t, NEW l \in Seq(Call), l # <<>>, Head(l).op = "xfer", NEW m \in Audio,
         m.type = Head(l).msg.type, m.core = Head(l).core
  PROVE  Allowed(t, l, <<Ref(m), Send(m, m.core)>>)
<1> DEFINE x == Head(l)
           f == Ref(m)
           g == Send(m, m.core)
           then == <<f, g>>
<1>1. x \in Call /\ m \in Msg /\ m.core \in Core /\ m \notin Short
  BY TailOfCalls, Messages DEF Msg, Call
<1>2. f \in Call /\ f.op = "ref" /\ f.msg = m /\ g \in Call /\ g.op = "send" /\ g.msg = m
  BY <1>1, LibraryCalls
<1>3. Weight(f) = 0 /\ Weight(g) = 0 /\ Weight(x) \in Nat
  BY <1>1, <1>2, Weights DEF Makes
<1>4. Load(then) = Weight(f) + Weight(g) /\ (\A n : Number(then, 1, Gifts(n)) = In(f, Gifts(n)) + In(g, Gifts(n)))
  <2>1. f \in Call /\ g \in Call
    BY <1>2
  <2> HIDE DEF f, g
  <2>2. Load(then) = Weight(f) + Weight(g)
    BY <2>1, LoadOfTwo
  <2>3. \A S : Number(then, 1, S) = In(f, S) + In(g, S)
    BY <2>1, NumberOfTwo
  <2> QED BY <2>2, <2>3
<1>5. \A n : In(f, Gifts(n)) = 0 /\ In(g, Gifts(n)) = (IF m = n THEN 1 ELSE 0) /\ In(x, Gifts(n)) \in 0 .. 1
  BY <1>1, <1>2, GiftsOf
<1>6. In(x, Gifts(m)) = 1
  BY <1>1, GiftsOf
<1>7. then \in Seq(Call) /\ Elements(then) = {f, g}
  BY <1>2, ListOfTwo
<1> HIDE DEF then, f, g, x
<1>8. About(then, m)
  BY <1>2, <1>7 DEF About
<1>9. /\ \A i \in 1 .. Len(then) : then[i].op # "route"
      /\ \A y \in Elements(then) : y.op # "domain" /\ y.op # "route" /\ Apt(t, y)
  BY <1>8, AboutApt
<1>10. Load(then) <= Weight(x)
  BY <1>3, <1>4
<1>11. \A n : Number(then, 1, Gifts(n)) <= In(x, Gifts(n))
  <2> SUFFICES ASSUME NEW n PROVE Number(then, 1, Gifts(n)) <= In(x, Gifts(n))
    OBVIOUS
  <2>1. PICK p, q, r : p = In(f, Gifts(n)) /\ q = In(g, Gifts(n)) /\ r = In(x, Gifts(n))
    OBVIOUS
  <2>2. p = 0 /\ q = (IF m = n THEN 1 ELSE 0) /\ r \in 0 .. 1 /\ (m = n => r = 1)
    BY <1>5, <1>6, <2>1
  <2>3. Number(then, 1, Gifts(n)) = p + q
    BY <1>4, <2>1
  <2>4. p + q <= r
    BY <2>2
  <2> QED BY <2>1, <2>3, <2>4
<1> QED BY <1>7, <1>9, <1>10, <1>11 DEF Allowed, then, f, g, x

\* A message that did not exist, and what is done with it.
LEMMA AllowedFresh ==
  ASSUME NEW t, NEW l \in Seq(Call), l # <<>>, NEW m \in Short, \A x \in Elements(l) : x.msg # m,
         NEW then \in Seq(Call), Load(then) <= Weight(Head(l)), Number(then, 1, Gifts(m)) <= 3,
         Number(then, 1, Gifts(m)) \in Nat,
         \A n \in Msg : n # m => Number(then, 1, Gifts(n)) = 0,
         \A i \in 1 .. Len(then) : then[i].op = "route" => i = Len(then),
         \A x \in Elements(then) : x.op # "domain" /\ (x.op = "route" => Head(l).op = "domain") /\ Apt(t, x)
  PROVE  Allowed(t, l, then)
<1> DEFINE b == Tail(l)
<1>1. /\ b \in Seq(Call) /\ Len(b) = Len(l) - 1 /\ Head(l) \in Call
      /\ \A i \in 1 .. Len(b) : b[i] = l[i + 1] /\ i + 1 \in 1 .. Len(l)
  BY TailOfCalls
<1>2. m \notin Audio
  BY Messages
<1> HIDE DEF b
<1>3. \A i \in 1 .. Len(b) : b[i] \in Elements(l)
  BY <1>1 DEF Elements
<1>4. Number(b, 1, Gifts(m)) = 0
  <2>1. \A i \in 1 .. Len(b) : b[i] \notin Gifts(m)
    BY <1>2, <1>3 DEF Gifts, Gives
  <2>2. 1 \in Nat
    OBVIOUS
  <2> QED BY <1>1, <2>1, <2>2, NumberOfNone
<1>5. ASSUME NEW n \in Msg
      PROVE  \/ Number(then, 1, Gifts(n)) <= In(Head(l), Gifts(n))
             \/ Number(then, 1, Gifts(n)) + Number(b, 1, Gifts(n)) <= 3
  <2>1. CASE n = m
    BY <1>4, <2>1
  <2>2. CASE n # m
    <3>1. In(Head(l), Gifts(n)) \in 0 .. 1
      BY <1>1, GiftsOf
    <3> QED BY <2>2, <3>1
  <2> QED BY <2>1, <2>2
<1> QED BY <1>5 DEF Allowed, b

\* No list has a call about a short message that does not exist.
LEMMA NotInHand ==
  ASSUME IndInv, NEW t \in Thread, NEW m \in Short, m \notin DOMAIN ref
  PROVE  \A x \in Elements(todo[t]) : x.msg # m
BY InHandExists DEF Msg

\* One message for a core, one for both, one to process.
LEMMA AllowedSend ==
  ASSUME NEW t, NEW l \in Seq(Call), l # <<>>, NEW m \in Short, \A x \in Elements(l) : x.msg # m,
         Head(l).op \in {"announce", "reply"}
  PROVE  Allowed(t, l, <<Send(m, "ARM")>>)
<1> DEFINE x == Head(l)
           b == Send(m, "ARM")
           then == <<b>>
<1>1. x \in Call /\ m \in Msg /\ "ARM" \in Core
  BY TailOfCalls, Threads DEF Msg
<1>2. b \in Call /\ b.op = "send" /\ b.msg = m
  BY <1>1, LibraryCalls
<1>3. Weight(b) = 1 /\ Weight(x) = 1
  BY <1>1, <1>2, Weights
<1>4. Load(then) = Weight(b) /\ Number(then, 1, Gifts(m)) = In(b, Gifts(m))
  BY <1>2, LoadOfOne, NumberOfOne
<1>5. In(b, Gifts(m)) \in 0 .. 1
  BY <1>2, GiftsOf
<1>6. then \in Seq(Call) /\ Elements(then) = {b}
  BY <1>2, ListOfOne
<1> HIDE DEF then, b, x
<1>7. About(then, m)
  BY <1>2, <1>6 DEF About
<1>8. /\ \A i \in 1 .. Len(then) : then[i].op # "route"
      /\ \A y \in Elements(then) : y.op # "domain" /\ y.op # "route" /\ Apt(t, y)
      /\ \A n \in Msg : n # m => Number(then, 1, Gifts(n)) = 0
  BY <1>7, AboutApt
<1>9. Load(then) <= Weight(x) /\ Number(then, 1, Gifts(m)) <= 3 /\ Number(then, 1, Gifts(m)) \in Nat
  BY <1>3, <1>4, <1>5
<1>10. Allowed(t, l, then)
  BY <1>6, <1>8, <1>9, AllowedFresh DEF x
<1> QED BY <1>10 DEF then, b

LEMMA AllowedToBoth ==
  ASSUME NEW t, NEW l \in Seq(Call), l # <<>>, NEW m \in Short, \A x \in Elements(l) : x.msg # m,
         Head(l).op \in {"ping", "ask"}
  PROVE  Allowed(t, l, ToBoth(m))
<1> DEFINE x == Head(l)
           f == Ref(m)
           g == Send(m, "SHARC0")
           h == Send(m, "SHARC1")
           then == <<f, g, h>>
<1>1. x \in Call /\ m \in Msg /\ "SHARC0" \in Core /\ "SHARC1" \in Core
  BY TailOfCalls, Threads DEF Msg
<1>2. /\ f \in Call /\ f.op = "ref" /\ f.msg = m /\ g \in Call /\ g.op = "send" /\ g.msg = m
      /\ h \in Call /\ h.op = "send" /\ h.msg = m
  BY <1>1, LibraryCalls
<1>3. Weight(f) = 0 /\ Weight(g) = 1 /\ Weight(h) = 1 /\ Weight(x) = 2
  BY <1>1, <1>2, Weights DEF Makes
<1>4. Load(then) = Weight(f) + Weight(g) + Weight(h)
  <2>1. f \in Call /\ g \in Call /\ h \in Call
    BY <1>2
  <2> HIDE DEF f, g, h
  <2> QED BY <2>1, LoadOfThree
<1>5. Number(then, 1, Gifts(m)) \in Nat /\ Number(then, 1, Gifts(m)) <= 3
  <2>1. In(f, Gifts(m)) \in 0 .. 1 /\ In(g, Gifts(m)) \in 0 .. 1 /\ In(h, Gifts(m)) \in 0 .. 1
    BY <1>2, GiftsOf
  <2>2. Number(then, 1, Gifts(m)) = In(f, Gifts(m)) + In(g, Gifts(m)) + In(h, Gifts(m))
    <3>1. f \in Call /\ g \in Call /\ h \in Call
      BY <1>2
    <3> HIDE DEF f, g, h
    <3> QED BY <3>1, NumberOfThree
  <2> QED BY <2>1, <2>2
<1>6. then \in Seq(Call) /\ Elements(then) = {f, g, h}
  BY <1>2, ListOfThree
<1>e. then = ToBoth(m)
  BY DEF ToBoth
<1> HIDE DEF then, f, g, h, x
<1>7. About(then, m)
  BY <1>2, <1>6 DEF About
<1>8. /\ \A i \in 1 .. Len(then) : then[i].op # "route"
      /\ \A y \in Elements(then) : y.op # "domain" /\ y.op # "route" /\ Apt(t, y)
      /\ \A n \in Msg : n # m => Number(then, 1, Gifts(n)) = 0
  BY <1>7, AboutApt
<1>9. Load(then) <= Weight(x)
  BY <1>3, <1>4
<1>10. Allowed(t, l, then)
  BY <1>5, <1>6, <1>8, <1>9, AllowedFresh DEF x
<1> QED BY <1>10, <1>e

\* The last call of the list that completes a domain.
LEMMA AllowedRoute ==
  ASSUME NEW l \in Seq(Call), l # <<>>, Head(l).op = "domain", NEW then \in Seq(Call),
         \/ then = <<Plain("route")>>
         \/ \E m \in Short : /\ \A x \in Elements(l) : x.msg # m
                             /\ then = ProcessCalls(m) \o <<Plain("route")>>
  PROVE  Allowed(ArmIrq, l, then)
<1> DEFINE x == Head(l)
           z == Plain("route")
           q == <<z>>
<1>1. x \in Call /\ Weight(x) = 3
  BY TailOfCalls, Weights
<1>2. z \in Call /\ z.op = "route" /\ z.msg = Nil /\ Weight(z) = 0 /\ \A S : In(z, S) \in 0 .. 1
  <2>1. z \in Call /\ z.op = "route" /\ z.msg = Nil
    BY CallsAreCalls DEF Plain, Op
  <2> HIDE DEF z
  <2>2. Weight(z) = 0
    BY <2>1, Weights DEF Makes
  <2> QED BY <2>1, <2>2 DEF In
<1>3. q \in Seq(Call) /\ Len(q) = 1 /\ q[1] = z /\ Elements(q) = {z} /\ Load(q) = 0
      /\ \A n : Number(q, 1, Gifts(n)) = 0
  <2>1. Load(q) = Weight(z) /\ \A n : Number(q, 1, Gifts(n)) = In(z, Gifts(n))
    BY <1>2, LoadOfOne, NumberOfOne
  <2>2. \A n : In(z, Gifts(n)) = 0
    BY <1>2, GiftsOf
  <2>3. q \in Seq(Call) /\ Elements(q) = {z} /\ Len(q) = 1 /\ q[1] = z
    BY <1>2, ListOfOne
  <2> QED BY <1>2, <2>1, <2>2, <2>3
<1>4. Apt(ArmIrq, z)
  BY <1>2 DEF Apt, Audible
<1> HIDE DEF x, z, q
<1>5. CASE then = q
  <2>1. \A i \in 1 .. Len(then) : then[i].op = "route" => i = Len(then)
    <3>1. Len(then) = 1
      BY <1>3, <1>5
    <3> QED BY <3>1
  <2>2. \A n : In(x, Gifts(n)) \in 0 .. 1
    BY <1>1, GiftsOf
  <2>3. Load(then) <= Weight(x) /\ \A n : Number(then, 1, Gifts(n)) <= In(x, Gifts(n))
    BY <1>1, <1>3, <1>5, <2>2
  <2>4. \A y \in Elements(then) : y.op # "domain" /\ (y.op = "route" => x.op = "domain") /\ Apt(ArmIrq, y)
    BY <1>2, <1>3, <1>4, <1>5 DEF x
  <2> QED BY <2>1, <2>3, <2>4 DEF Allowed, x
<1>6. ASSUME NEW m \in Short, \A y \in Elements(l) : y.msg # m, then = ProcessCalls(m) \o q
      PROVE  Allowed(ArmIrq, l, then)
  <2> DEFINE f == Ref(m)
             g == Send(m, "SHARC0")
             h == Send(m, "SHARC1")
             u == Unref(m)
             s == <<f, g, f, h, u>>
  <2>1. m \in Msg /\ "SHARC0" \in Core /\ "SHARC1" \in Core
    BY Threads DEF Msg
  <2>2. /\ f \in Call /\ f.op = "ref" /\ f.msg = m /\ g \in Call /\ g.op = "send" /\ g.msg = m
        /\ h \in Call /\ h.op = "send" /\ h.msg = m /\ u \in Call /\ u.op = "unref" /\ u.msg = m
    BY <2>1, LibraryCalls
  <2>3. Weight(f) = 0 /\ Weight(g) = 1 /\ Weight(h) = 1 /\ Weight(u) = 1
    BY <2>2, Weights DEF Makes
  <2>4. Load(s) = Weight(f) + Weight(g) + Weight(f) + Weight(h) + Weight(u)
    <3>1. f \in Call /\ g \in Call /\ h \in Call /\ u \in Call
      BY <2>2
    <3> HIDE DEF f, g, h, u
    <3> QED BY <3>1, LoadOfFive
  <2>5. Number(s, 1, Gifts(m)) \in Nat /\ Number(s, 1, Gifts(m)) <= 3
    <3>1. /\ In(f, Gifts(m)) = 0 /\ In(g, Gifts(m)) \in 0 .. 1 /\ In(h, Gifts(m)) \in 0 .. 1
          /\ In(u, Gifts(m)) \in 0 .. 1
      BY <2>2, GiftsOf
    <3>2. Number(s, 1, Gifts(m)) = In(f, Gifts(m)) + In(g, Gifts(m)) + In(f, Gifts(m)) + In(h, Gifts(m)) + In(u, Gifts(m))
      <4>1. f \in Call /\ g \in Call /\ h \in Call /\ u \in Call
        BY <2>2
      <4> HIDE DEF f, g, h, u
      <4> QED BY <4>1, NumberOfFive
    <3> QED BY <3>1, <3>2
  <2>6. s = ProcessCalls(m) /\ s \in Seq(Call) /\ Elements(s) = {f, g, h, u}
    <3>1. s = ProcessCalls(m)
      BY DEF ProcessCalls
    <3>2. s \in Seq(Call)
      BY <2>2
    <3> QED BY <3>1, <3>2, ProcessAdds
  <2> HIDE DEF s, f, g, h, u
  <2>7. About(s, m)
    BY <2>2, <2>6 DEF About
  <2>8. /\ \A i \in 1 .. Len(s) : s[i].op # "route"
        /\ \A y \in Elements(s) : y.op # "domain" /\ y.op # "route" /\ Apt(ArmIrq, y)
        /\ \A n \in Msg : n # m => Number(s, 1, Gifts(n)) = 0
    BY <2>7, AboutApt
  <2>9. then = s \o q
    BY <1>6, <2>6
  <2>10. /\ Len(then) = Len(s) + 1 /\ Len(s) \in Nat
         /\ \A i \in 1 .. Len(s) : then[i] = s[i]
         /\ Elements(then) \subseteq Elements(s) \cup Elements(q)
    <3>1. s \in Seq(Call) /\ q \in Seq(Call) /\ Len(q) = 1
      BY <1>3, <2>6
    <3>2. /\ Len(s \o q) = Len(s) + 1 /\ Len(s) \in Nat
          /\ \A i \in 1 .. Len(s) : (s \o q)[i] = s[i]
      <4>1. \A p, r \in Seq(Call) : /\ Len(p \o r) = Len(p) + Len(r) /\ Len(p) \in Nat
                                   /\ \A i \in 1 .. Len(p) : (p \o r)[i] = p[i]
        OBVIOUS
      <4>2. /\ Len(s \o q) = Len(s) + Len(q) /\ Len(s) \in Nat
            /\ \A i \in 1 .. Len(s) : (s \o q)[i] = s[i]
        BY <3>1, <4>1
      <4>3. Len(s \o q) = Len(s) + 1
        BY <3>1, <4>2
      <4> QED BY <4>2, <4>3
    <3>3. Elements(s \o q) \subseteq Elements(s) \cup Elements(q)
      BY <3>1, BothLists
    <3> QED BY <2>9, <3>2, <3>3
  <2>11. \A i \in 1 .. Len(then) : then[i].op = "route" => i = Len(then)
    <3> SUFFICES ASSUME NEW i \in 1 .. Len(then), i # Len(then) PROVE then[i].op # "route"
      OBVIOUS
    <3>1. i \in 1 .. Len(s)
      BY <2>10
    <3> QED BY <2>8, <2>10, <3>1
  <2>12. \A S : Number(then, 1, S) = Number(s, 1, S) + Number(q, 1, S)
    <3>1. Joined(s, q, then) /\ 1 \in 1 .. Len(s) + 1
      <4>1. s \in Seq(Call) /\ q \in Seq(Call)
        BY <1>3, <2>6
      <4>2. Joined(s, q, s \o q) /\ 1 \in 1 .. Len(s) + 1
        BY <4>1 DEF Joined
      <4> QED BY <2>9, <4>2
    <3> QED BY <1>3, <2>6, <3>1, NumberOfBoth
  <2>13. Load(then) <= Weight(x)
    <3>1. /\ Number(q, 1, GivesShort) = 0 /\ Number(q, 1, GivesTwice) = 0 /\ Number(q, 1, GivesThrice) = 0
      <4>1. z \notin GivesShort /\ z \notin GivesTwice /\ z \notin GivesThrice
        BY <1>2 DEF GivesShort, GivesTwice, GivesThrice, Makes
      <4>2. 1 \in Nat /\ \A i \in 1 .. Len(q) : q[i] = z
        BY <1>3
      <4> QED BY <1>3, <4>1, <4>2, NumberOfNone
    <3>2. PICK n1, n2, n3 : n1 = Number(s, 1, GivesShort) /\ n2 = Number(s, 1, GivesTwice) /\ n3 = Number(s, 1, GivesThrice)
      OBVIOUS
    <3>3. n1 \in Nat /\ n2 \in Nat /\ n3 \in Nat
      <4>1. 1 \in Nat
        OBVIOUS
      <4> QED BY <2>6, <3>2, <4>1, PlacesFinite
    <3>4. Load(s) = n1 + n2 + n3 /\ Load(then) = (n1 + 0) + (n2 + 0) + (n3 + 0)
      BY <2>12, <3>1, <3>2, Zenon DEF Load
    <3>5. Load(s) = 3
      BY <2>3, <2>4
    <3> QED BY <1>1, <3>3, <3>4, <3>5
  <2>14. /\ Number(then, 1, Gifts(m)) \in Nat /\ Number(then, 1, Gifts(m)) <= 3
         /\ \A n \in Msg : n # m => Number(then, 1, Gifts(n)) = 0
    <3>1. \A n : Number(then, 1, Gifts(n)) = Number(s, 1, Gifts(n)) + 0
      BY <1>3, <2>12
    <3> QED BY <2>5, <2>8, <3>1
  <2>15. \A y \in Elements(then) : y.op # "domain" /\ (y.op = "route" => Head(l).op = "domain") /\ Apt(ArmIrq, y)
    BY <1>2, <1>3, <1>4, <2>8, <2>10
  <2> QED BY <1>6, <2>11, <2>13, <2>14, <2>15, AllowedFresh DEF x
<1> QED BY <1>5, <1>6 DEF q, z

-----------------------------------------------------------------------------
(* No step goes beyond the limits *)

\* A thread goes on as is allowed.
Goes(t) == \E then : Continue(t, then) /\ Allowed(t, todo[t], then)

\* A call that is simply done goes on as is allowed.
LEMMA StopsShort ==
  ASSUME IndInv, NEW t \in Thread, todo[t] # <<>>, Continue(t, <<>>)
  PROVE  Goes(t)
BY AllowedNone, HeadIsProper DEF Goes

\* A call that creates a message, if there is room, and passes it on.
LEMMA CreateGoes ==
  ASSUME IndInv, NEW t \in Thread, todo[t] # <<>>, NEW y \in {"PING", "CYCLES", "READY", "PROCESS"},
         NEW calls, Create(t, Fresh(y, t[1]), calls),
         \/ Head(todo[t]).op \in {"announce", "reply"} /\ calls = <<Send(Fresh(y, t[1]), "ARM")>>
         \/ Head(todo[t]).op \in {"ping", "ask"} /\ calls = ToBoth(Fresh(y, t[1]))
  PROVE  Goes(t)
<1> DEFINE m == Fresh(y, t[1])
<1>1. t[1] \in Core /\ todo[t] \in Seq(Call)
  BY HeadIsProper DEF Thread
<1>2. m = Nil \/ (m \in Short /\ m \notin DOMAIN ref)
  BY <1>1, FreshIsFree
<1>3. Continue(t, IF m = Nil THEN <<>> ELSE calls)
  BY DEF Create
<1>4. \/ Head(todo[t]).op \in {"announce", "reply"} /\ calls = <<Send(m, "ARM")>>
      \/ Head(todo[t]).op \in {"ping", "ask"} /\ calls = ToBoth(m)
  OBVIOUS
<1> HIDE DEF m
<1>5. CASE m = Nil
  BY <1>3, <1>5, StopsShort
<1>6. CASE m \in Short /\ m \notin DOMAIN ref
  <2>1. Continue(t, calls)
    BY <1>3, <1>6, Messages DEF Msg
  <2>2. \A x \in Elements(todo[t]) : x.msg # m
    BY <1>6, NotInHand
  <2>3. PICK l : l = todo[t]
    OBVIOUS
  <2>4. l \in Seq(Call) /\ l # <<>> /\ \A x \in Elements(l) : x.msg # m
    BY <1>1, <2>2, <2>3
  <2>5. Allowed(t, l, calls)
    BY <1>4, <1>6, <2>3, <2>4, AllowedSend, AllowedToBoth
  <2> QED BY <2>1, <2>3, <2>5 DEF Goes
<1> QED BY <1>2, <1>5, <1>6

\* The call that completes a domain, or not.
LEMMA DomainGoes ==
  ASSUME IndInv, NEW t \in Thread, todo[t] # <<>>, DomainReady(t, Head(todo[t])),
         Limits(todo[t], t)
  PROVE  Goes(t)
<1> DEFINE m == Fresh("PROCESS", "ARM")
           complete == active = {"CODEC_IN", "CODEC_OUT"}
           z == <<Plain("route")>>
<1>1. /\ Head(todo[t]).op = "domain"
      /\ Continue(t, IF ~complete THEN <<>> ELSE (IF m = Nil THEN <<>> ELSE ProcessCalls(m)) \o z)
  BY DEF DomainReady
<1>2. todo[t] \in Seq(Call) /\ Head(todo[t]) \in Elements(todo[t])
  BY HeadIsProper
<1>3. t = ArmIrq
  BY <1>1, <1>2 DEF Limits, Apt, Routing
<1>4. m = Nil \/ (m \in Short /\ m \notin DOMAIN ref)
  BY FreshIsFree, Threads
<1>5. z \in Seq(Call) /\ <<>> \o z = z
  BY PlainAdds, ConcatEmptySeq
<1>e. z = <<Plain("route")>>
  OBVIOUS
<1> HIDE DEF m, complete, z
<1>6. PICK l : l = todo[t]
  OBVIOUS
<1>7. CASE Continue(t, <<>>)
  BY <1>7, StopsShort
<1>8. CASE m = Nil /\ complete
  <2>1. Continue(t, z)
    BY <1>1, <1>5, <1>8
  <2>2. Allowed(ArmIrq, l, z)
    BY <1>1, <1>2, <1>5, <1>6, <1>e, AllowedRoute
  <2> QED BY <1>3, <1>6, <2>1, <2>2 DEF Goes
<1>9. CASE m \in Short /\ m \notin DOMAIN ref /\ complete
  <2> DEFINE then == ProcessCalls(m) \o z
  <2>1. Continue(t, then)
    BY <1>1, <1>9, Messages DEF Msg
  <2>2. \A x \in Elements(l) : x.msg # m
    BY <1>6, <1>9, NotInHand
  <2>3. ProcessCalls(m) \in Seq(Call)
    BY <1>9, ProcessAdds DEF Adds
  <2>4. then \in Seq(Call)
    BY <1>5, <2>3
  <2>5. then = ProcessCalls(m) \o <<Plain("route")>>
    BY <1>e
  <2> HIDE DEF then
  <2>6. Allowed(ArmIrq, l, then)
    BY <1>1, <1>2, <1>6, <1>9, <2>2, <2>4, <2>5, AllowedRoute
  <2> QED BY <1>3, <1>6, <2>1, <2>6 DEF Goes
<1> QED BY <1>1, <1>4, <1>7, <1>8, <1>9

\* The transfer of a buffer.
LEMMA XferGoes ==
  ASSUME IndInv, NEW t \in Thread, todo[t] # <<>>, xferSharcAudio(t, Head(todo[t]))
  PROVE  Goes(t)
<1> DEFINE x == Head(todo[t])
           dir == x.msg.type
           swap == Swap(pp[dir][x.core])
           m == Buffer(dir, x.core, swap.send)
<1>1. x.op = "xfer" /\ Continue(t, <<Ref(m), Send(m, x.core)>>)
  BY DEF xferSharcAudio
<1>2. x.msg \in Audio /\ x.core \in Sharcs /\ todo[t] \in Seq(Call)
  BY <1>1, HeadIsProper DEF Proper
<1>3. dir \in {"IN", "OUT"}
  BY <1>2 DEF Audio, Message
<1>4. swap.send \in 0 .. 1
  <2>1. pp[dir][x.core] \in 0 .. 1
    BY <1>2, <1>3 DEF IndInv, Types, PingPong
  <2> QED BY <2>1 DEF Swap
<1>5. m \in Audio /\ m.type = dir /\ m.core = x.core
  BY <1>2, <1>3, <1>4, BufferIsAudio DEF Buffer, Message
<1> HIDE DEF m, swap
<1>6. PICK l : l = todo[t]
  OBVIOUS
<1>7. Allowed(t, l, <<Ref(m), Send(m, m.core)>>)
  BY <1>1, <1>2, <1>5, <1>6, AllowedXfer
<1> QED BY <1>1, <1>5, <1>6, <1>7 DEF Goes

\* Every call is replaced by what is allowed.
LEMMA StepGoes ==
  ASSUME IndInv, AllLimits, NEW t \in Thread, Step(t)
  PROVE  UNCHANGED todo \/ (todo[t] # <<>> /\ Goes(t))
<1> DEFINE op == Head(todo[t])
<1>1. todo[t] # <<>>
  BY DEF Step, CanRun
<1>2. CASE Continue(t, <<>>)
  BY <1>1, <1>2, StopsShort
<1>3. CASE ipcToCore(t, op)
  <2>1. op.op = "send" /\ op.msg \in Msg /\ todo[t] \in Seq(Call)
    BY <1>1, <1>3, HeadIsProper DEF ipcToCore, Proper
  <2>2. Allowed(t, todo[t], <<Unref(op.msg)>>)
    BY <1>1, <2>1, AllowedUnref
  <2> QED BY <1>1, <1>2, <1>3, <2>2 DEF ipcToCore, Goes
<1>4. CASE Announce(t, op) \/ Reply(t, op)
  <2>1. \E y \in {"READY", "PING"} : op.op \in {"announce", "reply"} /\ Create(t, Fresh(y, t[1]), <<Send(Fresh(y, t[1]), "ARM")>>)
    BY <1>4 DEF Announce, Reply
  <2> QED BY <1>1, <2>1, CreateGoes
<1>5. CASE Ping(t, op) \/ Ask(t, op)
  <2>1. \E y \in {"CYCLES", "PING"} : op.op \in {"ping", "ask"} /\ Create(t, Fresh(y, t[1]), ToBoth(Fresh(y, t[1])))
    BY <1>5 DEF Ping, Ask
  <2> QED BY <1>1, <2>1, CreateGoes
<1>6. CASE xferSharcAudio(t, op)
  BY <1>1, <1>6, XferGoes
<1>7. CASE DomainReady(t, op)
  BY <1>1, <1>7, DomainGoes DEF AllLimits
<1>8. CASE WaitForSharcs(t, op)
  BY <1>2, <1>8 DEF WaitForSharcs, vars
<1>9. CASE DoRef(t, op) \/ DoUnref(t, op) \/ Initialize(t, op) \/ Register(t, op) \/ sae_buffer_init(t, op)
           \/ EnableSharcs(t, op) \/ CreateCycles(t, op) \/ Heard(t, op)
  BY <1>2, <1>9 DEF DoRef, DoUnref, Initialize, Register, sae_buffer_init, EnableSharcs, CreateCycles, Heard
<1>10. CASE RouteAudio(t, op) \/ newAudio(t, op) \/ sharcProcessAudio(t, op)
  BY <1>2, <1>10 DEF RouteAudio, newAudio, sharcProcessAudio
<1> QED BY <1>3, <1>4, <1>5, <1>6, <1>7, <1>8, <1>9, <1>10 DEF Step

\* A sequence has no more elements of a kind than elements.
LEMMA NumberAtMost ==
  ASSUME NEW T, NEW l \in Seq(T), NEW S
  PROVE  Number(l, 1, S) <= Len(l)
<1>1. IsFiniteSet(1 .. Len(l)) /\ Cardinality(1 .. Len(l)) = Len(l)
  <2>1. 1 \in Int /\ Len(l) \in Int /\ (IF 1 > Len(l) THEN 0 ELSE Len(l) - 1 + 1) = Len(l)
    OBVIOUS
  <2> QED BY <2>1, FS_Interval
<1>2. Places(l, 1, S) \in SUBSET (1 .. Len(l))
  BY DEF Places
<1> QED BY <1>1, <1>2, FS_Subset DEF Number

\* A thread that goes on stays within its limits.
LEMMA StepLimits ==
  ASSUME IndInv, AllLimits, NEW t \in Thread, Step(t)
  PROVE  AllLimits'
<1>1. UNCHANGED todo \/ (todo[t] # <<>> /\ Goes(t))
  BY StepGoes
<1>2. CASE UNCHANGED todo
  BY <1>2 DEF AllLimits
<1>3. ASSUME todo[t] # <<>>, NEW then, Continue(t, then), Allowed(t, todo[t], then)
      PROVE  AllLimits'
  <2>1. todo \in [Thread -> Seq(Call)] /\ todo[t] \in Seq(Call) /\ Limits(todo[t], t)
    BY DEF IndInv, Types, AllLimits
  <2> DEFINE r == then \o Tail(todo[t])
  <2>2. Limits(r, t)
    <3>1. PICK l : l = todo[t]
      OBVIOUS
    <3>2. Limits(then \o Tail(l), t)
      BY <1>3, <2>1, <3>1, LimitsKept
    <3> QED BY <3>1, <3>2
  <2>3. todo' = [todo EXCEPT ![t] = r]
    BY <1>3, <2>1 DEF Continue
  <2> HIDE DEF r
  <2>4. todo'[t] = r /\ \A u \in Thread \ {t} : todo'[u] = todo[u]
    BY <2>1, <2>3
  <2> QED BY <2>2, <2>4 DEF AllLimits
<1> QED BY <1>1, <1>2, <1>3 DEF Goes

\* So does one that starts with a short list.
LEMMA NewLimits ==
  ASSUME IndInv, AllLimits, NEW t \in Thread, NEW l, Limits(l, t), todo' = [todo EXCEPT ![t] = l]
  PROVE  AllLimits'
<1>1. todo \in [Thread -> Seq(Call)]
  BY DEF IndInv, Types
<1>2. todo'[t] = l /\ \A u \in Thread \ {t} : todo'[u] = todo[u]
  BY <1>1
<1> QED BY <1>2 DEF AllLimits

\* Three calls give no message away more than three times.
LEMMA FewLimits ==
  ASSUME NEW t \in Thread, NEW l \in Seq(Call), Len(l) <= 3, Load(l) <= Cap(t),
         \A i \in 1 .. Len(l) : l[i].op \in {"domain", "route"} => i = Len(l),
         \A x \in Elements(l) : Apt(t, x)
  PROVE  Limits(l, t)
<1>1. ASSUME NEW m \in Msg PROVE Number(l, 1, Gifts(m)) <= 3
  <2>1. PICK n : n = Number(l, 1, Gifts(m))
    OBVIOUS
  <2>2. 1 \in Nat
    OBVIOUS
  <2>3. n \in Nat /\ n <= Len(l) /\ Len(l) \in Nat
    BY <2>1, <2>2, NumberAtMost, PlacesFinite
  <2> QED BY <2>1, <2>3
<1> QED BY <1>1 DEF Limits

\* The interrupt of a codec stream, and the housekeeping task.
LEMMA CodecLimits ==
  ASSUME IndInv, AllLimits, NEW d \in {"CODEC_IN", "CODEC_OUT"}, codecAudio(d)
  PROVE  AllLimits'
<1> DEFINE dir == IF d = "CODEC_IN" THEN "OUT" ELSE "IN"
           a == Op("xfer", Buffer(dir, "SHARC0", 0), "SHARC0")
           b == Op("xfer", Buffer(dir, "SHARC1", 0), "SHARC1")
           e == Plain("domain")
           l == <<a, b, e>>
<1>1. todo' = [todo EXCEPT ![ArmIrq] = l]
  BY DEF codecAudio, ArmIrq
<1>2. ArmIrq \in Thread /\ "SHARC0" \in Sharcs /\ "SHARC1" \in Sharcs /\ Sharcs \subseteq Core
  BY Threads DEF Core, ArmIrq
<1>3. /\ Buffer(dir, "SHARC0", 0) \in Msg /\ Buffer(dir, "SHARC1", 0) \in Msg
  BY <1>2, BufferIsAudio, Messages DEF Msg
<1>4. a \in Call /\ b \in Call /\ e \in Call
  BY <1>2, <1>3, CallsAreCalls
<1>5. a.op = "xfer" /\ b.op = "xfer" /\ e.op = "domain"
  BY DEF Op, Plain
<1> HIDE DEF a, b, e
<1>6. Load(l) = 3
  <2>1. Weight(a) = 0 /\ Weight(b) = 0 /\ Weight(e) = 3
    BY <1>4, <1>5, Weights DEF Makes
  <2> QED BY <1>4, <2>1, LoadOfThree
<1>7. l \in Seq(Call) /\ Elements(l) = {a, b, e} /\ Len(l) = 3 /\ l[1] = a /\ l[2] = b /\ l[3] = e
  BY <1>4, ListOfThree
<1> HIDE DEF l
<1>8. \A i \in 1 .. Len(l) : l[i].op \in {"domain", "route"} => i = Len(l)
  <2>1. \A i \in 1 .. Len(l) : i = 1 \/ i = 2 \/ i = 3
    BY <1>7
  <2> QED BY <1>5, <1>7, <2>1
<1>9. \A x \in Elements(l) : Apt(ArmIrq, x)
  BY <1>5, <1>7 DEF Apt, Audible
<1>10. Cap(ArmIrq) = 3
  BY DEF Cap, ArmIrq
<1>11. Limits(l, ArmIrq)
  <2>1. PICK t \in Thread : t = ArmIrq
    BY <1>2
  <2>2. Load(l) <= Cap(t) /\ Len(l) <= 3 /\ \A x \in Elements(l) : Apt(t, x)
    BY <1>6, <1>7, <1>9, <1>10, <2>1
  <2>3. Limits(l, t)
    BY <1>7, <1>8, <2>2, FewLimits
  <2> QED BY <2>1, <2>3
<1> QED BY <1>1, <1>2, <1>11, NewLimits

LEMMA HouseLimits ==
  ASSUME IndInv, AllLimits, houseKeepingTask
  PROVE  AllLimits'
<1> DEFINE t == <<"ARM", "task">>
           a == Plain("ping")
           b == Plain("ask")
           l == <<a, b>>
<1>1. t \in Thread /\ todo' = [todo EXCEPT ![t] = l]
  BY Threads DEF houseKeepingTask
<1>2. a \in Call /\ b \in Call /\ a.op = "ping" /\ b.op = "ask"
  BY CallsAreCalls DEF Plain, Op
<1> HIDE DEF a, b
<1>3. Load(l) = 4
  <2>1. Weight(a) = 2 /\ Weight(b) = 2
    BY <1>2, Weights
  <2> QED BY <1>2, <2>1, LoadOfTwo
<1>4. l \in Seq(Call) /\ Elements(l) = {a, b} /\ Len(l) = 2
  BY <1>2, ListOfTwo
<1>5. Cap(t) = 4
  BY DEF Cap
<1> HIDE DEF l, t
<1>6. \A x \in Elements(l) : Apt(t, x) /\ x.op \notin {"domain", "route"}
  BY <1>2, <1>4 DEF Apt, Audible, Routing
<1>7. \A i \in 1 .. Len(l) : l[i] \in Elements(l)
  BY DEF Elements
<1>8. Limits(l, t)
  <2>1. t \in Thread /\ Load(l) <= Cap(t) /\ Len(l) <= 3 /\ l \in Seq(Call)
    BY <1>1, <1>3, <1>4, <1>5
  <2>2. \A i \in 1 .. Len(l) : l[i].op \in {"domain", "route"} => i = Len(l)
    BY <1>6, <1>7
  <2> QED BY <1>6, <2>1, <2>2, FewLimits
<1> QED BY <1>1, <1>8, NewLimits

\* What a callback does with m, call by call.
LEMMA HandleShape ==
  ASSUME NEW c \in Core, NEW m \in Msg
  PROVE  LET l == Handle(c, m)  u == Unref(m) IN
         \/ l = <<u>>
         \/ \E a \in Call : a.op \in {"reply", "audio", "process", "heard"} /\ l = <<a, u>>
         \/ c \in Sharcs /\ l = <<Ref(Cycles(c)), Send(Cycles(c), "ARM"), u>>
<1> DEFINE u == Unref(m)
<1>1. u \in Call
  BY CallsAreCalls
<1>2. Handle(c, m) = Work(c, m) \o <<u>>
  BY DEF Handle
<1> HIDE DEF u
<1>3. <<>> \o <<u>> = <<u>>
  OBVIOUS
<1>4. ASSUME NEW a \in Call PROVE <<a>> \o <<u>> = <<a, u>>
  <2> DEFINE r == <<a>> \o <<u>>
             s == <<a, u>>
  <2>1. /\ r \in Seq(Call) /\ Len(r) = 2 /\ r[1] = a /\ r[2] = u
        /\ s \in Seq(Call) /\ Len(s) = 2 /\ s[1] = a /\ s[2] = u
    BY <1>1
  <2> HIDE DEF r, s
  <2>2. \A i \in 1 .. Len(r) : r[i] = s[i]
    BY <2>1
  <2>3. r = s
    BY <2>1, <2>2, SeqEqual
  <2> QED BY <2>3 DEF r, s
<1>5. ASSUME NEW a \in Call, NEW b \in Call PROVE <<a, b>> \o <<u>> = <<a, b, u>>
  <2> DEFINE r == <<a, b>> \o <<u>>
             s == <<a, b, u>>
  <2>1. /\ r \in Seq(Call) /\ Len(r) = 3 /\ r[1] = a /\ r[2] = b /\ r[3] = u
        /\ s \in Seq(Call) /\ Len(s) = 3 /\ s[1] = a /\ s[2] = b /\ s[3] = u
    BY <1>1
  <2> HIDE DEF r, s
  <2>2. \A i \in 1 .. Len(r) : r[i] = s[i]
    BY <2>1
  <2>3. r = s
    BY <2>1, <2>2, SeqEqual
  <2> QED BY <2>3 DEF r, s
<1>6. /\ Plain("reply") \in Call /\ Plain("reply").op = "reply"
      /\ Plain("process") \in Call /\ Plain("process").op = "process"
      /\ Op("audio", m, c) \in Call /\ Op("audio", m, c).op = "audio"
      /\ Op("heard", m, c) \in Call /\ Op("heard", m, c).op = "heard"
  BY CallsAreCalls DEF Plain, Op
<1>7. PICK w : w = Work(c, m)
  OBVIOUS
<1>8. \/ w = <<>> \/ w = <<Plain("reply")>> \/ w = <<Op("audio", m, c)>> \/ w = <<Plain("process")>>
      \/ w = <<Op("heard", m, c)>> \/ (c \in Sharcs /\ w = <<Ref(Cycles(c)), Send(Cycles(c), "ARM")>>)
  BY <1>7 DEF Work
<1>9. CASE w \in {<<Plain("reply")>>, <<Op("audio", m, c)>>, <<Plain("process")>>, <<Op("heard", m, c)>>}
  <2>1. PICK a \in Call : a.op \in {"reply", "audio", "process", "heard"} /\ w = <<a>>
    BY <1>6, <1>9
  <2>2. Handle(c, m) = <<a, u>>
    BY <1>2, <1>4, <1>7, <2>1
  <2> QED BY <2>1, <2>2 DEF u
<1>10. CASE w = <<>>
  BY <1>2, <1>3, <1>7, <1>10 DEF u
<1>11. CASE c \in Sharcs /\ w = <<Ref(Cycles(c)), Send(Cycles(c), "ARM")>>
  <2>1. Cycles(c) \in Msg /\ "ARM" \in Core
    BY <1>11, Messages, Threads DEF Msg
  <2>2. Ref(Cycles(c)) \in Call /\ Send(Cycles(c), "ARM") \in Call
    BY <2>1, CallsAreCalls
  <2>3. Handle(c, m) = <<Ref(Cycles(c)), Send(Cycles(c), "ARM"), u>>
    BY <1>2, <1>5, <1>7, <1>11, <2>2
  <2> QED BY <1>11, <2>3 DEF u
<1> QED BY <1>8, <1>9, <1>10, <1>11

\* A callback starts within the limits of its interrupt.
LEMMA ReceiveLimits ==
  ASSUME IndInv, AllLimits, NEW c \in Core, Receive(c)
  PROVE  AllLimits'
<1> DEFINE t == <<c, "irq">>
           m == Head(queue[c])
           l == Handle(c, m)
           u == Unref(m)
<1>1. queue[c] # <<>> /\ todo' = IF c \in callback THEN [todo EXCEPT ![t] = l] ELSE todo
  BY DEF Receive
<1>2. t \in Thread /\ t[1] = c /\ t[2] = "irq" /\ t # <<"ARM", "task">>
  BY DEF Thread
<1>3. m \in Msg /\ queue[c] \in Seq(Msg)
  BY <1>1 DEF IndInv, Types
<1> HIDE DEF m
<1>4. u \in Call /\ u.op = "unref" /\ Weight(u) \in 0 .. 1
  <2>1. u \in Call /\ u.op = "unref"
    BY <1>3, LibraryCalls
  <2> HIDE DEF u
  <2> QED BY <2>1, Weights
<1> HIDE DEF u
<1>5. Cap(t) >= 2 /\ Cap(t) \in Nat
  BY <1>2 DEF Cap
<1>6. l \in Seq(Call) /\ Len(l) <= 3 /\ Load(l) <= 2
  <2>1. CASE l = <<u>>
    <3>1. Load(<<u>>) = Weight(u)
      BY <1>4, LoadOfOne
    <3>2. <<u>> \in Seq(Call) /\ Len(<<u>>) = 1
      BY <1>4
    <3>3. Load(<<u>>) <= 2
      BY <1>4, <3>1
    <3> QED BY <2>1, <3>2, <3>3
  <2>2. ASSUME NEW a \in Call, a.op \in {"reply", "audio", "process", "heard"}, l = <<a, u>>
        PROVE  l \in Seq(Call) /\ Len(l) <= 3 /\ Load(l) <= 2
    <3>1. Load(<<a, u>>) = Weight(a) + Weight(u)
      BY <1>4, LoadOfTwo
    <3>2. <<a, u>> \in Seq(Call) /\ Len(<<a, u>>) = 2
      BY <1>4
    <3>3. Weight(a) \in 0 .. 1
      BY <2>2, Weights DEF Makes
    <3>4. Load(<<a, u>>) <= 2
      BY <1>4, <3>1, <3>3
    <3> QED BY <2>2, <3>2, <3>4
  <2>3. CASE c \in Sharcs /\ l = <<Ref(Cycles(c)), Send(Cycles(c), "ARM"), u>>
    <3> DEFINE f == Ref(Cycles(c))
               g == Send(Cycles(c), "ARM")
    <3>1. Cycles(c) \in Msg /\ Cycles(c) \notin Short /\ "ARM" \in Core
      BY <2>3, Messages, Threads DEF Msg
    <3>2. /\ f \in Call /\ f.op = "ref" /\ g \in Call /\ g.op = "send" /\ g.msg = Cycles(c)
      BY <3>1, LibraryCalls
    <3> HIDE DEF f, g
    <3>3. Weight(f) = 0 /\ Weight(g) = 0
      BY <3>1, <3>2, Weights DEF Makes
    <3>4. Load(<<f, g, u>>) = Weight(f) + Weight(g) + Weight(u)
      BY <1>4, <3>2, LoadOfThree
    <3>5. <<f, g, u>> \in Seq(Call) /\ Len(<<f, g, u>>) = 3
      BY <1>4, <3>2
    <3>6. Load(<<f, g, u>>) <= 2
      BY <1>4, <3>3, <3>4
    <3>7. l = <<f, g, u>>
      BY <2>3 DEF f, g
    <3> QED BY <3>5, <3>6, <3>7
  <2> QED BY <1>3, <2>1, <2>2, <2>3, HandleShape DEF u
<1>7. ASSUME NEW x \in Elements(l) PROVE Apt(t, x) /\ x.op \notin {"domain", "route"}
  <2>1. /\ x.op \in Audible => c \in Sharcs
        /\ x.op = "audio" => x.msg \in Audio /\ x.core = c
        /\ x.op \notin Routing
    BY <1>3, HandleItem
  <2>2. x.op = "audio" => c \in Sharcs
    BY <2>1 DEF Audible
  <2> QED BY <1>2, <2>1, <2>2 DEF Apt, Routing
<1> HIDE DEF l
<1>8. Limits(l, t)
  <2>1. \A i \in 1 .. Len(l) : l[i] \in Elements(l)
    BY DEF Elements
  <2>2. \A i \in 1 .. Len(l) : l[i].op \in {"domain", "route"} => i = Len(l)
    BY <1>7, <2>1
  <2>3. Load(l) <= Cap(t)
    <3>1. Load(l) \in Int
      <4>1. PICK p, q, r : p = Number(l, 1, GivesShort) /\ q = Number(l, 1, GivesTwice) /\ r = Number(l, 1, GivesThrice)
        OBVIOUS
      <4>2. 1 \in Nat
        OBVIOUS
      <4>3. p \in Nat /\ q \in Nat /\ r \in Nat
        BY <1>6, <4>1, <4>2, PlacesFinite
      <4> QED BY <4>1, <4>3 DEF Load
    <3> QED BY <1>5, <1>6, <3>1
  <2> QED BY <1>2, <1>6, <1>7, <2>2, <2>3, FewLimits
<1>9. CASE todo' = todo
  BY <1>9 DEF AllLimits
<1>10. CASE todo' = [todo EXCEPT ![t] = l]
  BY <1>2, <1>8, <1>10, NewLimits
<1> QED BY <1>1, <1>9, <1>10

\* The calls of the startups give no message away.
LEMMA StartLimits ==
  ASSUME NEW t \in Thread, NEW l \in Seq(Call), Load(l) <= Cap(t),
         \A x \in Elements(l) : x.op \in StartupOps
  PROVE  Limits(l, t)
<1>1. \A i \in 1 .. Len(l) : l[i] \in Elements(l)
  BY DEF Elements
<1>2. ASSUME NEW m \in Msg PROVE Number(l, 1, Gifts(m)) <= 3
  <2>1. \A i \in 1 .. Len(l) : l[i] \notin Gifts(m)
    BY <1>1 DEF Gifts, Gives, StartupOps
  <2>2. 1 \in Nat
    OBVIOUS
  <2>3. Number(l, 1, Gifts(m)) = 0
    BY <2>1, <2>2, NumberOfNone
  <2> QED BY <2>3
<1>3. \A x \in Elements(l) : Apt(t, x) /\ x.op \notin {"domain", "route"}
  BY DEF Apt, Routing, Audible, StartupOps
<1> QED BY <1>1, <1>2, <1>3 DEF Limits

\* The startups are within the limits.
LEMMA InitLimits == Init => AllLimits
<1> SUFFICES ASSUME Init PROVE AllLimits
  OBVIOUS
<1>1. \A o \in StartupOps : Plain(o) \in Call /\ Plain(o).op = o
  <2>1. "ARM" \in Core /\ Nil \in Msg \cup {Nil} /\ StartupOps \subseteq OpName
    BY Threads DEF StartupOps, OpName
  <2> QED BY <2>1 DEF Plain, Op, Call
<1>2. Load(ArmStartup) = 0
  <2> DEFINE a == Plain("initialize")
             b == Plain("register")
             c == Plain("buffers")
             d == Plain("enable")
             e == Plain("wait")
  <2>1. a \in Call /\ b \in Call /\ c \in Call /\ d \in Call /\ e \in Call
    BY <1>1 DEF StartupOps
  <2>2. a.op = "initialize" /\ b.op = "register" /\ c.op = "buffers" /\ d.op = "enable" /\ e.op = "wait"
    BY <1>1 DEF StartupOps
  <2>3. ArmStartup = <<a, b, c, d, e>>
    BY DEF ArmStartup
  <2> HIDE DEF a, b, c, d, e
  <2>4. Weight(a) = 0 /\ Weight(b) = 0 /\ Weight(c) = 0 /\ Weight(d) = 0 /\ Weight(e) = 0
    BY <2>1, <2>2, Weights DEF Makes
  <2>5. Load(<<a, b, c, d, e>>) = 0
    BY <2>1, <2>4, LoadOfFive
  <2> QED BY <2>3, <2>5
<1>3. Load(SharcStartup) = 1
  <2> DEFINE a == Plain("initialize")
             b == Plain("cycles")
             c == Plain("register")
             d == Plain("announce")
  <2>1. a \in Call /\ b \in Call /\ c \in Call /\ d \in Call
    BY <1>1 DEF StartupOps
  <2>2. a.op = "initialize" /\ b.op = "cycles" /\ c.op = "register" /\ d.op = "announce"
    BY <1>1 DEF StartupOps
  <2>3. SharcStartup = <<a, b, c, d>>
    BY DEF SharcStartup
  <2> HIDE DEF a, b, c, d
  <2>4. Weight(a) = 0 /\ Weight(b) = 0 /\ Weight(c) = 0 /\ Weight(d) = 1
    BY <2>1, <2>2, Weights DEF Makes
  <2>5. Load(<<a, b, c, d>>) = 1
    BY <2>1, <2>4, LoadOfFour
  <2> QED BY <2>3, <2>5
<1>4. ASSUME NEW t \in Thread PROVE Limits(todo[t], t)
  <2>1. todo[t] = IF t[2] = "irq" THEN <<>> ELSE IF t[1] = "ARM" THEN ArmStartup ELSE SharcStartup
    BY DEF Init
  <2>2. \A p \in {<<>>, ArmStartup, SharcStartup} : p \in Seq(Call) /\ \A x \in Elements(p) : x.op \in StartupOps
    BY StartupCalls
  <2>3. Cap(t) \in Nat /\ Cap(t) >= 1
    BY DEF Cap
  <2>4. PICK l \in {<<>>, ArmStartup, SharcStartup} : l = todo[t]
    BY <2>1
  <2>5. Load(l) <= 1 /\ Load(l) \in Nat
    BY <1>2, <1>3, <2>4, LoadOfEmpty
  <2>6. Limits(l, t)
    <3>1. Load(l) <= Cap(t)
      BY <2>3, <2>5
    <3> QED BY <2>2, <3>1, StartLimits
  <2> QED BY <2>4, <2>6
<1> QED BY <1>4 DEF AllLimits

\* No step takes a list beyond its limits.
LEMMA LimitsInductive ==
  ASSUME IndInv, AllLimits, [Next]_vars
  PROVE  AllLimits'
<1>1. ASSUME NEW t \in Thread, Step(t) PROVE AllLimits'
  BY <1>1, StepLimits
<1>2. ASSUME NEW c \in Core, Receive(c) PROVE AllLimits'
  BY <1>2, ReceiveLimits
<1>3. ASSUME NEW d \in {"CODEC_IN", "CODEC_OUT"}, codecAudio(d) PROVE AllLimits'
  BY <1>3, CodecLimits
<1>4. CASE houseKeepingTask
  BY <1>4, HouseLimits
<1>5. CASE UNCHANGED vars
  BY <1>5 DEF vars, AllLimits
<1> QED BY <1>1, <1>2, <1>3, <1>4, <1>5 DEF Next, Finished

-----------------------------------------------------------------------------
(* Queues are never more than full *)

\* No step fills a queue beyond that.
LEMMA QueuesStay ==
  ASSUME IndInv, ShortQueues, [Next]_vars
  PROVE  ShortQueues'
<1>1. queue \in [Core -> Seq(Msg)]
  BY DEF IndInv, Types
<1>2. CASE UNCHANGED queue
  BY <1>2 DEF ShortQueues
<1>3. ASSUME NEW t \in Thread, todo[t] # <<>>, ipcToCore(t, Head(todo[t]))
      PROVE  ShortQueues'
  <2> DEFINE op == Head(todo[t])
             c == op.core
  <2>1. op.msg \in Msg /\ c \in Core
    BY <1>3, HeadIsProper DEF ipcToCore, Proper, Call
  <2>2. CASE queue' = [queue EXCEPT ![c] = Append(@, op.msg)] /\ ~QueueFull(c)
    <3> SUFFICES ASSUME NEW d \in Core PROVE Len(queue'[d]) < QSize
      BY DEF ShortQueues
    <3>1. CASE d = c
      <4>1. queue'[d] = Append(queue[c], op.msg) /\ queue[c] \in Seq(Msg)
        BY <1>1, <2>1, <2>2, <3>1
      <4>2. Len(queue'[d]) = Len(queue[c]) + 1 /\ Len(queue[c]) \in Nat
        BY <2>1, <4>1
      <4>3. Len(queue[c]) < QSize /\ Len(queue[c]) # QSize - 1
        BY <2>1, <2>2 DEF ShortQueues, QueueFull
      <4> QED BY <4>2, <4>3, QSizeAssumption
    <3>2. CASE d # c
      BY <1>1, <2>2, <3>2 DEF ShortQueues
    <3> QED BY <3>1, <3>2
  <2> QED BY <1>2, <1>3, <2>2 DEF ipcToCore
<1>4. ASSUME NEW c \in Core, Receive(c) PROVE ShortQueues'
  <2>1. queue' = [queue EXCEPT ![c] = Tail(@)] /\ queue[c] # <<>>
    BY <1>4 DEF Receive
  <2>2. \A d \in Core : queue'[d] = IF d = c THEN Tail(queue[d]) ELSE queue[d]
    BY <1>1, <2>1
  <2>3. queue[c] \in Seq(Msg)
    BY <1>1
  <2>4. Len(Tail(queue[c])) = Len(queue[c]) - 1 /\ Len(queue[c]) \in Nat
    BY <2>1, <2>3
  <2>5. Len(queue[c]) < QSize
    BY DEF ShortQueues
  <2>6. Len(Tail(queue[c])) < QSize
    BY <2>4, <2>5, QSizeAssumption
  <2> QED BY <2>2, <2>6 DEF ShortQueues
<1>5. ASSUME NEW t \in Thread, Step(t) PROVE ShortQueues'
  <2> DEFINE op == Head(todo[t])
  <2>1. todo[t] # <<>>
    BY <1>5 DEF Step, CanRun
  <2>2. CASE ipcToCore(t, op)
    BY <1>3, <2>1, <2>2
  <2>3. CASE DoRef(t, op) \/ DoUnref(t, op) \/ Initialize(t, op) \/ Register(t, op) \/ sae_buffer_init(t, op)
             \/ EnableSharcs(t, op) \/ WaitForSharcs(t, op) \/ CreateCycles(t, op) \/ Heard(t, op)
    BY <1>2, <2>3 DEF DoRef, DoUnref, Initialize, Register, sae_buffer_init, EnableSharcs, WaitForSharcs,
                      CreateCycles, Heard, busVars, vars
  <2>4. CASE Announce(t, op) \/ Ping(t, op) \/ Ask(t, op) \/ Reply(t, op) \/ xferSharcAudio(t, op)
             \/ DomainReady(t, op) \/ RouteAudio(t, op) \/ newAudio(t, op) \/ sharcProcessAudio(t, op)
    BY <1>2, <2>4 DEF Announce, Ping, Ask, Reply, Create, xferSharcAudio, DomainReady, RouteAudio, newAudio,
                      sharcProcessAudio, busVars
  <2> QED BY <1>5, <2>2, <2>3, <2>4 DEF Step
<1>6. CASE (\E d \in {"CODEC_IN", "CODEC_OUT"} : codecAudio(d)) \/ houseKeepingTask \/ UNCHANGED vars
  BY <1>2, <1>6 DEF codecAudio, houseKeepingTask, vars, busVars
<1> QED BY <1>4, <1>5, <1>6 DEF Next, Finished

\* The queues are empty at first.
LEMMA InitQueues == Init => ShortQueues
BY QSizeAssumption DEF Init, ShortQueues

-----------------------------------------------------------------------------
(* Room in the heap *)

\* S has at most n elements.
Small(S, n) == IsFiniteSet(S) /\ Cardinality(S) <= n

\* Unions and images of small sets are small.
LEMMA SmallBoth ==
  ASSUME NEW S, NEW T, NEW m \in Nat, NEW n \in Nat, Small(S, m), Small(T, n)
  PROVE  Small(S \cup T, m + n)
<1>1. IsFiniteSet(S) /\ IsFiniteSet(T) /\ IsFiniteSet(S \cap T)
  <2>1. S \cap T \in SUBSET S
    OBVIOUS
  <2> QED BY <2>1, FS_Subset DEF Small
<1>2. IsFiniteSet(S \cup T) /\ Cardinality(S \cup T) = Cardinality(S) + Cardinality(T) - Cardinality(S \cap T)
  BY <1>1, FS_Union
<1>3. Cardinality(S) \in Nat /\ Cardinality(T) \in Nat /\ Cardinality(S \cap T) \in Nat
  BY <1>1, FS_CardinalityType
<1>4. Cardinality(S) <= m /\ Cardinality(T) <= n
  BY DEF Small
<1>5. Cardinality(S \cup T) <= m + n
  BY <1>2, <1>3, <1>4
<1> QED BY <1>2, <1>5 DEF Small

LEMMA SmallImage ==
  ASSUME NEW S, IsFiniteSet(S), NEW f, DOMAIN f = S
  PROVE  Small({f[i] : i \in S}, Cardinality(S))
<1> DEFINE T == {f[i] : i \in S}
           g == [i \in S |-> f[i]]
<1>1. g \in Surjection(S, T)
  BY DEF Surjection
<1> HIDE DEF g, T
<1>2. IsFiniteSet(T) /\ Cardinality(T) <= Cardinality(S)
  BY <1>1, FS_Surjection
<1> QED BY <1>2 DEF Small, T

LEMMA SmallMore ==
  ASSUME NEW S, NEW m \in Nat, NEW n \in Nat, Small(S, m), m <= n
  PROVE  Small(S, n)
<1>1. IsFiniteSet(S) /\ Cardinality(S) <= m
  BY DEF Small
<1>2. Cardinality(S) \in Nat
  BY <1>1, FS_CardinalityType
<1> QED BY <1>1, <1>2 DEF Small

\* The ids of the short messages a list of calls gives away, and of the
\* messages in a queue.
GivesHere    == {x \in Call : x.op \in {"send", "unref"} /\ x.msg \in Short}
GivenIds(l)  == {l[i].msg.id : i \in Places(l, 1, GivesHere)}
QueuedIds(q) == {q[i].id : i \in 1 .. Len(q)}

\* A list whose first call creates a message gives away less than its load.
LEMMA GivenFew ==
  ASSUME NEW l \in Seq(Call), NEW n \in Nat, Load(l) <= n + (IF l # <<>> /\ Head(l).op \in Makes THEN 1 ELSE 0)
  PROVE  Small(GivenIds(l), n)
<1> DEFINE P == Places(l, 1, GivesHere)
           Q == Places(l, 1, GivesShort)
           f == [i \in P |-> l[i].msg.id]
<1>0. 1 \in Nat
  OBVIOUS
<1>1. IsFiniteSet(P) /\ IsFiniteSet(Q) /\ Cardinality(P) = Number(l, 1, GivesHere)
      /\ Cardinality(Q) = Number(l, 1, GivesShort)
      /\ Cardinality(P) \in Nat /\ Cardinality(Q) \in Nat
  BY <1>0, PlacesFinite DEF Number
<1>2. P \subseteq Q
  BY DEF Places, GivesHere, GivesShort
<1>3. Cardinality(Q) <= Load(l) /\ Load(l) \in Nat
  <2>1. PICK q, r : q = Number(l, 1, GivesTwice) /\ r = Number(l, 1, GivesThrice)
    OBVIOUS
  <2>2. q \in Nat /\ r \in Nat
    BY <1>0, <2>1, PlacesFinite
  <2>3. Load(l) = Cardinality(Q) + q + r
    BY <1>1, <2>1, Zenon DEF Load
  <2> QED BY <1>1, <2>2, <2>3
<1>4. Cardinality(P) <= n
  <2>1. CASE l # <<>> /\ Head(l).op \in Makes
    <3>1. 1 \in 1 .. Len(l) /\ Head(l) = l[1] /\ l[1] \in Call
      BY <2>1, TailOfCalls
    <3>2. 1 \in Q /\ 1 \notin P
      BY <2>1, <3>1 DEF Places, GivesHere, GivesShort, Makes
    <3>3. P \in SUBSET Q /\ P # Q
      BY <1>2, <3>2
    <3>4. Cardinality(P) <= Cardinality(Q) /\ Cardinality(P) # Cardinality(Q)
      <4> HIDE DEF P, Q
      <4> QED BY <1>1, <3>3, FS_Subset
    <3>5. Load(l) <= n + 1
      BY <2>1
    <3> HIDE DEF P, Q
    <3> QED BY <1>1, <1>3, <3>4, <3>5
  <2>2. CASE ~(l # <<>> /\ Head(l).op \in Makes)
    <3>1. Cardinality(P) <= Cardinality(Q)
      <4>1. P \in SUBSET Q
        BY <1>2
      <4> HIDE DEF P, Q
      <4> QED BY <1>1, <4>1, FS_Subset
    <3>2. Load(l) <= n
      BY <2>2
    <3> HIDE DEF P, Q
    <3> QED BY <1>1, <1>3, <3>1, <3>2
  <2> QED BY <2>1, <2>2
<1>5. Small({f[i] : i \in P}, Cardinality(P))
  <2>1. DOMAIN f = P
    OBVIOUS
  <2> HIDE DEF f, P
  <2> QED BY <1>1, <2>1, SmallImage
<1>6. {f[i] : i \in P} = GivenIds(l)
  BY DEF GivenIds
<1> HIDE DEF f, P, Q
<1> QED BY <1>1, <1>4, <1>5, <1>6, SmallMore

\* A queue holds no more ids than messages.
LEMMA QueuedFew ==
  ASSUME NEW q \in Seq(Msg), NEW n \in Nat, Len(q) <= n
  PROVE  Small(QueuedIds(q), n)
<1> DEFINE P == 1 .. Len(q)
           f == [i \in P |-> q[i].id]
<1>1. IsFiniteSet(P) /\ Cardinality(P) = Len(q) /\ Len(q) \in Nat
  <2>1. 1 \in Int /\ Len(q) \in Int /\ (IF 1 > Len(q) THEN 0 ELSE Len(q) - 1 + 1) = Len(q)
    OBVIOUS
  <2> QED BY <2>1, FS_Interval
<1>2. Small({f[i] : i \in P}, Len(q))
  <2>1. DOMAIN f = P
    OBVIOUS
  <2> HIDE DEF f, P
  <2> QED BY <1>1, <2>1, SmallImage
<1>3. {f[i] : i \in P} = QueuedIds(q)
  BY DEF QueuedIds
<1> HIDE DEF f, P
<1> QED BY <1>1, <1>2, <1>3, SmallMore

-----------------------------------------------------------------------------
(* The theorem about room *)

\* Every short message is in a queue, or some thread will give it away.
LEMMA ShortHeld ==
  ASSUME IndInv, NEW m \in Short, m \in DOMAIN ref
  PROVE  \/ \E c \in Core : m.id \in QueuedIds(queue[c])
         \/ \E t \in Thread : m.id \in GivenIds(todo[t])
<1>0. /\ todo \in [Thread -> Seq(Call)] /\ queue \in [Core -> Seq(Msg)] /\ m \in Msg /\ 1 \in Nat
      /\ {"ARM", "SHARC0", "SHARC1"} \subseteq Core
  BY Threads DEF IndInv, Types, Msg
<1>1. /\ Counter(ref, m) \in Nat /\ Own(ref, m) \in Nat /\ Waiting(queue, m) \in Nat
      /\ Counter(ref, m) > 0 <=> m \in DOMAIN ref
  BY <1>0, NumbersTyped DEF IndInv
<1>2. Own(ref, m) = 0
  BY Messages DEF Own
<1>3. Counter(ref, m) = Own(ref, m) + Waiting(queue, m) + Held(todo, m)
  BY <1>0 DEF IndInv, Counted, Balance
<1>4. Held(todo, m) \in Int
  BY <1>0, HeldCovers DEF IndInv, Counted
<1>5. Waiting(queue, m) > 0 \/ Held(todo, m) > 0
  BY <1>1, <1>2, <1>3, <1>4
<1>6. CASE Waiting(queue, m) > 0
  <2>1. \A c \in Core : queue[c] \in Seq(Msg) /\ Number(queue[c], 1, {m}) \in Nat
    BY <1>0, PlacesFinite
  <2>2. PICK c \in Core : Number(queue[c], 1, {m}) # 0
    BY <1>0, <1>6, <2>1 DEF Waiting
  <2>3. Places(queue[c], 1, {m}) # {}
    BY <2>2, FS_EmptySet DEF Number
  <2>4. PICK i \in 1 .. Len(queue[c]) : queue[c][i] = m
    BY <2>3 DEF Places
  <2> QED BY <2>4 DEF QueuedIds
<1>7. CASE Held(todo, m) > 0
  <2> DEFINE g == [t \in Thread |-> Claim(todo[t], 1, m)]
  <2>1. \A t \in Thread : g[t] = Claim(todo[t], 1, m) /\ g[t] \in Int
    BY <1>0, ClaimIsInt
  <2>2. Held(todo, m) = Total(g)
    BY DEF Held
  <2> HIDE DEF g
  <2>3. PICK t \in Thread : g[t] > 0
    BY <1>7, <2>1, <2>2, Threads DEF Total
  <2>4. Claim(todo[t], 1, m) > 0 /\ todo[t] \in Seq(Call)
    BY <1>0, <2>1, <2>3
  <2>5. Number(todo[t], 1, Gives(m)) \in Nat /\ Number(todo[t], 1, Takes(m)) \in Nat
    BY <1>0, <2>4, PlacesFinite
  <2>6. Number(todo[t], 1, Gives(m)) # 0
    BY <2>4, <2>5 DEF Claim
  <2>7. Places(todo[t], 1, Gives(m)) # {}
    BY <2>6, FS_EmptySet DEF Number
  <2>8. PICK i \in 1 .. Len(todo[t]) : todo[t][i] \in Gives(m)
    BY <2>7 DEF Places
  <2>9. todo[t][i] \in GivesHere /\ todo[t][i].msg = m
    BY <2>8 DEF Gives, GivesHere
  <2>10. i \in Places(todo[t], 1, GivesHere)
    BY <2>9 DEF Places
  <2> QED BY <2>9, <2>10 DEF GivenIds
<1> QED BY <1>5, <1>6, <1>7

\* What all lists and queues hold together.
Ids == GivenIds(todo[<<"ARM", "task">>]) \cup GivenIds(todo[<<"ARM", "irq">>])
       \cup GivenIds(todo[<<"SHARC0", "task">>]) \cup GivenIds(todo[<<"SHARC0", "irq">>])
       \cup GivenIds(todo[<<"SHARC1", "task">>]) \cup GivenIds(todo[<<"SHARC1", "irq">>])
       \cup QueuedIds(queue["ARM"]) \cup QueuedIds(queue["SHARC0"]) \cup QueuedIds(queue["SHARC1"])

\* Nine small sets together.
LEMMA Sums ==
  ASSUME NEW a \in Nat, NEW b \in Nat, NEW c \in Nat, NEW d \in Nat, NEW e \in Nat, NEW f \in Nat, NEW n \in Nat,
         NEW A, NEW B, NEW C, NEW D, NEW E, NEW F, NEW G, NEW H, NEW I,
         Small(A, a), Small(B, b), Small(C, c), Small(D, d), Small(E, e), Small(F, f),
         Small(G, n), Small(H, n), Small(I, n)
  PROVE  Small(A \cup B \cup C \cup D \cup E \cup F \cup G \cup H \cup I, a + b + c + d + e + f + 3 * n)
<1>1. PICK S1, S2, S3, S4, S5, S6, S7 :
        /\ S1 = A \cup B /\ S2 = S1 \cup C /\ S3 = S2 \cup D /\ S4 = S3 \cup E /\ S5 = S4 \cup F
        /\ S6 = S5 \cup G /\ S7 = S6 \cup H
  OBVIOUS
<1>2. PICK n1, n2, n3, n4, n5, n6, n7 \in Nat :
        /\ n1 = a + b /\ n2 = n1 + c /\ n3 = n2 + d /\ n4 = n3 + e /\ n5 = n4 + f
        /\ n6 = n5 + n /\ n7 = n6 + n
  OBVIOUS
<1>3. Small(S1, n1)
  BY <1>1, <1>2, SmallBoth
<1>4. Small(S2, n2)
  BY <1>1, <1>2, <1>3, SmallBoth
<1>5. Small(S3, n3)
  BY <1>1, <1>2, <1>4, SmallBoth
<1>6. Small(S4, n4)
  BY <1>1, <1>2, <1>5, SmallBoth
<1>7. Small(S5, n5)
  BY <1>1, <1>2, <1>6, SmallBoth
<1>8. Small(S6, n6)
  BY <1>1, <1>2, <1>7, SmallBoth
<1>9. Small(S7, n7)
  BY <1>1, <1>2, <1>8, SmallBoth
<1>10. Small(S7 \cup I, n7 + n)
  BY <1>2, <1>9, SmallBoth
<1>11. n7 + n = a + b + c + d + e + f + 3 * n
  BY <1>2
<1>12. S7 \cup I = A \cup B \cup C \cup D \cup E \cup F \cup G \cup H \cup I
  BY <1>1
<1> QED BY <1>10, <1>11, <1>12

\* When a call is about to create a message, the others cannot fill the heap.
LEMMA RoomIsLeft ==
  ASSUME IndInv, AllLimits, ShortQueues, Heap >= 3 * QSize + 10,
         NEW t \in Thread, todo[t] # <<>>, Head(todo[t]).op \in Makes
  PROVE  FreeIds # {}
<1> SUFFICES ASSUME FreeIds = {} PROVE FALSE
  OBVIOUS
<1>1. /\ todo \in [Thread -> Seq(Call)] /\ queue \in [Core -> Seq(Msg)] /\ DOMAIN ref \subseteq Msg
  BY DEF IndInv, Types, Counters
<1>2. 1 .. Heap \subseteq Ids
  <2> SUFFICES ASSUME NEW i \in 1 .. Heap PROVE i \in Ids
    OBVIOUS
  <2>1. PICK m \in DOMAIN ref \ Persistent : m.id = i
    BY DEF FreeIds
  <2>2. m \in Short /\ m \in DOMAIN ref
    BY <1>1, <2>1 DEF Msg
  <2>3. \/ \E c \in Core : i \in QueuedIds(queue[c])
        \/ \E u \in Thread : i \in GivenIds(todo[u])
    BY <2>1, <2>2, ShortHeld
  <2> QED BY <2>3, Threads DEF Ids
<1> DEFINE less(u) == IF u = t THEN 1 ELSE 0
           cap(u)  == Cap(u) - less(u)
<1>3. ASSUME NEW u \in Thread
      PROVE  cap(u) \in Nat /\ Small(GivenIds(todo[u]), cap(u))
  <2>1. PICK l \in Seq(Call) : l = todo[u]
    BY <1>1
  <2>2. Cap(u) \in Nat /\ Cap(u) >= 1
    BY DEF Cap
  <2>3. PICK n \in Nat : n = cap(u)
    BY <2>2
  <2>4. Load(l) <= n + (IF l # <<>> /\ Head(l).op \in Makes THEN 1 ELSE 0)
    <3>1. Load(l) <= Cap(u)
      BY <2>1 DEF AllLimits, Limits
    <3>2. Load(l) \in Int
      <4>1. PICK p, q, r : p = Number(l, 1, GivesShort) /\ q = Number(l, 1, GivesTwice) /\ r = Number(l, 1, GivesThrice)
        OBVIOUS
      <4>2. 1 \in Nat
        OBVIOUS
      <4>3. p \in Nat /\ q \in Nat /\ r \in Nat
        BY <4>1, <4>2, PlacesFinite
      <4> QED BY <4>1, <4>3 DEF Load
    <3>3. u = t => l # <<>> /\ Head(l).op \in Makes
      BY <2>1
    <3> QED BY <2>2, <2>3, <3>1, <3>2, <3>3
  <2>5. Small(GivenIds(l), n)
    BY <2>4, GivenFew
  <2> QED BY <2>1, <2>3, <2>5
<1>4. PICK n \in Nat : n = QSize - 1
  BY QSizeAssumption
<1>5. ASSUME NEW c \in Core PROVE Small(QueuedIds(queue[c]), n)
  <2>1. PICK q \in Seq(Msg) : q = queue[c]
    BY <1>1
  <2>2. Len(q) <= n
    BY <1>4, <2>1, QSizeAssumption DEF ShortQueues
  <2> QED BY <2>1, <2>2, QueuedFew
<1>6. PICK a, b, c, d, e, f \in Nat :
        /\ a = cap(<<"ARM", "task">>) /\ b = cap(<<"ARM", "irq">>) /\ c = cap(<<"SHARC0", "task">>)
        /\ d = cap(<<"SHARC0", "irq">>) /\ e = cap(<<"SHARC1", "task">>) /\ f = cap(<<"SHARC1", "irq">>)
  BY <1>3, Threads
<1>7. a + b + c + d + e + f <= 12
  <2>1. /\ a = 4 - less(<<"ARM", "task">>) /\ b = 3 - less(<<"ARM", "irq">>) /\ c = 1 - less(<<"SHARC0", "task">>)
        /\ d = 2 - less(<<"SHARC0", "irq">>) /\ e = 1 - less(<<"SHARC1", "task">>)
        /\ f = 2 - less(<<"SHARC1", "irq">>)
    BY <1>6 DEF Cap, ArmIrq
  <2> QED BY <2>1, Threads
<1> HIDE DEF cap, less
<1>8. Small(Ids, a + b + c + d + e + f + 3 * n)
  <2>1. /\ Small(GivenIds(todo[<<"ARM", "task">>]), a) /\ Small(GivenIds(todo[<<"ARM", "irq">>]), b)
        /\ Small(GivenIds(todo[<<"SHARC0", "task">>]), c) /\ Small(GivenIds(todo[<<"SHARC0", "irq">>]), d)
        /\ Small(GivenIds(todo[<<"SHARC1", "task">>]), e) /\ Small(GivenIds(todo[<<"SHARC1", "irq">>]), f)
    BY <1>3, <1>6, Threads
  <2>2. Small(QueuedIds(queue["ARM"]), n) /\ Small(QueuedIds(queue["SHARC0"]), n) /\ Small(QueuedIds(queue["SHARC1"]), n)
    BY <1>5, Threads
  <2>3. PICK A, B, C, D, E, F, G, H, I :
          /\ A = GivenIds(todo[<<"ARM", "task">>]) /\ B = GivenIds(todo[<<"ARM", "irq">>])
          /\ C = GivenIds(todo[<<"SHARC0", "task">>]) /\ D = GivenIds(todo[<<"SHARC0", "irq">>])
          /\ E = GivenIds(todo[<<"SHARC1", "task">>]) /\ F = GivenIds(todo[<<"SHARC1", "irq">>])
          /\ G = QueuedIds(queue["ARM"]) /\ H = QueuedIds(queue["SHARC0"]) /\ I = QueuedIds(queue["SHARC1"])
    OBVIOUS
  <2>4. Small(A \cup B \cup C \cup D \cup E \cup F \cup G \cup H \cup I, a + b + c + d + e + f + 3 * n)
    <3>1. /\ Small(A, a) /\ Small(B, b) /\ Small(C, c) /\ Small(D, d) /\ Small(E, e) /\ Small(F, f)
          /\ Small(G, n) /\ Small(H, n) /\ Small(I, n)
      BY <2>1, <2>2, <2>3
    <3> QED BY <3>1, Sums
  <2>5. Ids = A \cup B \cup C \cup D \cup E \cup F \cup G \cup H \cup I
    BY <2>3, Zenon DEF Ids
  <2> QED BY <2>4, <2>5
<1>9. PICK k \in Nat : k = a + b + c + d + e + f + 3 * n
  OBVIOUS
<1>10. k < Heap /\ Heap \in Nat
  BY <1>4, <1>7, <1>9, HeapAssumption, QSizeAssumption
<1>11. Cardinality(1 .. Heap) = Heap
  <2>1. 1 \in Int /\ Heap \in Int /\ (IF 1 > Heap THEN 0 ELSE Heap - 1 + 1) = Heap
    BY HeapAssumption
  <2> QED BY <2>1, FS_Interval
<1>12. Cardinality(1 .. Heap) <= Cardinality(Ids) /\ Cardinality(Ids) <= k /\ Cardinality(Ids) \in Nat
  <2>1. IsFiniteSet(Ids) /\ Cardinality(Ids) <= k
    BY <1>8, <1>9 DEF Small
  <2>2. 1 .. Heap \in SUBSET Ids
    BY <1>2
  <2> QED BY <2>1, <2>2, FS_Subset, FS_CardinalityType
<1> QED BY <1>10, <1>11, <1>12

\* The limits hold throughout.
LEMMA Bounded == Spec => [](IndInv /\ AllLimits /\ ShortQueues)
<1>1. Init => AllLimits /\ ShortQueues
  BY InitLimits, InitQueues
<1>2. IndInv /\ AllLimits /\ ShortQueues /\ [Next]_vars => (AllLimits /\ ShortQueues)'
  BY LimitsInductive, QueuesStay
<1> QED BY <1>1, <1>2, Inductive, PTL DEF Spec

\* A SHARC that answers a ping, and does not ask whether the answer was created
\* (sharc0_main.c:175), always finds room for it: the queues and the threads can
\* hold fewer short messages at once than the heap has room for.
THEOREM AnswersFindRoom ==
  ASSUME Heap >= 3 * QSize + 10
  PROVE  Spec => []RoomForReply
<1>1. IndInv /\ AllLimits /\ ShortQueues => RoomForReply
  BY RoomIsLeft DEF RoomForReply, Makes
<1> QED BY <1>1, Bounded, PTL

\* The sends of the ARM's audio interrupt find room in the SHARCs' queues.
Delivered ==
  todo[ArmIrq] # <<>> /\ Head(todo[ArmIrq]).op = "send" => ~QueueFull(Head(todo[ArmIrq]).core)

\* In such a heap the process messages find room as well, so that full queues and
\* missed deadlines are all that can cost a block or mix up the buffers of a pair.
THEOREM OnlyQueuesLoseBlocks ==
  ASSUME Deadline, Heap >= 3 * QSize + 10
  PROVE  Spec /\ []Delivered => [](BlocksReturn /\ NoSharedBuffer)
<1>1. IndInv /\ AllLimits /\ ShortQueues /\ Delivered => Accepted
  <2> SUFFICES ASSUME IndInv, AllLimits, ShortQueues, Delivered PROVE Accepted
    OBVIOUS
  <2>1. ArmIrq \in Thread
    BY Threads DEF ArmIrq
  <2>2. todo[ArmIrq] # <<>> /\ Head(todo[ArmIrq]).op = "domain" => FreeIds # {}
    BY <2>1, RoomIsLeft DEF Makes
  <2> QED BY <2>2 DEF Delivered, Accepted
<1> QED BY <1>1, Bounded, BlocksComeBack, BuffersAreApart, PTL

-----------------------------------------------------------------------------
(* The types of the audio's variables *)

\* Steps that do not concern the routing.
LEMMA TurnStays ==
  ASSUME Turn, todo'[ArmIrq] = todo[ArmIrq], UNCHANGED <<active, stream, block>>
  PROVE  Turn'
<1>1. (\A S : Has(S)' = Has(S)) /\ (\A d, s : Pending(d, s)' = Pending(d, s)) /\ \A d : Brought(d)' = Brought(d)
  BY DEF Has, Pending, Brought
<1> QED BY <1>1 DEF Turn

\* What is left of a list when its first call is replaced.
LEMMA WhatIsLeft ==
  ASSUME IndInv, NEW t \in Thread, todo[t] # <<>>, NEW then \in Seq(Call), Continue(t, then)
  PROVE  /\ \A x \in Elements(todo'[t]) : x \in Elements(then) \/ x \in Elements(todo[t])
         /\ \A x \in Elements(todo[t]) : x = Head(todo[t]) \/ x \in Elements(todo'[t])
         /\ Len(todo[t]) = 1 => todo'[t] = then
         /\ \A u \in Thread \ {t} : todo'[u] = todo[u]
<1>1. todo \in [Thread -> Seq(Call)]
  BY DEF IndInv, Types
<1>2. PICK l \in Seq(Call) : l = todo[t]
  BY <1>1
<1>3. l # <<>> /\ todo'[t] = then \o Tail(l) /\ \A u \in Thread \ {t} : todo'[u] = todo[u]
  BY <1>1, <1>2 DEF Continue
<1>4. /\ Tail(l) \in Seq(Call) /\ Len(Tail(l)) = Len(l) - 1 /\ Head(l) = l[1]
      /\ \A i \in 1 .. Len(Tail(l)) : Tail(l)[i] = l[i + 1]
  BY <1>3, TailOfCalls
<1>5. Elements(then \o Tail(l)) \subseteq Elements(then) \cup Elements(l)
  BY <1>3, GoesOn
<1>6. ASSUME NEW x \in Elements(l), x # Head(l) PROVE x \in Elements(then \o Tail(l))
  <2>1. PICK i \in 1 .. Len(l) : x = l[i]
    BY DEF Elements
  <2>2. i # 1 /\ i \in Nat /\ Len(l) \in Nat
    BY <1>4, <1>6, <2>1
  <2>3. PICK j : j = i - 1
    OBVIOUS
  <2>4. j \in 1 .. Len(Tail(l)) /\ i = j + 1
    BY <1>4, <2>2, <2>3
  <2>5. x = Tail(l)[j]
    BY <1>4, <2>1, <2>4
  <2>6. PICK b, n : b \in Seq(Call) /\ b = Tail(l) /\ n = Len(then) + j
    BY <1>4
  <2>7. n \in 1 .. Len(then \o b) /\ (then \o b)[n] = b[j]
    BY <2>4, <2>6
  <2>8. x = (then \o b)[n] /\ then \o b = then \o Tail(l)
    BY <2>5, <2>6, <2>7
  <2>9. (then \o b)[n] \in Elements(then \o b)
    BY <2>7 DEF Elements
  <2> QED BY <2>8, <2>9
<1>7. Len(l) = 1 => then \o Tail(l) = then
  <2> SUFFICES ASSUME Len(l) = 1 PROVE then \o Tail(l) = then
    OBVIOUS
  <2>1. Len(Tail(l)) = 0
    BY <1>4
  <2>2. \A q \in Seq(Call) : Len(q) = 0 => q = <<>>
    OBVIOUS
  <2>3. Tail(l) = <<>>
    BY <1>4, <2>1, <2>2
  <2> QED BY <2>3, ConcatEmptySeq
<1> QED BY <1>2, <1>3, <1>5, <1>6, <1>7

\* A call of the ARM's interrupt that has nothing to do with the routing.
LEMMA TurnGoesOn ==
  ASSUME IndInv, Turn, todo[ArmIrq] # <<>>, Goes(ArmIrq), Head(todo[ArmIrq]).op \notin Routing,
         UNCHANGED <<active, stream, block>>
  PROVE  Turn'
<1>1. PICK then : Continue(ArmIrq, then) /\ Allowed(ArmIrq, todo[ArmIrq], then)
  BY DEF Goes
<1>2. ArmIrq \in Thread /\ then \in Seq(Call)
  BY <1>1, Threads DEF ArmIrq, Allowed
<1>3. \A x \in Elements(then) : x.op \notin {"domain", "route"}
  BY <1>1 DEF Allowed, Routing
<1>4. PICK l, k : l = todo[ArmIrq] /\ k = todo'[ArmIrq]
  OBVIOUS
<1>5. /\ \A x \in Elements(k) : x \in Elements(then) \/ x \in Elements(l)
      /\ \A x \in Elements(l) : x = Head(l) \/ x \in Elements(k)
  BY <1>1, <1>2, <1>4, WhatIsLeft
<1>6. \A S \in {{"domain", "route"}, {"route"}} : Has(S)' => Has(S)
  BY <1>3, <1>4, <1>5 DEF Has
<1>7. \A d, s : Pending(d, s) => Pending(d, s)'
  BY <1>4, <1>5 DEF Pending, Routing
<1>8. \A d : Brought(d)' = Brought(d)
  BY DEF Brought
<1> QED BY <1>6, <1>7, <1>8 DEF Turn

\* The call that routes, or that is the last one before it, is alone.
LEMMA RoutesAlone ==
  ASSUME IndInv, AllLimits, NEW t \in Thread, todo[t] # <<>>, Head(todo[t]).op \in {"domain", "route"}
  PROVE  t = ArmIrq /\ Len(todo[t]) = 1 /\ Elements(todo[t]) = {Head(todo[t])}
<1>1. PICK l \in Seq(Call) : l = todo[t]
  BY DEF IndInv, Types
<1>2. l # <<>> /\ Limits(l, t) /\ Head(l) = l[1] /\ 1 \in 1 .. Len(l) /\ l[1].op \in {"domain", "route"}
  BY <1>1, TailOfCalls DEF AllLimits
<1>3. 1 = Len(l)
  BY <1>2 DEF Limits
<1>4. Elements(l) = {Head(l)}
  <2>1. 1 .. 1 = {1}
    OBVIOUS
  <2>2. 1 .. Len(l) = {1}
    BY <1>3, <2>1
  <2> QED BY <1>2, <2>2 DEF Elements
<1>5. t = ArmIrq
  BY <1>2, <1>4 DEF Limits, Apt, Routing
<1> QED BY <1>1, <1>3, <1>4, <1>5

\* The transfer of a buffer, the call before the routing, and the routing.
LEMMA TurnXfer ==
  ASSUME IndInv, AllLimits, Fields, Turn, NEW t \in Thread, todo[t] # <<>>, xferSharcAudio(t, Head(todo[t]))
  PROVE  Fields' /\ Turn'
<1> DEFINE x == Head(todo[t])
           dir == x.msg.type
           swap == Swap(pp[dir][x.core])
           m == Buffer(dir, x.core, swap.send)
<1>1. /\ x.op = "xfer" /\ stream' = [stream EXCEPT ![dir][x.core] = swap.keep]
      /\ UNCHANGED <<bootVars, active, got, block, info, data>>
  BY DEF xferSharcAudio, busVars
<1>2. x.msg \in Audio /\ x.core \in Sharcs /\ x \in Elements(todo[t])
  BY <1>1, HeadIsProper DEF Proper
<1>3. dir \in Dirs
  BY <1>2 DEF Audio, Message, Dirs
<1>4. swap.keep \in 0 .. 1
  <2>1. pp[dir][x.core] \in 0 .. 1
    BY <1>2, <1>3 DEF IndInv, Types, PingPong, Dirs
  <2> QED BY <2>1 DEF Swap
<1> HIDE DEF swap
<1>5. t = ArmIrq
  BY <1>1, <1>2 DEF AllLimits, Limits, Apt, Routing
<1>6. Goes(t)
  BY XferGoes
<1>7. PICK then : Continue(t, then) /\ Allowed(t, todo[t], then)
  BY <1>6 DEF Goes
<1>8. then \in Seq(Call) /\ \A y \in Elements(then) : y.op \notin {"domain", "route"}
  BY <1>1, <1>7 DEF Allowed
<1>9. PICK l, k : l = todo[t] /\ k = todo'[t]
  OBVIOUS
<1>10. /\ \A y \in Elements(k) : y \in Elements(then) \/ y \in Elements(l)
       /\ \A y \in Elements(l) : y = Head(l) \/ y \in Elements(k)
  BY <1>7, <1>8, <1>9, WhatIsLeft
<1>11. \A S \in {{"domain", "route"}, {"route"}} : Has(S)' => Has(S)
  BY <1>5, <1>8, <1>9, <1>10 DEF Has
<1>12. \A d, s : Pending(d, s) => Pending(d, s)' \/ (d = dir /\ s = x.core)
  BY <1>5, <1>9, <1>10 DEF Pending
<1>13. \A d : Brought(d)' = Brought(d)
  BY <1>1 DEF Brought
<1>14. stream \in [Dirs -> [Sharcs -> {None, 0, 1}]]
  BY DEF Fields
<1> HIDE DEF dir, x
<1>15. \A d \in Dirs, s \in Sharcs : stream'[d][s] = IF d = dir /\ s = x.core THEN swap.keep ELSE stream[d][s]
  BY <1>1, <1>2, <1>3, <1>14
<1>16. stream' \in [Dirs -> [Sharcs -> {None, 0, 1}]]
  <2>1. swap.keep \in {None, 0, 1}
    BY <1>4
  <2> QED BY <1>1, <1>2, <1>3, <1>14, <2>1
<1>17. Turn'
  <2>1. ASSUME NEW d \in Dirs, NEW s \in Sharcs, Brought(d)' \/ Has({"route"})'
        PROVE  stream'[d][s] \in 0 .. 1 \/ Pending(d, s)'
    <3>1. stream[d][s] \in 0 .. 1 \/ Pending(d, s)
      BY <1>11, <1>13, <2>1 DEF Turn
    <3> QED BY <1>4, <1>12, <1>15, <3>1
  <2>2. /\ Has({"domain", "route"})' => block' < MaxBlocks
        /\ Has({"route"})' => active' = {}
    BY <1>1, <1>11 DEF Turn
  <2> QED BY <2>1, <2>2 DEF Turn
<1> QED BY <1>1, <1>16, <1>17 DEF Fields, bootVars

LEMMA TurnDomain ==
  ASSUME IndInv, AllLimits, Fields, Turn, NEW t \in Thread, todo[t] # <<>>, DomainReady(t, Head(todo[t]))
  PROVE  Fields' /\ Turn'
<1> DEFINE x == Head(todo[t])
           complete == active = {"CODEC_IN", "CODEC_OUT"}
<1>1. /\ x.op = "domain" /\ active' = (IF complete THEN {} ELSE active)
      /\ UNCHANGED <<bootVars, stream, got, block, info, data>>
      /\ ~complete => Continue(t, <<>>)
  BY DEF DomainReady
<1>2. t = ArmIrq /\ Len(todo[t]) = 1 /\ Elements(todo[t]) = {x}
  BY <1>1, RoutesAlone
<1>3. block < MaxBlocks /\ \A d, s : ~Pending(d, s)
  BY <1>1, <1>2 DEF Turn, Has, Pending
<1>4. \A d \in Dirs, s \in Sharcs : Brought(d) => stream[d][s] \in 0 .. 1
  BY <1>3 DEF Turn
<1>5. Fields'
  BY <1>1 DEF Fields, bootVars
<1>6. CASE complete
  <2>1. \A d \in Dirs : Brought(d)
    BY <1>6 DEF Brought, Dirs
  <2>2. active' = {}
    BY <1>1, <1>6
  <2> QED BY <1>1, <1>3, <1>4, <1>5, <2>1, <2>2 DEF Turn
<1>7. CASE ~complete
  <2>1. todo'[t] = <<>>
    <3>1. <<>> \in Seq(Call)
      BY EmptyList
    <3> QED BY <1>1, <1>2, <1>7, <3>1, WhatIsLeft
  <2>2. \A S : ~Has(S)'
    BY <1>2, <2>1, EmptyList DEF Has
  <2>3. \A d : Brought(d)' = Brought(d)
    BY <1>1, <1>7 DEF Brought
  <2> QED BY <1>1, <1>3, <1>4, <1>5, <2>2, <2>3 DEF Turn
<1> QED BY <1>6, <1>7

LEMMA TurnRoute ==
  ASSUME IndInv, AllLimits, Fields, Turn, NEW t \in Thread, todo[t] # <<>>, RouteAudio(t, Head(todo[t]))
  PROVE  Fields' /\ Turn'
<1> DEFINE x == Head(todo[t])
           y(s) == data[Buffer("OUT", s, stream["OUT"][s])]
           z(m) == IF m.type = "IN" /\ stream["IN"][m.core] = m.id THEN block + 1 ELSE data[m]
<1>1. /\ x.op = "route" /\ block' = block + 1 /\ got' = [s \in Sharcs |-> y(s)]
      /\ data' = [m \in Audio |-> z(m)]
      /\ stream' = [d \in Dirs |-> [s \in Sharcs |-> None]] /\ Continue(t, <<>>)
      /\ UNCHANGED <<bootVars, active, info>>
  BY DEF RouteAudio, Dirs
<1>2. t = ArmIrq /\ Len(todo[t]) = 1 /\ Elements(todo[t]) = {x}
  BY <1>1, RoutesAlone
<1>3. block < MaxBlocks /\ active = {} /\ (\A d, s : ~Pending(d, s)) /\ Has({"route"})
  BY <1>1, <1>2 DEF Turn, Has, Pending
<1>4. \A d \in Dirs, s \in Sharcs : stream[d][s] \in 0 .. 1
  BY <1>3 DEF Turn
<1>5. /\ block \in 0 .. MaxBlocks /\ data \in [Audio -> 0 .. MaxBlocks]
  BY DEF Fields
<1>6. block + 1 \in 0 .. MaxBlocks
  BY <1>3, <1>5, BoundAssumption
<1>7. \A s \in Sharcs : y(s) \in 0 .. MaxBlocks
  <2> SUFFICES ASSUME NEW s \in Sharcs PROVE y(s) \in 0 .. MaxBlocks
    OBVIOUS
  <2>1. stream["OUT"][s] \in 0 .. 1
    BY <1>4 DEF Dirs
  <2>2. Buffer("OUT", s, stream["OUT"][s]) \in Audio
    BY <2>1, BufferIsAudio
  <2> QED BY <1>5, <2>2
<1>8. \A m \in Audio : z(m) \in 0 .. MaxBlocks
  BY <1>5, <1>6
<1> HIDE DEF y, z
<1>9. Fields'
  <2>1. got' \in [Sharcs -> 0 .. MaxBlocks] /\ data' \in [Audio -> 0 .. MaxBlocks]
    BY <1>1, <1>7, <1>8
  <2>2. stream' \in [Dirs -> [Sharcs -> {None, 0, 1}]]
    BY <1>1
  <2> QED BY <1>1, <1>6, <2>1, <2>2 DEF Fields, bootVars
<1>10. todo'[t] = <<>>
  <2>1. <<>> \in Seq(Call)
    BY EmptyList
  <2> QED BY <1>1, <1>2, <2>1, WhatIsLeft
<1>11. (\A S : ~Has(S)') /\ \A d : ~Brought(d)'
  BY <1>1, <1>2, <1>3, <1>10, EmptyList DEF Has, Brought
<1> QED BY <1>9, <1>11 DEF Turn

\* A callback has nothing to do with the routing.
LEMMA HandleApart ==
  ASSUME NEW c \in Core, NEW m \in Msg
  PROVE  \A x \in Elements(Handle(c, m)) : x.op \notin Routing
<1> DEFINE u == Unref(m)
<1>1. PICK l : l = Handle(c, m)
  OBVIOUS
<1>2. u \in Call /\ u.op = "unref"
  BY LibraryCalls
<1>3. \/ l = <<u>>
      \/ \E a \in Call : a.op \in {"reply", "audio", "process", "heard"} /\ l = <<a, u>>
      \/ c \in Sharcs /\ l = <<Ref(Cycles(c)), Send(Cycles(c), "ARM"), u>>
  BY <1>1, HandleShape
<1> HIDE DEF u
<1>4. CASE l = <<u>>
  <2>1. Elements(l) = {u}
    BY <1>2, <1>4, ListOfOne
  <2> QED BY <1>1, <1>2, <2>1 DEF Routing
<1>5. ASSUME NEW a \in Call, a.op \in {"reply", "audio", "process", "heard"}, l = <<a, u>>
      PROVE  \A x \in Elements(l) : x.op \notin Routing
  <2>1. Elements(l) = {a, u}
    BY <1>2, <1>5, ListOfTwo
  <2> QED BY <1>2, <1>5, <2>1 DEF Routing
<1>6. CASE c \in Sharcs /\ l = <<Ref(Cycles(c)), Send(Cycles(c), "ARM"), u>>
  <2>1. Cycles(c) \in Msg /\ "ARM" \in Core
    BY <1>6, Messages, Threads DEF Msg
  <2>2. PICK f \in Call, g \in Call : f = Ref(Cycles(c)) /\ g = Send(Cycles(c), "ARM") /\ f.op = "ref" /\ g.op = "send"
    BY <2>1, LibraryCalls
  <2>3. Elements(l) = {f, g, u}
    BY <1>2, <1>6, <2>2, ListOfThree
  <2> QED BY <1>1, <1>2, <2>2, <2>3 DEF Routing
<1> QED BY <1>1, <1>3, <1>4, <1>5, <1>6

\* A callback starts; a codec stream arrives.
LEMMA TurnReceive ==
  ASSUME IndInv, Fields, Turn, NEW c \in Core, Receive(c)
  PROVE  Fields' /\ Turn'
<1> DEFINE t == <<c, "irq">>
<1>1. PICK m : m = Head(queue[c])
  OBVIOUS
<1>2. /\ queue[c] # <<>> /\ todo[t] = <<>>
      /\ todo' = IF c \in callback THEN [todo EXCEPT ![t] = Handle(c, m)] ELSE todo
      /\ UNCHANGED <<bootVars, appVars>>
  BY <1>1 DEF Receive
<1>3. m \in Msg
  BY <1>1, <1>2 DEF IndInv, Types
<1>4. UNCHANGED <<ready, enabled, active, stream, got, block, info, data>>
  BY <1>2 DEF bootVars, appVars, armVars
<1>5. t \in Thread /\ todo \in [Thread -> Seq(Call)] /\ ArmIrq \in Thread
  BY Threads DEF IndInv, Types, Thread, ArmIrq
<1>6. Fields'
  BY <1>4 DEF Fields
<1>7. CASE todo'[ArmIrq] = todo[ArmIrq]
  BY <1>4, <1>6, <1>7, TurnStays
<1>8. CASE todo'[ArmIrq] # todo[ArmIrq]
  <2>1. t = ArmIrq /\ todo'[ArmIrq] = Handle(c, m)
    BY <1>2, <1>5, <1>8
  <2>2. \A d, s : ~Pending(d, s)
    BY <1>2, <2>1, EmptyList DEF Pending
  <2>3. ~Has({"route"})' /\ ~Has({"domain", "route"})'
    BY <1>3, <2>1, HandleApart DEF Has, Routing
  <2>4. \A d : Brought(d)' = Brought(d)
    BY <1>4 DEF Brought
  <2> QED BY <1>4, <1>6, <2>2, <2>3, <2>4 DEF Turn
<1> QED BY <1>7, <1>8

LEMMA TurnCodec ==
  ASSUME IndInv, Fields, Turn, NEW d \in {"CODEC_IN", "CODEC_OUT"}, codecAudio(d)
  PROVE  Fields' /\ Turn'
<1> DEFINE dir == IF d = "CODEC_IN" THEN "OUT" ELSE "IN"
           a == Op("xfer", Buffer(dir, "SHARC0", 0), "SHARC0")
           b == Op("xfer", Buffer(dir, "SHARC1", 0), "SHARC1")
           e == Plain("domain")
           l == <<a, b, e>>
<1>1. /\ todo' = [todo EXCEPT ![ArmIrq] = l] /\ todo[ArmIrq] = <<>> /\ block < MaxBlocks
      /\ active' = active \cup {d} /\ UNCHANGED <<bootVars, stream, got, block, info, data>>
  BY DEF codecAudio, ArmIrq
<1>2. ArmIrq \in Thread /\ "SHARC0" \in Sharcs /\ "SHARC1" \in Sharcs /\ Sharcs \subseteq Core
  BY Threads DEF Core, ArmIrq
<1>3. Buffer(dir, "SHARC0", 0) \in Msg /\ Buffer(dir, "SHARC1", 0) \in Msg
  BY <1>2, BufferIsAudio, Messages DEF Msg
<1>4. a \in Call /\ b \in Call /\ e \in Call
  BY <1>2, <1>3, CallsAreCalls
<1>5. /\ a.op = "xfer" /\ a.msg.type = dir /\ a.core = "SHARC0" /\ b.op = "xfer" /\ b.msg.type = dir /\ b.core = "SHARC1"
      /\ e.op = "domain"
  BY DEF Op, Plain, Buffer, Message
<1> HIDE DEF a, b, e
<1>6. Elements(l) = {a, b, e}
  BY <1>4, ListOfThree
<1> HIDE DEF l
<1>7. todo'[ArmIrq] = l
  BY <1>1, <1>2 DEF IndInv, Types
<1>8. ~Has({"route"})' /\ \A s \in Sharcs : Pending(dir, s)'
  BY <1>5, <1>6, <1>7, Threads DEF Has, Pending
<1>9. \A f, s : ~Pending(f, s)
  BY <1>1, EmptyList DEF Pending
<1>10. \A f : Brought(f)' => Brought(f) \/ f = dir
  BY <1>1 DEF Brought
<1>11. Fields'
  BY <1>1 DEF Fields, bootVars
<1> HIDE DEF dir
<1> QED BY <1>1, <1>8, <1>9, <1>10, <1>11 DEF Turn

\* The other calls of the application.
LEMMA TurnAudio ==
  ASSUME IndInv, AllLimits, Fields, Turn, NEW t \in Thread, todo[t] # <<>>, newAudio(t, Head(todo[t]))
  PROVE  Fields' /\ UNCHANGED <<active, stream, block>>
<1>1. PICK x : x = Head(todo[t])
  OBVIOUS
<1>2. /\ x.op = "audio" /\ info' = [info EXCEPT ![x.core][x.msg.type] = x.msg.id]
      /\ data' = (IF x.msg.type = "OUT" THEN [data EXCEPT ![x.msg] = 0] ELSE data)
      /\ UNCHANGED <<ready, enabled, active, stream, got, block>>
  BY <1>1 DEF newAudio, bootVars, armVars
<1>3. x \in Elements(todo[t])
  BY <1>1, HeadIsProper
<1>4. x.msg \in Audio /\ x.core \in Sharcs
  BY <1>2, <1>3 DEF AllLimits, Limits, Apt
<1>5. x.msg.type \in Dirs /\ x.msg.id \in 0 .. 1
  BY <1>4 DEF Audio, Message, Dirs
<1>6. info' \in [Sharcs -> [Dirs -> {None, 0, 1}]]
  BY <1>2, <1>4, <1>5 DEF Fields
<1>7. data' \in [Audio -> 0 .. MaxBlocks]
  <2>1. 0 \in 0 .. MaxBlocks
    BY BoundAssumption
  <2> QED BY <1>2, <1>4, <2>1 DEF Fields
<1> QED BY <1>2, <1>6, <1>7 DEF Fields

LEMMA TurnProcess ==
  ASSUME IndInv, AllLimits, Fields, Turn, NEW t \in Thread, todo[t] # <<>>, sharcProcessAudio(t, Head(todo[t]))
  PROVE  Fields' /\ UNCHANGED <<active, stream, block>>
<1> DEFINE s == t[1]
           m == Buffer("OUT", s, info[s]["OUT"])
           n == Buffer("IN", s, info[s]["IN"])
<1>1. /\ Head(todo[t]).op = "process"
      /\ \/ Both(s) /\ data' = [data EXCEPT ![m] = data[n]]
            /\ info' = [info EXCEPT ![s] = [d \in Dirs |-> None]]
         \/ UNCHANGED <<data, info>>
      /\ UNCHANGED <<ready, enabled, active, stream, got, block>>
  BY DEF sharcProcessAudio, bootVars, armVars, Dirs
<1>2. s \in Sharcs
  <2>1. Head(todo[t]) \in Elements(todo[t])
    BY HeadIsProper
  <2> QED BY <1>1, <2>1 DEF AllLimits, Limits, Apt, Audible
<1>3. CASE UNCHANGED <<data, info>>
  BY <1>1, <1>3 DEF Fields
<1>4. CASE Both(s) /\ data' = [data EXCEPT ![m] = data[n]] /\ info' = [info EXCEPT ![s] = [d \in Dirs |-> None]]
  <2>1. info[s]["OUT"] \in 0 .. 1 /\ info[s]["IN"] \in 0 .. 1
    BY <1>2, <1>4 DEF Both, Fields, Dirs
  <2>2. m \in Audio /\ n \in Audio
    BY <1>2, <2>1, BufferIsAudio
  <2>3. data' \in [Audio -> 0 .. MaxBlocks]
    BY <1>4, <2>2 DEF Fields
  <2>4. info' \in [Sharcs -> [Dirs -> {None, 0, 1}]]
    BY <1>2, <1>4 DEF Fields
  <2> QED BY <1>1, <2>3, <2>4 DEF Fields
<1> QED BY <1>1, <1>3, <1>4

\* Every step keeps the types.
LEMMA TurnStep ==
  ASSUME IndInv, AllLimits, Fields, Turn, NEW t \in Thread, Step(t)
  PROVE  Fields' /\ Turn'
<1> DEFINE op == Head(todo[t])
<1>1. todo[t] # <<>>
  BY DEF Step, CanRun
<1>2. CASE xferSharcAudio(t, op)
  BY <1>1, <1>2, TurnXfer
<1>3. CASE DomainReady(t, op)
  BY <1>1, <1>3, TurnDomain
<1>4. CASE RouteAudio(t, op)
  BY <1>1, <1>4, TurnRoute
<1>5. ASSUME UNCHANGED <<active, stream, block>>, op.op \notin Routing PROVE Turn'
  <2>1. UNCHANGED todo \/ Goes(t)
    BY StepGoes
  <2>2. CASE UNCHANGED todo
    BY <1>5, <2>2, TurnStays
  <2>3. CASE Goes(t) /\ t = ArmIrq
    BY <1>1, <1>5, <2>3, TurnGoesOn
  <2>4. CASE Goes(t) /\ t # ArmIrq
    <3>1. todo'[ArmIrq] = todo[ArmIrq]
      <4>1. PICK then : Continue(t, then)
        BY <2>4 DEF Goes
      <4>2. todo \in [Thread -> Seq(Call)] /\ ArmIrq \in Thread
        BY Threads DEF IndInv, Types, ArmIrq
      <4> QED BY <2>4, <4>1, <4>2 DEF Continue
    <3> QED BY <1>5, <3>1, TurnStays
  <2> QED BY <2>1, <2>2, <2>3, <2>4
<1>6. CASE newAudio(t, op)
  <2>1. op.op \notin Routing
    BY <1>6 DEF newAudio, Routing
  <2> QED BY <1>1, <1>5, <1>6, <2>1, TurnAudio
<1>7. CASE sharcProcessAudio(t, op)
  <2>1. op.op \notin Routing
    BY <1>7 DEF sharcProcessAudio, Routing
  <2> QED BY <1>1, <1>5, <1>7, <2>1, TurnProcess
<1>8. CASE op.op \notin Routing /\ UNCHANGED <<ready, enabled, active, stream, got, block, info, data>>
  <2>1. Fields'
    BY <1>8 DEF Fields
  <2> QED BY <1>5, <1>8, <2>1
<1>9. CASE Initialize(t, op)
  <2>1. op.op = "initialize" /\ ready' = ready \cup {t[1]} /\ UNCHANGED <<enabled, active, stream, got, block, info, data>>
    BY <1>9 DEF Initialize, appVars, armVars
  <2>2. t[1] \in Core
    BY DEF Thread
  <2>3. Fields'
    BY <2>1, <2>2 DEF Fields
  <2> QED BY <1>5, <2>1, <2>3 DEF Routing
<1>10. CASE EnableSharcs(t, op)
  <2>1. op.op = "enable" /\ enabled' = Core /\ UNCHANGED <<ready, active, stream, got, block, info, data>>
    BY <1>10 DEF EnableSharcs, appVars, armVars
  <2>2. Fields'
    BY <2>1 DEF Fields
  <2> QED BY <1>5, <2>1, <2>2 DEF Routing
<1>11. CASE sae_buffer_init(t, op)
  <2>1. /\ op.op = "buffers" /\ data' = [m \in Audio |-> 0]
        /\ UNCHANGED <<ready, enabled, active, stream, got, block, info>>
    BY <1>11 DEF sae_buffer_init, bootVars, armVars
  <2>2. 0 \in 0 .. MaxBlocks
    BY BoundAssumption
  <2>3. Fields'
    BY <2>1, <2>2 DEF Fields
  <2> QED BY <1>5, <2>1, <2>3 DEF Routing
<1>12. CASE DoRef(t, op) \/ DoUnref(t, op) \/ ipcToCore(t, op) \/ CreateCycles(t, op)
  BY <1>8, <1>12 DEF DoRef, DoUnref, ipcToCore, CreateCycles, bootVars, appVars, armVars, Routing
<1>13. CASE Announce(t, op) \/ Ping(t, op) \/ Ask(t, op) \/ Reply(t, op)
  BY <1>8, <1>13 DEF Announce, Ping, Ask, Reply, Create, bootVars, appVars, armVars, Routing
<1>14. CASE Register(t, op) \/ WaitForSharcs(t, op) \/ Heard(t, op)
  BY <1>8, <1>14 DEF Register, WaitForSharcs, Heard, vars, bootVars, appVars, armVars, Routing
<1> QED BY <1>2, <1>3, <1>4, <1>6, <1>7, <1>9, <1>10, <1>11, <1>12, <1>13, <1>14 DEF Step

\* No step takes a variable out of its type.
LEMMA TurnInductive ==
  ASSUME IndInv, AllLimits, Fields, Turn, [Next]_vars
  PROVE  Fields' /\ Turn'
<1>1. ASSUME NEW t \in Thread, Step(t) PROVE Fields' /\ Turn'
  BY <1>1, TurnStep
<1>2. ASSUME NEW c \in Core, Receive(c) PROVE Fields' /\ Turn'
  BY <1>2, TurnReceive
<1>3. ASSUME NEW d \in {"CODEC_IN", "CODEC_OUT"}, codecAudio(d) PROVE Fields' /\ Turn'
  BY <1>3, TurnCodec
<1>4. CASE houseKeepingTask
  <2>1. /\ UNCHANGED <<ready, enabled, active, stream, got, block, info, data>>
        /\ todo' = [todo EXCEPT ![<<"ARM", "task">>] = <<Plain("ping"), Plain("ask")>>]
    BY <1>4 DEF houseKeepingTask, bootVars, armVars
  <2>2. todo'[ArmIrq] = todo[ArmIrq]
    BY <2>1, Threads DEF IndInv, Types, ArmIrq
  <2>3. Fields'
    BY <2>1 DEF Fields
  <2> QED BY <2>1, <2>2, <2>3, TurnStays
<1>5. CASE UNCHANGED vars
  <2>1. UNCHANGED <<todo, ready, enabled, active, stream, got, block, info, data>>
    BY <1>5 DEF vars, bootVars, appVars, armVars
  <2>2. Fields'
    BY <2>1 DEF Fields
  <2> QED BY <2>1, <2>2, TurnStays
<1> QED BY <1>1, <1>2, <1>3, <1>4, <1>5 DEF Next, Finished

\* Nothing is there to be routed yet.
LEMMA InitTurn == Init => Fields /\ Turn
<1> SUFFICES ASSUME Init PROVE Fields /\ Turn
  OBVIOUS
<1>1. todo[ArmIrq] = <<>> /\ active = {}
  BY Threads DEF Init, ArmIrq
<1>2. Turn
  BY <1>1, EmptyList DEF Turn, Has, Brought
<1>3. Fields
  BY BoundAssumption, Threads DEF Init, Fields, Dirs
<1> QED BY <1>2, <1>3

-----------------------------------------------------------------------------
(* The theorem about types *)

\* There are no more elements of a kind than of a wider one.
LEMMA NumberOfFewer ==
  ASSUME NEW T, NEW s \in Seq(T), NEW R, NEW S, R \subseteq S
  PROVE  Number(s, 1, R) <= Number(s, 1, S)
<1>1. 1 \in Nat
  OBVIOUS
<1>2. IsFiniteSet(Places(s, 1, S))
  BY <1>1, PlacesFinite
<1>3. Places(s, 1, R) \in SUBSET Places(s, 1, S)
  BY DEF Places
<1> QED BY <1>2, <1>3, FS_Subset DEF Number

\* A thread claims a message at most three times, and a queue holds it at most
\* as often as it has places.
LEMMA FewClaims ==
  ASSUME IndInv, AllLimits, NEW m \in Msg
  PROVE  Held(todo, m) <= 18 /\ Held(todo, m) \in Int
<1> DEFINE g == [t \in Thread |-> Claim(todo[t], 1, m)]
<1>1. ASSUME NEW t \in Thread PROVE g[t] \in Int /\ g[t] <= 3
  <2>1. PICK l \in Seq(Call) : l = todo[t]
    BY DEF IndInv, Types
  <2>2. PICK p, q, r : p = Number(l, 1, Gives(m)) /\ q = Number(l, 1, Takes(m)) /\ r = Number(l, 1, Gifts(m))
    OBVIOUS
  <2>3. 1 \in Nat
    OBVIOUS
  <2>4. p \in Nat /\ q \in Nat /\ r \in Nat
    BY <2>2, <2>3, PlacesFinite
  <2>5. p <= r
    <3>1. Gives(m) \subseteq Gifts(m)
      BY DEF Gifts
    <3> QED BY <2>2, <3>1, NumberOfFewer
  <2>6. r <= 3
    BY <2>1, <2>2 DEF AllLimits, Limits
  <2>7. g[t] = p - q
    BY <2>1, <2>2 DEF Claim
  <2> QED BY <2>4, <2>5, <2>6, <2>7
<1>2. Held(todo, m) = Total(g)
  BY DEF Held
<1> HIDE DEF g
<1> QED BY <1>1, <1>2, Threads DEF Total

LEMMA FewWaiting ==
  ASSUME IndInv, ShortQueues, NEW m \in Msg
  PROVE  Waiting(queue, m) <= 3 * (QSize - 1)
<1>1. ASSUME NEW c \in Core PROVE Number(queue[c], 1, {m}) \in Nat /\ Number(queue[c], 1, {m}) <= QSize - 1
  <2>1. PICK q \in Seq(Msg) : q = queue[c]
    BY DEF IndInv, Types
  <2>2. PICK n : n = Number(q, 1, {m})
    OBVIOUS
  <2>3. 1 \in Nat
    OBVIOUS
  <2>4. n \in Nat /\ n <= Len(q) /\ Len(q) \in Nat
    BY <2>2, <2>3, NumberAtMost, PlacesFinite
  <2>5. Len(q) < QSize
    BY <2>1 DEF ShortQueues
  <2>6. n \in Nat /\ n <= QSize - 1
    BY <2>4, <2>5, QSizeAssumption
  <2> QED BY <2>1, <2>2, <2>6
<1>2. PICK a, b, c : a = Number(queue["ARM"], 1, {m}) /\ b = Number(queue["SHARC0"], 1, {m}) /\ c = Number(queue["SHARC1"], 1, {m})
  OBVIOUS
<1>3. /\ a \in Nat /\ b \in Nat /\ c \in Nat /\ a <= QSize - 1 /\ b <= QSize - 1 /\ c <= QSize - 1
  BY <1>1, <1>2, Threads
<1>4. Waiting(queue, m) = a + b + c
  BY <1>2 DEF Waiting
<1> QED BY <1>3, <1>4, QSizeAssumption

\* So a counter stays within a byte.
LEMMA CountersAreBytes ==
  ASSUME IndInv, AllLimits, ShortQueues, 3 * QSize + 16 <= 255, NEW m \in DOMAIN ref
  PROVE  ref[m] \in 1 .. 255
<1>1. m \in Msg /\ ref[m] \in Nat /\ ref[m] > 0
  BY DEF IndInv, Types, Counters
<1>2. Counter(ref, m) = ref[m] /\ Own(ref, m) \in 0 .. 1
  BY DEF Counter, Own
<1>3. Counter(ref, m) = Own(ref, m) + Waiting(queue, m) + Held(todo, m)
  BY <1>1 DEF IndInv, Counted, Balance
<1>4. PICK n, o, w, h : n = ref[m] /\ o = Own(ref, m) /\ w = Waiting(queue, m) /\ h = Held(todo, m)
  OBVIOUS
<1>5. h <= 18 /\ h \in Int
  BY <1>1, <1>4, FewClaims
<1>6. w <= 3 * (QSize - 1) /\ w \in Nat
  BY <1>1, <1>4, FewWaiting, NumbersTyped DEF IndInv
<1>7. n = o + w + h /\ o \in 0 .. 1 /\ n \in Nat /\ n > 0
  BY <1>1, <1>2, <1>3, <1>4
<1>8. n \in 1 .. 255
  BY <1>5, <1>6, <1>7, QSizeAssumption
<1> QED BY <1>4, <1>8

\* Every variable stays within its type.  In particular the reference counter of a
\* message, one byte (sae_priv.h:30), never gets beyond 255, so that sae_refMsgBuffer
\* never refuses to count, which no caller asks about: not with queues of up to 79 places.
THEOREM TypeCorrect ==
  ASSUME 3 * QSize + 16 <= 255
  PROVE  Spec => []TypeOK
<1> DEFINE J == AllLimits /\ ShortQueues /\ Fields /\ Turn
<1>1. Init => Fields /\ Turn
  BY InitTurn
<1>2. IndInv /\ AllLimits /\ Fields /\ Turn /\ [Next]_vars => (Fields /\ Turn)'
  BY TurnInductive
<1>3. IndInv /\ J => TypeOK
  <2> SUFFICES ASSUME IndInv, J PROVE TypeOK
    OBVIOUS
  <2>1. \A m \in DOMAIN ref : ref[m] \in 1 .. 255
    BY CountersAreBytes
  <2>2. /\ DOMAIN ref \subseteq Persistent \cup Short
        /\ callback \subseteq Core /\ heard \subseteq Sharcs /\ running \in BOOLEAN
        /\ pp \in [{"IN", "OUT"} -> [Sharcs -> 0 .. 1]]
    BY DEF IndInv, Types, Counters, Msg, PingPong
  <2>3. \A c \in Core : Len(queue[c]) < QSize
    BY DEF ShortQueues
  <2>4. /\ ready \subseteq Core /\ enabled \subseteq Core /\ active \subseteq {"CODEC_IN", "CODEC_OUT"}
        /\ stream \in [{"IN", "OUT"} -> [Sharcs -> {None, 0, 1}]]
        /\ info \in [Sharcs -> [{"IN", "OUT"} -> {None, 0, 1}]]
        /\ data \in [Audio -> 0 .. MaxBlocks] /\ got \in [Sharcs -> 0 .. MaxBlocks]
    BY DEF Fields, Dirs
  <2> HIDE DEF J
  <2> QED BY <2>1, <2>2, <2>3, <2>4, Zenon DEF TypeOK
<1> QED BY <1>1, <1>2, <1>3, Bounded, PTL DEF Spec, J

=============================================================================
