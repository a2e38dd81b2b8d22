------------------------ MODULE CompanionClientProofs ------------------------
(***************************************************************************)
(* Proofs about CompanionClient for any actions, reviews and number of     *)
(* faults: what the shell reports as done was done, is on the screen and   *)
(* stays there, and no review is executed more often than it was sent.     *)
(***************************************************************************)
EXTENDS CompanionClient, SequenceTheorems, TLAPS

-----------------------------------------------------------------------------
(* The inductive invariant.                                                 *)

Active   == {"waiting", "writing", "reading"}
InFlight == {"writing", "reading"}

\* The request an action has come to.
Due(a, command) == todo[a] # <<>> /\ Head(todo[a]) = command

\* The reviews that were answered.
PastReview == {b \in Reviews : todo[b] # RequestsOf(b)}

\* b waits for the semaphore in front of a.
Ahead(b, a) ==
  \E i, j \in DOMAIN semaphore : i < j /\ semaphore[i] = b /\ semaphore[j] = a

\* Every active action is in line, once, and a request is under way only for
\* the first.
QueueHolds ==
  /\ \A i, j \in DOMAIN semaphore : semaphore[i] = semaphore[j] => i = j
  /\ \A i \in DOMAIN semaphore : pc[semaphore[i]] \in Active
  /\ \A a \in Actions : pc[a] \in Active => \E i \in DOMAIN semaphore : semaphore[i] = a
  /\ \A a \in Actions : pc[a] \in InFlight => Holds(a) /\ attempt \in {1, 2} /\ sent > 0

\* An action has some of its requests left, all of them before it begins.
TodoHolds ==
  \A a \in Actions :
    /\ todo[a] \in {RequestsOf(a), Refresh, Tail(Refresh), <<"optional">>, <<>>}
    /\ pc[a] = "idle" => todo[a] = RequestsOf(a)
    /\ pc[a] \in Active => todo[a] # <<>>

\* The lines that are the request under way if they have its number.
Lines ==
  {line \in Line :
    /\ line.command = "review" => line.of \in Reviews
    /\ line.id <= sent
    /\ line.id = sent => \A a \in Actions :
         /\ pc[a] # "writing"
         /\ pc[a] = "reading" => line.of = a /\ Due(a, line.command)}

\* The answers that tell what was done for it if they have its number.
Answers ==
  {line \in Answer :
    line.ok =>
      /\ line.id <= sent
      /\ line.id = sent => \A a \in Actions :
           /\ pc[a] # "writing"
           /\ pc[a] = "reading" /\ Due(a, "review") => a \in reviewed
           /\ pc[a] = "reading" /\ Due(a, "search") => PastReview \subseteq line.found}

PipesHold ==
  /\ \A k \in DOMAIN stdin : stdin[k] \in {Torn, Unparsed} \cup Lines
  /\ \A k \in DOMAIN stdout : stdout[k] \in {Torn} \cup Answers
  /\ answer \in Answers

\* An action that is about to show its snapshot has found every review that was
\* reported, and every one that may be reported before it: those of actions as
\* far as it is, and of actions that still search but are ahead of it.
SnapshotsHold ==
  /\ reported \subseteq shown
  /\ \A a \in Actions : pc[a] \in Active /\ Due(a, "optional") =>
       /\ reported \subseteq found[a]
       /\ \A b \in Reviews : pc[b] \in Active =>
            (Due(b, "optional") \/ (Due(b, "search") /\ Ahead(b, a)) => b \in found[a])

ReviewLine(k, a) ==
  stdin[k] \notin {Torn, Unparsed} /\ stdin[k].command = "review" /\ stdin[k].of = a

Written(a) == \E k \in DOMAIN stdin : ReviewLine(k, a)

\* A review is executed once for each attempt, by the one line that asks for it.
ExecutionsHold ==
  \A a \in Reviews :
    /\ executions[a] <= 2
    /\ \A k, l \in DOMAIN stdin : ReviewLine(k, a) /\ ReviewLine(l, a) => k = l
    /\ Written(a) => executions[a] <= 1
    /\ Due(a, "review") =>
         /\ pc[a] \in {"idle", "waiting"} => executions[a] = 0 /\ ~Written(a)
         /\ pc[a] = "writing" => executions[a] < attempt /\ ~Written(a)
         /\ pc[a] = "reading" => /\ executions[a] <= attempt
                                 /\ Written(a) => executions[a] < attempt

Quiet == stdin = <<>> /\ stdout = <<>> /\ serving = None

\* The request under way is all there is in the pipes.
Straight ==
  /\ companion # "exited"
  /\ (\A a \in Actions : pc[a] # "reading") => Quiet
  /\ \A a \in Actions : pc[a] \in InFlight => companion = "running"
  /\ \A a \in Actions : pc[a] = "reading" =>
       \/ /\ Len(stdin) = 1 /\ stdin[1] \in Line /\ stdin[1].id = sent
          /\ stdout = <<>> /\ serving = None
       \/ /\ stdin = <<>> /\ stdout = <<>> /\ serving # None
          /\ answer.id = sent /\ answer.ok
       \/ /\ stdin = <<>> /\ serving = None
          /\ Len(stdout) = 1 /\ stdout[1] \in Answer
          /\ stdout[1].id = sent /\ stdout[1].ok

Singly ==
  \A a \in Reviews :
    /\ executions[a] <= 1
    /\ Written(a) => executions[a] = 0
    /\ Due(a, "review") /\ pc[a] = "writing" => executions[a] = 0

\* As long as nothing goes wrong, nothing is sent again.
FaultFree == faults = 0 => Singly /\ (~disposed => Straight)

\* What the client and the screen alone keep.
ClientType ==
  /\ pc \in [Actions -> {"idle", "waiting", "writing", "reading", "done"}]
  /\ todo \in [Actions -> Seq(Commands)]
  /\ found \in [Actions -> SUBSET Reviews]
  /\ semaphore \in Seq(Actions)
  /\ attempt \in 0..2
  /\ sent \in Nat
  /\ shown \subseteq Reviews /\ reported \subseteq Reviews

ClientInv ==
  ClientType /\ QueueHolds /\ TodoHolds /\ SnapshotsHold /\ reported \subseteq PastReview

ProcessType ==
  /\ companion \in {"none", "running", "exited"}
  /\ stdin \in Seq(Line \cup {Torn, Unparsed})
  /\ stdout \in Seq(Answer \cup {Torn})
  /\ serving \in Line \cup {None, Unparsed}
  /\ answer \in Answer

BackendType ==
  /\ reviewed \subseteq Reviews
  /\ executions \in [Reviews -> Nat]
  /\ disposed \in BOOLEAN
  /\ faults \in 0..MaxFaults

IndInv ==
  /\ ClientInv /\ ProcessType /\ BackendType
  /\ PipesHold
  /\ PastReview \subseteq reviewed
  /\ ExecutionsHold /\ FaultFree /\ NothingRunsAfterDispose

-----------------------------------------------------------------------------
(* The queue of the semaphore.                                              *)

LEMMA Elements ==
  ASSUME NEW S, NEW q \in Seq(S)
  PROVE  /\ Len(q) \in Nat /\ DOMAIN q = 1..Len(q)
         /\ \A i \in DOMAIN q : q[i] \in S
         /\ q # <<>> => Len(q) > 0 /\ Head(q) = q[1] /\ 1 \in DOMAIN q
         /\ Len(q) > 1 => q # <<>> /\ Len(q) # 1
<1>1. /\ Len(q) \in Nat /\ DOMAIN q = 1..Len(q)
      /\ \A i \in DOMAIN q : q[i] \in S
      /\ q # <<>> => Len(q) > 0 /\ Head(q) = q[1] /\ 1 \in DOMAIN q
  OBVIOUS
<1>2. ASSUME Len(q) > 1
      PROVE  q # <<>> /\ Len(q) # 1
  <2> DEFINE n == Len(q)
  <2>1. n \in Nat /\ n > 1 /\ (q = <<>> => n = 0)
    BY <1>2
  <2> HIDE DEF n
  <2>2. n # 0 /\ n # 1
    BY <2>1
  <2>3. QED
    BY <2>1, <2>2 DEF n
<1>3. QED
  BY <1>1, <1>2

InLine(a) == \E i \in DOMAIN semaphore : semaphore[i] = a

Once == \A i, j \in DOMAIN semaphore : semaphore[i] = semaphore[j] => i = j

\* Leaving keeps the order of the others.
LEMMA LeaveQueue ==
  ASSUME semaphore \in Seq(Actions), Once, NEW a \in Actions, Leave(a)
  PROVE  /\ semaphore' \in Seq(Actions) /\ Once'
         /\ \A b \in Actions : InLine(b)' <=> b # a /\ InLine(b)
         /\ \A b, c \in Actions : Ahead(b, c)' => Ahead(b, c)
         /\ \A b \in Actions : b # a /\ Holds(b) => Holds(b)'
<1> DEFINE n == Len(semaphore)
<1>0. /\ n \in Nat /\ n = Len(semaphore) /\ DOMAIN semaphore = 1..n
      /\ \A i \in 1..n : semaphore[i] \in Actions
  BY LenProperties, ElementOfSeq
<1> HIDE DEF n
<1>1. PICK k \in 1..n :
        /\ semaphore[k] = a
        /\ semaphore' = SubSeq(semaphore, 1, k - 1) \o SubSeq(semaphore, k + 1, n)
  BY <1>0 DEF Leave
<1>2. /\ semaphore' \in Seq(Actions) /\ Len(semaphore') = n - 1
      /\ \A i \in 1..(n - 1) :
           semaphore'[i] = IF i < k THEN semaphore[i] ELSE semaphore[i + 1]
  <2> DEFINE s == SubSeq(semaphore, 1, k - 1)
             t == SubSeq(semaphore, k + 1, n)
  <2>1. /\ s \in Seq(Actions) /\ Len(s) = k - 1
        /\ \A i \in 1..(k - 1) : s[i] = semaphore[i]
    <3>1. k - 1 \in Int /\ \A i \in 1..(k - 1) : semaphore[i] \in Actions
      BY <1>0
    <3>2. /\ s \in Seq(Actions) /\ Len(s) = IF 1 <= k - 1 THEN (k - 1) - 1 + 1 ELSE 0
          /\ \A i \in 1..((k - 1) - 1 + 1) : s[i] = semaphore[1 + i - 1]
      BY <3>1, SubSeqProperties
    <3>3. QED
      BY <1>0, <3>2
  <2>2. /\ t \in Seq(Actions) /\ Len(t) = n - k
        /\ \A i \in 1..(n - k) : t[i] = semaphore[k + i]
    <3>1. k + 1 \in Int /\ n \in Int /\ \A i \in (k + 1)..n : semaphore[i] \in Actions
      BY <1>0
    <3>2. /\ t \in Seq(Actions) /\ Len(t) = IF k + 1 <= n THEN n - (k + 1) + 1 ELSE 0
          /\ \A i \in 1..(n - (k + 1) + 1) : t[i] = semaphore[k + 1 + i - 1]
      BY <3>1, SubSeqProperties
    <3> HIDE DEF s, t
    <3>3. ASSUME NEW i \in 1..(n - k)
          PROVE  t[i] = semaphore[k + i]
      <4>1. i \in 1..(n - (k + 1) + 1) /\ k + 1 + i - 1 = k + i
        BY <1>0
      <4>2. QED
        BY <3>2, <4>1
    <3>4. Len(t) = n - k
      BY <1>0, <3>2
    <3>5. QED
      BY <3>2, <3>3, <3>4
  <2> HIDE DEF s, t
  <2>3. /\ s \o t \in Seq(Actions) /\ Len(s \o t) = Len(s) + Len(t)
        /\ \A i \in 1..(Len(s) + Len(t)) :
             (s \o t)[i] = IF i <= Len(s) THEN s[i] ELSE t[i - Len(s)]
    BY <2>1, <2>2, ConcatProperties
  <2>4. semaphore' = s \o t
    BY <1>1 DEF s, t
  <2>5. Len(s) + Len(t) = n - 1
    BY <1>0, <2>1, <2>2
  <2>6. ASSUME NEW i \in 1..(n - 1)
        PROVE  (s \o t)[i] = IF i < k THEN semaphore[i] ELSE semaphore[i + 1]
    <3>1. CASE i < k
      <4>1. i \in 1..(k - 1) /\ i <= Len(s) /\ i \in 1..(Len(s) + Len(t))
        BY <1>0, <2>1, <2>5, <3>1
      <4>2. QED
        BY <2>1, <2>3, <3>1, <4>1
    <3>2. CASE ~(i < k)
      <4>1. i - Len(s) = i - k + 1 /\ i - k + 1 \in 1..(n - k) /\ k + (i - k + 1) = i + 1
            /\ ~(i <= Len(s)) /\ i \in 1..(Len(s) + Len(t))
        BY <1>0, <2>1, <2>5, <3>2
      <4>2. t[i - k + 1] = semaphore[i + 1]
        BY <2>2, <4>1
      <4>3. QED
        BY <2>3, <3>2, <4>1, <4>2
    <3>3. QED
      BY <3>1, <3>2
  <2>7. QED
    BY <2>3, <2>4, <2>5, <2>6
<1>3. n \in Nat /\ DOMAIN semaphore = 1..n /\ DOMAIN semaphore' = 1..(n - 1)
  BY <1>0, <1>2, LenProperties
<1> DEFINE from(i) == IF i < k THEN i ELSE i + 1
<1>4. /\ \A i \in 1..(n - 1) : from(i) \in 1..n /\ from(i) # k
                               /\ semaphore'[i] = semaphore[from(i)]
      /\ \A i, j \in 1..(n - 1) : /\ i < j => from(i) < from(j)
                                  /\ from(i) = from(j) => i = j
      /\ \A i \in 1..n : i # k => \E j \in 1..(n - 1) : from(j) = i
  <2>1. ASSUME NEW i \in 1..n, i # k
        PROVE  \E j \in 1..(n - 1) : from(j) = i
    <3>1. CASE i < k
      <4>1. i \in 1..(n - 1) /\ from(i) = i
        BY <1>3, <3>1
      <4>2. QED
        BY <4>1
    <3>2. CASE i > k
      <4>1. i - 1 \in 1..(n - 1) /\ from(i - 1) = i
        BY <1>3, <3>2
      <4>2. QED
        BY <4>1
    <3>3. QED
      BY <1>3, <2>1, <3>1, <3>2
  <2>2. QED
    BY <1>2, <1>3, <2>1
<1> HIDE DEF from
<1>5. Once'
  <2>1. ASSUME NEW i \in 1..(n - 1), NEW j \in 1..(n - 1), semaphore'[i] = semaphore'[j]
        PROVE  i = j
    <3>1. from(i) = from(j)
      BY <1>3, <1>4, <2>1 DEF Once
    <3>2. QED
      BY <1>4, <3>1
  <2>2. QED
    BY <1>3, <2>1 DEF Once
<1>6. ASSUME NEW b \in Actions
      PROVE  InLine(b)' <=> b # a /\ InLine(b)
  <2>1. ASSUME NEW i \in 1..(n - 1), semaphore'[i] = b
        PROVE  b # a /\ InLine(b)
    <3>1. from(i) \in 1..n /\ from(i) # k /\ semaphore[from(i)] = b
      BY <1>4, <2>1
    <3>2. QED
      BY <1>1, <1>3, <3>1 DEF Once, InLine
  <2>2. ASSUME NEW i \in 1..n, semaphore[i] = b, b # a
        PROVE  InLine(b)'
    <3>1. PICK j \in 1..(n - 1) : from(j) = i
      BY <1>1, <1>4, <2>2
    <3>2. semaphore'[j] = b
      BY <1>4, <2>2, <3>1
    <3>3. QED
      BY <1>3, <3>2 DEF InLine
  <2>3. QED
    BY <1>3, <2>1, <2>2 DEF InLine
<1>7. ASSUME NEW b \in Actions, NEW c \in Actions, Ahead(b, c)'
      PROVE  Ahead(b, c)
  BY <1>3, <1>4, <1>7 DEF Ahead
<1>8. ASSUME NEW b \in Actions, b # a, Holds(b)
      PROVE  Holds(b)'
  <2>1. n > 0 /\ semaphore[1] = b
    BY <1>0, <1>8 DEF Holds
  <2>2. k # 1 /\ 1 \in 1..(n - 1) /\ semaphore'[1] = b
    BY <1>1, <1>2, <1>3, <1>8, <2>1
  <2>3. QED
    BY <1>2, <2>2 DEF Holds
<1>9. QED
  BY <1>2, <1>5, <1>6, <1>7, <1>8

\* Queueing again puts an action behind all others.
LEMMA RequeueQueue ==
  ASSUME semaphore \in Seq(Actions), Once, NEW a \in Actions, Holds(a), Requeue(a)
  PROVE  /\ semaphore' \in Seq(Actions) /\ Once'
         /\ \A b \in Actions : InLine(b)' <=> InLine(b)
         /\ \A b, c \in Actions : Ahead(b, c)' => b # a /\ (c = a \/ Ahead(b, c))
<1> DEFINE n == Len(semaphore)
<1>1. n \in Nat \ {0} /\ n = Len(semaphore) /\ DOMAIN semaphore = 1..n /\ semaphore[1] = a
  BY DEF Holds
<1> HIDE DEF n
<1>2. /\ semaphore' \in Seq(Actions) /\ Len(semaphore') = n /\ DOMAIN semaphore' = 1..n
      /\ \A i \in 1..n : semaphore'[i] = IF i = n THEN a ELSE semaphore[i + 1]
  <2> DEFINE t == Tail(semaphore)
  <2>1. /\ t \in Seq(Actions) /\ Len(t) = n - 1
        /\ \A i \in 1..(n - 1) : t[i] = semaphore[i + 1]
    <3>1. semaphore # <<>>
      BY DEF Holds
    <3>2. QED
      BY <1>1, <3>1, HeadTailProperties
  <2> HIDE DEF t
  <2>2. /\ Append(t, a) \in Seq(Actions) /\ Len(Append(t, a)) = n
        /\ \A i \in 1..(n - 1) : Append(t, a)[i] = t[i]
        /\ Append(t, a)[n] = a
    <3>1. Len(t) + 1 = n
      BY <1>1, <2>1
    <3>2. QED
      BY <2>1, <3>1, AppendProperties
  <2>3. \A i \in 1..n : i # n => i \in 1..(n - 1)
    BY <1>1
  <2>4. semaphore' = Append(t, a)
    BY DEF Requeue, t
  <2>5. QED
    BY <2>1, <2>2, <2>3, <2>4, LenProperties
<1>3. Once'
  <2>1. ASSUME NEW i \in 1..n, NEW j \in 1..n, semaphore'[i] = semaphore'[j]
        PROVE  i = j
    <3>1. CASE i = n /\ j = n
      BY <3>1
    <3>2. CASE i # n /\ j # n
      <4>1. i + 1 \in 1..n /\ j + 1 \in 1..n /\ semaphore[i + 1] = semaphore[j + 1]
        BY <1>1, <1>2, <2>1, <3>2
      <4>2. i + 1 = j + 1
        BY <1>1, <4>1 DEF Once
      <4>3. QED
        BY <1>1, <4>2
    <3>3. CASE i = n /\ j # n
      BY <1>1, <1>2, <2>1, <3>3 DEF Once
    <3>4. CASE i # n /\ j = n
      BY <1>1, <1>2, <2>1, <3>4 DEF Once
    <3>5. QED
      BY <3>1, <3>2, <3>3, <3>4
  <2>2. QED
    BY <1>2, <2>1 DEF Once
<1>4. ASSUME NEW b \in Actions
      PROVE  InLine(b)' <=> InLine(b)
  <2>1. InLine(b)' => InLine(b)
    BY <1>1, <1>2 DEF InLine
  <2>2. ASSUME NEW i \in 1..n, semaphore[i] = b
        PROVE  InLine(b)'
    <3>1. CASE i = 1
      BY <1>1, <1>2, <2>2, <3>1 DEF InLine
    <3>2. CASE i # 1
      <4>1. i - 1 \in 1..n /\ i - 1 # n /\ semaphore'[i - 1] = b
        BY <1>1, <1>2, <2>2, <3>2
      <4>2. QED
        BY <1>2, <4>1 DEF InLine
    <3>3. QED
      BY <3>1, <3>2
  <2>3. QED
    BY <1>1, <2>1, <2>2 DEF InLine
<1>5. ASSUME NEW b \in Actions, NEW c \in Actions, Ahead(b, c)'
      PROVE  b # a /\ (c = a \/ Ahead(b, c))
  <2>1. PICK i \in 1..n, j \in 1..n : i < j /\ semaphore'[i] = b /\ semaphore'[j] = c
    BY <1>2, <1>5 DEF Ahead
  <2>2. i + 1 \in 1..n /\ semaphore[i + 1] = b
    BY <1>1, <1>2, <2>1
  <2>3. b # a
    BY <1>1, <2>1, <2>2 DEF Once
  <2>4. CASE j = n
    BY <1>2, <2>1, <2>3, <2>4
  <2>5. CASE j # n
    <3>1. j + 1 \in 1..n /\ semaphore[j + 1] = c /\ i + 1 < j + 1
      BY <1>1, <1>2, <2>1, <2>5
    <3>2. QED
      BY <1>1, <2>2, <2>3, <3>1 DEF Ahead
  <2>6. QED
    BY <2>4, <2>5
<1>6. QED
  BY <1>2, <1>3, <1>4, <1>5

\* An action that was not in line comes last.
LEMMA AppendQueue ==
  ASSUME semaphore \in Seq(Actions), Once, NEW a \in Actions, ~InLine(a),
         semaphore' = Append(semaphore, a)
  PROVE  /\ semaphore' \in Seq(Actions) /\ Once'
         /\ \A b \in Actions : InLine(b)' <=> b = a \/ InLine(b)
         /\ \A b, c \in Actions : Ahead(b, c)' => c = a \/ Ahead(b, c)
         /\ \A b \in Actions : Holds(b) => Holds(b)'
<1> DEFINE n == Len(semaphore)
<1>1. n \in Nat /\ DOMAIN semaphore = 1..n
  OBVIOUS
<1>2. /\ semaphore' \in Seq(Actions) /\ Len(semaphore') = n + 1
      /\ DOMAIN semaphore' = 1..(n + 1)
      /\ \A i \in 1..(n + 1) : semaphore'[i] = IF i = n + 1 THEN a ELSE semaphore[i]
  BY <1>1
<1>3. \A b \in Actions : Holds(b) => Holds(b)'
  BY <1>2 DEF Holds
<1> HIDE DEF n
<1>4. Once'
  BY <1>1, <1>2 DEF Once, InLine
<1>5. \A b \in Actions : InLine(b)' <=> b = a \/ InLine(b)
  <2>1. n + 1 \in 1..(n + 1) /\ \A i \in 1..n : i \in 1..(n + 1) /\ i # n + 1
    BY <1>1
  <2>2. QED
    BY <1>1, <1>2, <2>1 DEF InLine
<1>6. \A b, c \in Actions : Ahead(b, c)' => c = a \/ Ahead(b, c)
  BY <1>1, <1>2 DEF Ahead
<1>7. QED
  BY <1>2, <1>3, <1>4, <1>5, <1>6

-----------------------------------------------------------------------------
(* The requests of an action.                                               *)

\* A request in front of others.
LEMMA Prepend ==
  ASSUME NEW S, NEW e \in S, NEW q \in Seq(S)
  PROVE  /\ <<e>> \o q \in Seq(S) /\ Len(<<e>> \o q) = Len(q) + 1
         /\ <<e>> \o q # <<>> /\ Head(<<e>> \o q) = e /\ Tail(<<e>> \o q) = q
<1> DEFINE one == <<e>>  r == one \o q
<1>1. one \in Seq(S) /\ Len(one) = 1 /\ one[1] = e
  OBVIOUS
<1>2. Len(q) \in Nat
  OBVIOUS
<1> HIDE DEF one
<1>3. /\ r \in Seq(S) /\ Len(r) = Len(one) + Len(q)
      /\ \A i \in 1..(Len(one) + Len(q)) :
           r[i] = IF i <= Len(one) THEN one[i] ELSE q[i - Len(one)]
  BY <1>1, ConcatProperties
<1> HIDE DEF r
<1>4. Len(r) = Len(q) + 1 /\ r[1] = e
  BY <1>1, <1>2, <1>3
<1>5. \A i \in 1..Len(q) : r[i + 1] = q[i]
  <2>1. ASSUME NEW i \in 1..Len(q)
        PROVE  r[i + 1] = q[i]
    <3>1. i + 1 \in 1..(Len(one) + Len(q)) /\ ~(i + 1 <= Len(one)) /\ (i + 1) - Len(one) = i
      BY <1>1, <1>2
    <3>2. QED
      BY <1>3, <3>1
  <2>2. QED
    BY <2>1
<1>6. r # <<>>
  BY <1>2, <1>3, <1>4
<1>7. Head(r) = e
  BY <1>3, <1>4, <1>6
<1>8. Tail(r) \in Seq(S) /\ Len(Tail(r)) = Len(q) /\ \A i \in 1..Len(q) : Tail(r)[i] = q[i]
  <2>1. /\ Tail(r) \in Seq(S) /\ Len(Tail(r)) = Len(r) - 1
        /\ \A i \in 1..Len(Tail(r)) : Tail(r)[i] = r[i + 1]
    BY <1>3, <1>6, HeadTailProperties
  <2>2. QED
    BY <1>2, <1>4, <1>5, <2>1
<1>9. Tail(r) = q
  BY <1>8, SeqEqual
<1>10. QED
  BY <1>3, <1>4, <1>6, <1>7, <1>9 DEF r, one

\* The lists an action has of its requests.
LEMMA RequestLists ==
  ASSUME NEW a \in Actions
  PROVE  /\ Refresh \in Seq(Commands) /\ Len(Refresh) = 3 /\ Head(Refresh) = "fetch"
         /\ Tail(Refresh) \in Seq(Commands) /\ Len(Tail(Refresh)) = 2
         /\ Head(Tail(Refresh)) = "search" /\ Tail(Tail(Refresh)) = <<"optional">>
         /\ a \notin Reviews => RequestsOf(a) = Refresh
         /\ a \in Reviews => /\ RequestsOf(a) \in Seq(Commands) /\ Len(RequestsOf(a)) = 4
                            /\ Head(RequestsOf(a)) = "review" /\ Tail(RequestsOf(a)) = Refresh
         /\ RequestsOf(a) # <<>> /\ Refresh # <<>> /\ Tail(Refresh) # <<>>
         /\ Head(RequestsOf(a)) \in {"review", "fetch"}
<1>1. /\ Refresh \in Seq(Commands) /\ Len(Refresh) = 3
      /\ Refresh[1] = "fetch" /\ Refresh[2] = "search" /\ Refresh[3] = "optional"
  BY DEF Refresh, Commands
<1>2. /\ Tail(Refresh) \in Seq(Commands) /\ Len(Tail(Refresh)) = 2
      /\ Head(Tail(Refresh)) = "search" /\ Tail(Tail(Refresh)) = <<"optional">>
  BY <1>1 DEF Refresh
<1>3. /\ <<"optional">> \in Seq(Commands) /\ Head(<<"optional">>) = "optional"
      /\ Len(<<"optional">>) = 1 /\ Tail(<<"optional">>) = <<>>
  BY DEF Commands
<1>4. a \notin Reviews => RequestsOf(a) = Refresh
  BY DEF RequestsOf
<1>5. a \in Reviews => /\ RequestsOf(a) \in Seq(Commands) /\ Len(RequestsOf(a)) = 4
                       /\ Head(RequestsOf(a)) = "review" /\ Tail(RequestsOf(a)) = Refresh
  <2>1. "review" \in Commands
    BY DEF Commands
  <2>2. a \in Reviews => RequestsOf(a) = <<"review">> \o Refresh
    BY DEF RequestsOf
  <2> DEFINE f == Refresh  r == <<"review">> \o f
  <2>3. f \in Seq(Commands) /\ Len(f) = 3
    BY <1>1
  <2> HIDE DEF f
  <2>4. /\ r \in Seq(Commands) /\ Len(r) = Len(f) + 1 /\ r # <<>> /\ Head(r) = "review"
        /\ Tail(r) = f
    BY <2>1, <2>3, Prepend
  <2> HIDE DEF r
  <2>5. Len(r) = 4
    BY <2>3, <2>4
  <2>6. QED
    BY <2>2, <2>4, <2>5 DEF r, f
<1>6. Head(Refresh) = "fetch"
  BY <1>1
<1> HIDE DEF Refresh
<1>7. RequestsOf(a) # <<>> /\ Refresh # <<>> /\ Tail(Refresh) # <<>>
  <2>0. \A S : \A q \in Seq(S) : Len(q) > 0 => q # <<>>
    OBVIOUS
  <2>1. Refresh # <<>>
    BY <1>1, <2>0
  <2>2. Tail(Refresh) # <<>>
    BY <1>2, <2>0
  <2>3. RequestsOf(a) # <<>>
    BY <1>4, <1>5, <2>0, <2>1
  <2>4. QED
    BY <2>1, <2>2, <2>3
<1>8. QED
  BY <1>1, <1>2, <1>4, <1>5, <1>6, <1>7

\* An action that has requests left is at the review, at the fetch, at the
\* search or at the last, and goes on to the next of them.
LEMMA TodoSteps ==
  ASSUME NEW a \in Actions,
         todo[a] \in {RequestsOf(a), Refresh, Tail(Refresh), <<"optional">>}
  PROVE  /\ todo[a] \in Seq(Commands) /\ todo[a] # <<>> /\ Head(todo[a]) \in Commands
         /\ Tail(todo[a]) \in Seq(Commands)
         /\ Due(a, "review") => a \in Reviews /\ todo[a] = RequestsOf(a)
                                /\ Tail(todo[a]) = Refresh
         /\ Due(a, "fetch") => todo[a] = Refresh /\ Tail(todo[a]) = Tail(Refresh)
         /\ Due(a, "search") => todo[a] = Tail(Refresh) /\ Tail(todo[a]) = <<"optional">>
         /\ Due(a, "optional") <=> todo[a] = <<"optional">>
         /\ Due(a, "optional") <=> Len(todo[a]) = 1
         /\ Due(a, "review") \/ Due(a, "fetch") \/ Due(a, "search") \/ Due(a, "optional")
         /\ todo[a] = RequestsOf(a) => Due(a, "review") \/ Due(a, "fetch")
<1>1. /\ Refresh \in Seq(Commands) /\ Len(Refresh) = 3 /\ Head(Refresh) = "fetch"
      /\ Tail(Refresh) \in Seq(Commands) /\ Len(Tail(Refresh)) = 2
      /\ Head(Tail(Refresh)) = "search" /\ Tail(Tail(Refresh)) = <<"optional">>
      /\ a \notin Reviews => RequestsOf(a) = Refresh
      /\ a \in Reviews => /\ RequestsOf(a) \in Seq(Commands) /\ Len(RequestsOf(a)) = 4
                         /\ Head(RequestsOf(a)) = "review" /\ Tail(RequestsOf(a)) = Refresh
      /\ RequestsOf(a) # <<>> /\ Refresh # <<>> /\ Tail(Refresh) # <<>>
      /\ Head(RequestsOf(a)) \in {"review", "fetch"}
  BY RequestLists
<1>2. /\ <<"optional">> \in Seq(Commands) /\ Head(<<"optional">>) = "optional"
      /\ Len(<<"optional">>) = 1 /\ Tail(<<"optional">>) \in Seq(Commands)
  BY DEF Commands
<1> DEFINE all == RequestsOf(a)
<1> HIDE DEF all
<1>3. todo[a] = all => Due(a, "review") \/ Due(a, "fetch")
  BY <1>1 DEF Due, all
<1>4. CASE todo[a] = all /\ a \in Reviews
  BY <1>1, <1>3, <1>4 DEF Due, Commands, all
<1>5. CASE todo[a] = Refresh
  <2>1. Head(todo[a]) = "fetch" /\ Len(todo[a]) = 3 /\ todo[a] # <<>>
    BY <1>1, <1>5
  <2>2. todo[a] # <<"optional">>
    BY <1>2, <2>1
  <2>3. QED
    BY <1>1, <1>3, <1>5, <2>1, <2>2 DEF Due, Commands, all
<1>6. CASE todo[a] = Tail(Refresh)
  <2>1. Head(todo[a]) = "search" /\ Len(todo[a]) = 2 /\ todo[a] # <<>>
    BY <1>1, <1>6
  <2>2. todo[a] # <<"optional">>
    BY <1>2, <2>1
  <2>3. /\ todo[a] \in Seq(Commands) /\ Tail(todo[a]) \in Seq(Commands)
        /\ Tail(todo[a]) = <<"optional">> /\ Head(todo[a]) \in Commands
    BY <1>1, <1>2, <1>6 DEF Commands
  <2>4. ~Due(a, "review") /\ ~Due(a, "fetch") /\ Due(a, "search") /\ ~Due(a, "optional")
    BY <2>1 DEF Due
  <2>5. todo[a] # RequestsOf(a) /\ Len(todo[a]) # 1
    BY <1>3, <2>1, <2>4 DEF all
  <2>6. QED
    BY <1>6, <2>1, <2>2, <2>3, <2>4, <2>5
<1>7. CASE todo[a] = <<"optional">>
  BY <1>2, <1>3, <1>7 DEF Due, Commands, all
<1>8. QED
  BY <1>1, <1>4, <1>5, <1>6, <1>7 DEF all

-----------------------------------------------------------------------------
(* What the steps of an action do to the client and to the screen.          *)

\* The action ends, with a snapshot or without.
Finish(a) ==
  /\ pc[a] \in Active
  /\ End(a) \/ (Due(a, "optional") /\ Show(a))
  /\ attempt' = IF Holds(a) THEN 0 ELSE attempt
  /\ UNCHANGED sent

\* A request under way stays what it is.
KeepsRequests ==
  \A a \in Actions : pc'[a] \in InFlight =>
    /\ todo'[a] = todo[a]
    /\ pc'[a] = pc[a] \/ (pc[a] = "writing" /\ pc'[a] = "reading")

\* The action that is first in line and is past its search shows every review
\* that was answered.
LEMMA HolderIsFirst ==
  ASSUME ClientType, QueueHolds, NEW a \in Actions, Holds(a),
         NEW c \in Actions, pc[c] \in Active, c # a
  PROVE  Ahead(a, c)
<1>1. PICK i \in DOMAIN semaphore : semaphore[i] = c
  BY DEF QueueHolds
<1>2. semaphore \in Seq(Actions) /\ semaphore # <<>> /\ semaphore[1] = a
  BY DEF ClientType, Holds
<1>3. 1 \in DOMAIN semaphore /\ 1 < i
  BY <1>1, <1>2
<1>4. QED
  BY <1>1, <1>2, <1>3 DEF Ahead

\* What an action that is under way is due to do.
LEMMA ActiveTodo ==
  ASSUME ClientType, TodoHolds, NEW a \in Actions, pc[a] \in Active
  PROVE  todo[a] \in {RequestsOf(a), Refresh, Tail(Refresh), <<"optional">>}
BY DEF TodoHolds

\* A click puts an action in line with all of its requests.
LEMMA Clicking ==
  ASSUME ClientInv, NEW a \in Actions, Click(a)
  PROVE  ClientInv' /\ KeepsRequests /\ PastReview' = PastReview
<1>1. /\ pc[a] = "idle" /\ pc' = [pc EXCEPT ![a] = "waiting"]
      /\ semaphore' = Append(semaphore, a)
      /\ UNCHANGED <<todo, found, attempt, sent, shown, reported>>
  BY DEF Click, Goto, screen
<1>2. \A b \in Actions : pc'[b] = IF b = a THEN "waiting" ELSE pc[b]
  BY <1>1 DEF ClientInv, ClientType
<1>3. semaphore \in Seq(Actions) /\ Once /\ ~InLine(a)
  BY <1>1 DEF ClientInv, ClientType, QueueHolds, Once, InLine, Active
<1>4. /\ semaphore' \in Seq(Actions) /\ Once'
      /\ \A b \in Actions : InLine(b)' <=> b = a \/ InLine(b)
      /\ \A b, c \in Actions : Ahead(b, c)' => c = a \/ Ahead(b, c)
      /\ \A b \in Actions : Holds(b) => Holds(b)'
  BY <1>1, <1>3, AppendQueue
<1>5. ClientType'
  BY <1>1, <1>4 DEF ClientInv, ClientType
<1>6. QueueHolds'
  <2>1. \A b \in Actions : InLine(b)' <=> pc'[b] \in Active
    BY <1>2, <1>4 DEF ClientInv, QueueHolds, InLine, Active
  <2>2. \A i \in DOMAIN semaphore' : pc'[semaphore'[i]] \in Active
    BY <1>4, <2>1, Elements DEF InLine
  <2>3. \A b \in Actions : pc'[b] \in InFlight => Holds(b)' /\ attempt' \in {1, 2} /\ sent' > 0
    BY <1>1, <1>2, <1>4 DEF ClientInv, QueueHolds, InFlight
  <2>4. QED
    BY <1>4, <2>1, <2>2, <2>3 DEF QueueHolds, Once, InLine, Active, InFlight
<1> DEFINE first == todo[a] = RequestsOf(a) /\ todo[a] # <<>>
<1>0. first /\ ~Due(a, "optional") /\ ~Due(a, "search")
  <2>1. todo[a] = RequestsOf(a)
    BY <1>1 DEF ClientInv, TodoHolds
  <2>2. QED
    BY <2>1, TodoSteps DEF Due
<1>7. TodoHolds'
  <2>1. ASSUME NEW b \in Actions
        PROVE  /\ todo'[b] \in {RequestsOf(b)', Refresh', Tail(Refresh)', <<"optional">>, <<>>}
               /\ pc'[b] = "idle" => todo'[b] = RequestsOf(b)'
               /\ pc'[b] \in Active' => todo'[b] # <<>>
    <3>1. RequestsOf(b)' = RequestsOf(b) /\ Refresh' = Refresh /\ Active' = Active
      BY DEF RequestsOf, Refresh, Active
    <3>2. QED
      BY <1>0, <1>1, <1>2, <3>1 DEF ClientInv, TodoHolds
  <2>2. QED
    BY <2>1 DEF TodoHolds
<1>8. \A b \in Actions, c \in Commands : Due(b, c)' <=> Due(b, c)
  BY <1>1 DEF Due
<1>10. SnapshotsHold'
  BY <1>0, <1>1, <1>2, <1>4, <1>8, ReviewsAssumption DEF ClientInv, SnapshotsHold, Active, Commands
<1>11. PastReview' = PastReview
  BY <1>1 DEF PastReview, RequestsOf, Refresh
<1>12. QED
  BY <1>1, <1>2, <1>5, <1>6, <1>7, <1>10, <1>11 DEF ClientInv, KeepsRequests, InFlight

LEMMA QueueFollows ==
  ASSUME semaphore' \in Seq(Actions), Once',
         \A b \in Actions : InLine(b)' <=> pc'[b] \in Active,
         \A b \in Actions : pc'[b] \in InFlight => Holds(b)' /\ attempt' \in {1, 2} /\ sent' > 0
  PROVE  QueueHolds'
<1>1. \A i \in DOMAIN semaphore' : pc'[semaphore'[i]] \in Active
  BY Elements DEF InLine
<1>2. QED
  BY <1>1 DEF QueueHolds, Once, InLine, Active, InFlight

\* An action that ends leaves everything else as it was; what it shows holds
\* every review that was reported, and the others will show those too.
LEMMA Finishing ==
  ASSUME ClientInv, NEW a \in Actions, Finish(a)
  PROVE  /\ ClientInv' /\ KeepsRequests /\ PastReview' = PastReview
         /\ \A b \in Actions : pc'[b] = IF b = a THEN "done" ELSE pc[b]
         /\ \A b \in Actions : b # a => todo'[b] = todo[b]
         /\ Holds(a) => \A b \in Actions : pc'[b] \notin InFlight
<1>1. /\ pc[a] \in Active /\ pc' = [pc EXCEPT ![a] = "done"]
      /\ Leave(a) /\ UNCHANGED <<found, sent>>
      /\ attempt' = IF Holds(a) THEN 0 ELSE attempt
      /\ \/ todo' = todo /\ UNCHANGED screen
         \/ /\ Due(a, "optional") /\ todo' = [todo EXCEPT ![a] = <<>>]
            /\ shown' = found[a]
            /\ reported' = IF a \in Reviews THEN reported \cup {a} ELSE reported
  BY DEF Finish, Show, End, Goto
<1>2. \A b \in Actions : pc'[b] = IF b = a THEN "done" ELSE pc[b]
  BY <1>1 DEF ClientInv, ClientType
<1>3. semaphore \in Seq(Actions) /\ Once
  BY DEF ClientInv, ClientType, QueueHolds, Once
<1>4. /\ semaphore' \in Seq(Actions) /\ Once'
      /\ \A b \in Actions : InLine(b)' <=> b # a /\ InLine(b)
      /\ \A b, c \in Actions : Ahead(b, c)' => Ahead(b, c)
      /\ \A b \in Actions : b # a /\ Holds(b) => Holds(b)'
  BY <1>1, <1>3, LeaveQueue
<1>5. \A b \in Actions : pc[b] \in InFlight => Holds(b) /\ attempt \in {1, 2} /\ sent > 0
  BY DEF ClientInv, QueueHolds, InFlight
<1>6. \A b \in Actions : b # a => todo'[b] = todo[b]
  BY <1>1 DEF ClientInv, ClientType
<1>7. todo'[a] = todo[a] \/ (Due(a, "optional") /\ todo'[a] = <<>>)
  BY <1>1 DEF ClientInv, ClientType
<1>8. Holds(a) => \A b \in Actions : b # a => ~Holds(b)
  BY DEF Holds
<1>9. ClientType'
  <2>1. reported' \subseteq Reviews /\ shown' \subseteq Reviews
    BY <1>1 DEF ClientInv, ClientType, screen
  <2>2. todo' \in [Actions -> Seq(Commands)]
    BY <1>1, EmptySeq DEF ClientInv, ClientType
  <2>3. attempt' \in 0..2 /\ sent' \in Nat /\ found' \in [Actions -> SUBSET Reviews]
    BY <1>1 DEF ClientInv, ClientType
  <2>4. pc' \in [Actions -> {"idle", "waiting", "writing", "reading", "done"}]
    BY <1>1 DEF ClientInv, ClientType
  <2>5. QED
    BY <1>4, <2>1, <2>2, <2>3, <2>4 DEF ClientType
<1>10. QueueHolds'
  <2>1. \A b \in Actions : InLine(b)' <=> pc'[b] \in Active
    BY <1>2, <1>4 DEF ClientInv, QueueHolds, InLine, Active
  <2>2. \A b \in Actions : pc'[b] \in InFlight => Holds(b)' /\ attempt' \in {1, 2} /\ sent' > 0
    BY <1>1, <1>2, <1>4, <1>5, <1>8 DEF InFlight
  <2>3. QED
    BY <1>4, <2>1, <2>2, QueueFollows
<1>11. TodoHolds'
  <2>1. ASSUME NEW b \in Actions
        PROVE  /\ todo'[b] \in {RequestsOf(b)', Refresh', Tail(Refresh)', <<"optional">>, <<>>}
               /\ pc'[b] = "idle" => todo'[b] = RequestsOf(b)'
               /\ pc'[b] \in Active' => todo'[b] # <<>>
    <3>1. RequestsOf(b)' = RequestsOf(b) /\ Refresh' = Refresh /\ Active' = Active
      BY DEF RequestsOf, Refresh, Active
    <3>2. CASE b = a
      BY <1>2, <1>7, <3>1, <3>2 DEF ClientInv, TodoHolds, Active
    <3>3. CASE b # a
      BY <1>2, <1>6, <3>1, <3>3 DEF ClientInv, TodoHolds
    <3>4. QED
      BY <3>2, <3>3
  <2>2. QED
    BY <2>1 DEF TodoHolds
<1>12. \A b \in Actions, c \in Commands : b # a => (Due(b, c)' <=> Due(b, c))
  BY <1>6 DEF Due
<1>13. PastReview' = PastReview
  <2>1. ASSUME Due(a, "optional")
        PROVE  todo[a] # RequestsOf(a) /\ RequestsOf(a) # <<>>
    <3>1. RequestsOf(a) # <<>> /\ (todo[a] = RequestsOf(a) => Due(a, "review") \/ Due(a, "fetch"))
      BY <1>1, TodoSteps, ActiveTodo, RequestLists DEF ClientInv
    <3>2. QED
      BY <2>1, <3>1 DEF Due
  <2>2. todo'[a] # RequestsOf(a) <=> todo[a] # RequestsOf(a)
    BY <1>7, <2>1
  <2>3. \A b \in Actions : RequestsOf(b)' = RequestsOf(b)
    BY DEF RequestsOf, Refresh
  <2>4. QED
    BY <1>6, <2>2, <2>3, ReviewsAssumption DEF PastReview
<1>14. reported' \subseteq PastReview'
  <2>1. Due(a, "optional") => todo[a] # RequestsOf(a)
    BY <1>1, TodoSteps, ActiveTodo DEF ClientInv, Due
  <2>2. QED
    BY <1>1, <1>13, <2>1 DEF ClientInv, PastReview, screen
<1>15. SnapshotsHold'
  <2>1. reported' \subseteq shown'
    BY <1>1 DEF ClientInv, SnapshotsHold, screen
  <2>2. ASSUME NEW c \in Actions, pc'[c] \in Active, Due(c, "optional")'
        PROVE  reported' \subseteq found'[c]
    <3>1. c # a /\ pc[c] \in Active /\ Due(c, "optional")
      BY <1>2, <1>12, <2>2 DEF Active, Commands
    <3>2. reported \subseteq found[c] /\ (a \in Reviews /\ Due(a, "optional") => a \in found[c])
      BY <1>1, <3>1 DEF ClientInv, SnapshotsHold
    <3>3. QED
      BY <1>1, <3>2 DEF screen
  <2>3. ASSUME NEW c \in Actions, pc'[c] \in Active, Due(c, "optional")',
               NEW b \in Reviews, pc'[b] \in Active,
               Due(b, "optional")' \/ (Due(b, "search")' /\ Ahead(b, c)')
        PROVE  b \in found'[c]
    <3>1. c # a /\ pc[c] \in Active /\ Due(c, "optional")
      BY <1>2, <1>12, <2>3 DEF Active, Commands
    <3>2. b \in Actions /\ b # a /\ pc[b] \in Active
      BY <1>2, <2>3, ReviewsAssumption DEF Active
    <3>3. Due(b, "optional") \/ (Due(b, "search") /\ Ahead(b, c))
      BY <1>4, <1>12, <2>3, <3>2 DEF Commands
    <3>4. QED
      BY <1>1, <3>1, <3>2, <3>3 DEF ClientInv, SnapshotsHold
  <2>4. QED
    BY <2>1, <2>2, <2>3 DEF SnapshotsHold, Active
<1>16. KeepsRequests
  BY <1>2, <1>6 DEF KeepsRequests, InFlight
<1>17. Holds(a) => \A b \in Actions : pc'[b] \notin InFlight
  BY <1>2, <1>5, <1>8 DEF InFlight
<1>18. QED
  BY <1>2, <1>6, <1>9, <1>10, <1>11, <1>13, <1>14, <1>15, <1>16, <1>17 DEF ClientInv

\* A request that is written or read is that of the holder, which stays in line.
LEMMA Starting ==
  ASSUME ClientInv, NEW a \in Actions, NEW label \in InFlight,
         pc[a] \in Active, Holds(a),
         Goto(a, label), attempt' \in {1, 2}, sent' \in Nat, sent' > 0,
         UNCHANGED <<todo, found, semaphore, screen>>
  PROVE  /\ ClientInv' /\ PastReview' = PastReview
         /\ \A b \in Actions : pc'[b] = IF b = a THEN label ELSE pc[b]
         /\ \A b \in Actions : b # a => pc'[b] \notin InFlight
<1>1. \A b \in Actions : pc'[b] = IF b = a THEN label ELSE pc[b]
  BY DEF ClientInv, ClientType, Goto
<1>2. \A b \in Actions : b # a => ~Holds(b) /\ pc[b] \notin InFlight
  BY DEF Holds, ClientInv, QueueHolds, InFlight
<1>3. UNCHANGED <<todo, found, semaphore, shown, reported>>
  BY DEF screen
<1>4. ClientType'
  BY <1>3 DEF ClientInv, ClientType, Goto, InFlight
<1>5. QueueHolds'
  <2>1. semaphore' \in Seq(Actions) /\ Once'
    BY <1>3 DEF ClientInv, ClientType, QueueHolds, Once
  <2>2. \A b \in Actions : InLine(b)' <=> pc'[b] \in Active
    BY <1>1, <1>3 DEF ClientInv, QueueHolds, InLine, Active, InFlight
  <2>3. \A b \in Actions : pc'[b] \in InFlight => Holds(b)' /\ attempt' \in {1, 2} /\ sent' > 0
    BY <1>1, <1>2, <1>3 DEF Holds
  <2>4. QED
    BY <2>1, <2>2, <2>3, QueueFollows
<1>6. TodoHolds'
  <2>1. \A b \in Actions : RequestsOf(b)' = RequestsOf(b) /\ Refresh' = Refresh
    BY DEF RequestsOf, Refresh
  <2>2. QED
    BY <1>1, <1>3, <2>1 DEF ClientInv, TodoHolds, Active, InFlight
<1>7. SnapshotsHold'
  <2>1. \A b \in Actions : pc'[b] \in Active => pc[b] \in Active
    BY <1>1
  <2>2. \A b, c \in Actions : Ahead(b, c)' <=> Ahead(b, c)
    BY <1>3 DEF Ahead
  <2>3. \A b \in Actions : \A c \in Commands : Due(b, c)' <=> Due(b, c)
    BY <1>3 DEF Due
  <2>4. QED
    BY <1>3, <2>1, <2>2, <2>3, ReviewsAssumption DEF ClientInv, SnapshotsHold, Active, Commands
<1>8. PastReview' = PastReview
  BY <1>3 DEF PastReview, RequestsOf, Refresh
<1>9. QED
  BY <1>1, <1>2, <1>3, <1>4, <1>5, <1>6, <1>7, <1>8 DEF ClientInv

\* An answered request puts its action behind the others, and a search gives it
\* every review that was answered.
LEMMA GoingOn ==
  ASSUME ClientInv, NEW a \in Actions, pc[a] = "reading",
         NEW line \in Answer, Due(a, "search") => PastReview \subseteq line.found,
         Len(todo[a]) > 1, Continue(a, line)
  PROVE  /\ ClientInv' /\ KeepsRequests
         /\ PastReview' = IF Due(a, "review") THEN PastReview \cup {a} ELSE PastReview
         /\ \A b \in Actions : pc'[b] = IF b = a THEN "waiting" ELSE pc[b]
         /\ \A b \in Actions : pc'[b] \notin InFlight
         /\ \A b \in Actions : b # a => todo'[b] = todo[b]
         /\ ~Due(a, "review")'
<1>1. /\ pc' = [pc EXCEPT ![a] = "waiting"] /\ todo' = [todo EXCEPT ![a] = Tail(@)]
      /\ found' = IF Due(a, "search") THEN [found EXCEPT ![a] = line.found] ELSE found
      /\ Requeue(a) /\ attempt' = 0 /\ UNCHANGED <<sent, shown, reported>>
  <2>1. todo[a] # <<>> /\ Len(todo[a]) # 1
    <3>1. todo[a] \in Seq(Commands)
      BY DEF ClientInv, ClientType
    <3>2. QED
      BY <3>1, Elements
  <2>2. Due(a, "search") <=> Head(todo[a]) = "search"
    BY <2>1 DEF Due
  <2>3. /\ attempt' = 0 /\ UNCHANGED sent
        /\ found' = IF Head(todo[a]) = "search" THEN [found EXCEPT ![a] = line.found]
                    ELSE found
        /\ todo' = [todo EXCEPT ![a] = Tail(@)]
        /\ Goto(a, "waiting") /\ Requeue(a) /\ UNCHANGED screen
    BY <2>1 DEF Continue
  <2>4. QED
    BY <2>2, <2>3 DEF Goto, screen
<1>2. \A b \in Actions : pc'[b] = IF b = a THEN "waiting" ELSE pc[b]
  BY <1>1 DEF ClientInv, ClientType
<1>3. pc[a] \in Active /\ Holds(a)
  BY DEF ClientInv, QueueHolds, Active, InFlight
<1>4. \A b \in Actions : b # a => ~Holds(b) /\ pc[b] \notin InFlight
  BY <1>3 DEF Holds, ClientInv, QueueHolds, InFlight
<1>5. todo'[a] = Tail(todo[a]) /\ \A b \in Actions : b # a => todo'[b] = todo[b]
  BY <1>1 DEF ClientInv, ClientType
<1>6. semaphore \in Seq(Actions) /\ Once
  BY DEF ClientInv, ClientType, QueueHolds, Once
<1>7. /\ semaphore' \in Seq(Actions) /\ Once'
      /\ \A b \in Actions : InLine(b)' <=> InLine(b)
      /\ \A b, c \in Actions : Ahead(b, c)' => b # a /\ (c = a \/ Ahead(b, c))
  BY <1>1, <1>3, <1>6, RequeueQueue
<1>8. /\ todo[a] \in {RequestsOf(a), Refresh, Tail(Refresh)}
      /\ Due(a, "review") \/ Due(a, "fetch") \/ Due(a, "search")
      /\ Due(a, "review") => a \in Reviews /\ todo[a] = RequestsOf(a) /\ todo'[a] = Refresh
      /\ Due(a, "fetch") => todo[a] = Refresh /\ todo'[a] = Tail(Refresh)
      /\ Due(a, "search") => todo[a] = Tail(Refresh) /\ todo'[a] = <<"optional">>
  <2>1. todo[a] \in {RequestsOf(a), Refresh, Tail(Refresh), <<"optional">>}
    BY <1>3, ActiveTodo DEF ClientInv
  <2>2. ~(Len(todo[a]) = 1)
    <3>1. todo[a] \in Seq(Commands)
      BY DEF ClientInv, ClientType
    <3>2. QED
      BY <3>1, Elements
  <2>3. ~Due(a, "optional") /\ todo[a] # <<"optional">>
    BY <2>1, <2>2, TodoSteps
  <2>4. /\ Due(a, "review") \/ Due(a, "fetch") \/ Due(a, "search")
        /\ Due(a, "review") => a \in Reviews /\ todo[a] = RequestsOf(a)
                               /\ Tail(todo[a]) = Refresh
        /\ Due(a, "fetch") => todo[a] = Refresh /\ Tail(todo[a]) = Tail(Refresh)
        /\ Due(a, "search") => todo[a] = Tail(Refresh) /\ Tail(todo[a]) = <<"optional">>
    BY <2>1, <2>3, TodoSteps
  <2>5. QED
    BY <1>5, <2>1, <2>3, <2>4
<1>9. /\ todo'[a] \in {Refresh, Tail(Refresh), <<"optional">>} /\ todo'[a] # <<>>
      /\ todo'[a] = Refresh => Head(todo'[a]) = "fetch"
      /\ todo'[a] = Tail(Refresh) => Head(todo'[a]) = "search"
      /\ todo'[a] = <<"optional">> => Head(todo'[a]) = "optional"
  <2>1. /\ Refresh # <<>> /\ Head(Refresh) = "fetch"
        /\ Tail(Refresh) # <<>> /\ Head(Tail(Refresh)) = "search"
    BY RequestLists
  <2>2. <<"optional">> # <<>> /\ Head(<<"optional">>) = "optional"
    OBVIOUS
  <2>3. todo'[a] \in {Refresh, Tail(Refresh), <<"optional">>}
    BY <1>8
  <2>4. QED
    BY <2>1, <2>2, <2>3
<1>10. /\ ~Due(a, "review")'
       /\ Due(a, "search")' => Due(a, "fetch")
       /\ Due(a, "optional")' <=> Due(a, "search")
  BY <1>8, <1>9 DEF Due
<1>11. ClientType'
  <2>1. todo' \in [Actions -> Seq(Commands)]
    <3>1. Tail(todo[a]) \in Seq(Commands)
      BY <1>3, TodoSteps, ActiveTodo DEF ClientInv
    <3>2. QED
      BY <1>1, <3>1 DEF ClientInv, ClientType
  <2>2. found' \in [Actions -> SUBSET Reviews]
    BY <1>1 DEF ClientInv, ClientType, Answer
  <2>3. pc' \in [Actions -> {"idle", "waiting", "writing", "reading", "done"}]
    BY <1>1 DEF ClientInv, ClientType
  <2>4. QED
    BY <1>1, <1>7, <2>1, <2>2, <2>3 DEF ClientInv, ClientType
<1>12. QueueHolds'
  <2>1. \A b \in Actions : InLine(b)' <=> pc'[b] \in Active
    BY <1>2, <1>7 DEF ClientInv, QueueHolds, InLine, Active
  <2>2. \A b \in Actions : pc'[b] \notin InFlight
    BY <1>2, <1>4 DEF InFlight
  <2>3. QED
    BY <1>7, <2>1, <2>2, QueueFollows
<1>13. TodoHolds'
  <2>1. \A b \in Actions : RequestsOf(b)' = RequestsOf(b) /\ Refresh' = Refresh
    BY DEF RequestsOf, Refresh
  <2>2. ASSUME NEW b \in Actions
        PROVE  /\ todo'[b] \in {RequestsOf(b), Refresh, Tail(Refresh), <<"optional">>, <<>>}
               /\ pc'[b] = "idle" => todo'[b] = RequestsOf(b)
               /\ pc'[b] \in Active => todo'[b] # <<>>
    <3>1. CASE b = a
      BY <1>2, <1>9, <3>1
    <3>2. CASE b # a
      BY <1>2, <1>5, <3>2 DEF ClientInv, TodoHolds
    <3>3. QED
      BY <3>1, <3>2
  <2>3. QED
    BY <2>1, <2>2 DEF TodoHolds, Active
<1>14. todo'[a] # RequestsOf(a) /\ (todo[a] = RequestsOf(a) => Due(a, "review") \/ a \notin Reviews)
  <2>1. todo[a] = RequestsOf(a) /\ a \in Reviews => Due(a, "review")
    BY <1>3, RequestLists DEF Due
  <2>2. CASE Due(a, "review")
    <3>1. RequestsOf(a) # Refresh
      BY <1>8, <2>2, RequestLists
    <3>2. QED
      BY <1>8, <2>1, <2>2, <3>1
  <2>3. CASE ~Due(a, "review")
    <3>1. Head(todo'[a]) \in {"search", "optional"}
      BY <1>8, <1>9, <2>3
    <3>2. QED
      BY <2>1, <3>1, RequestLists
  <2>4. QED
    BY <2>2, <2>3
<1>15. PastReview' = IF Due(a, "review") THEN PastReview \cup {a} ELSE PastReview
  <2>1. \A b \in Actions : RequestsOf(b)' = RequestsOf(b)
    BY DEF RequestsOf, Refresh
  <2>2. Due(a, "review") => a \in Reviews
    BY <1>8
  <2>3. \A b \in Reviews : b \in PastReview' <=> todo'[b] # RequestsOf(b)
    BY <2>1, ReviewsAssumption DEF PastReview
  <2>4. \A b \in Reviews : b \in PastReview <=> todo[b] # RequestsOf(b)
    BY DEF PastReview
  <2>5. \A b \in Reviews : b \in PastReview' <=> b = a \/ b \in PastReview
    BY <1>5, <1>14, <2>3, <2>4, ReviewsAssumption
  <2>6. PastReview' \subseteq Reviews /\ PastReview \subseteq Reviews
    BY DEF PastReview
  <2>7. ~Due(a, "review") /\ a \in Reviews => a \in PastReview
    BY <1>14, <2>4
  <2>8. QED
    BY <2>2, <2>5, <2>6, <2>7
<1>16. \A b \in Actions, c \in Commands : b # a => (Due(b, c)' <=> Due(b, c))
  BY <1>5 DEF Due
<1>17. SnapshotsHold'
  <2>1. reported \subseteq PastReview /\ reported \subseteq shown
    BY DEF ClientInv, SnapshotsHold
  <2>2. \A b \in Reviews : pc[b] \in Active /\ (Due(b, "optional") \/ Due(b, "search"))
                             => b \in PastReview
    <3>1. ASSUME NEW b \in Reviews, Due(b, "optional") \/ Due(b, "search")
          PROVE  todo[b] # RequestsOf(b)
      BY <3>1, RequestLists, ReviewsAssumption DEF Due
    <3>2. QED
      BY <3>1 DEF PastReview
  <2>3. \A c \in Actions : found'[c] = IF c = a /\ Due(a, "search") THEN line.found ELSE found[c]
    BY <1>1 DEF ClientInv, ClientType
  <2>4. ASSUME NEW c \in Actions, pc'[c] \in Active, Due(c, "optional")'
        PROVE  reported' \subseteq found'[c]
    <3>1. CASE c = a
      BY <1>1, <1>10, <2>1, <2>3, <2>4, <3>1
    <3>2. CASE c # a
      <4>1. pc[c] \in Active /\ Due(c, "optional")
        BY <1>2, <1>16, <2>4, <3>2 DEF Commands
      <4>2. QED
        BY <1>1, <2>3, <3>2, <4>1 DEF ClientInv, SnapshotsHold
    <3>3. QED
      BY <3>1, <3>2
  <2>5. ASSUME NEW c \in Actions, pc'[c] \in Active, Due(c, "optional")',
               NEW b \in Reviews, pc'[b] \in Active,
               Due(b, "optional")' \/ (Due(b, "search")' /\ Ahead(b, c)')
        PROVE  b \in found'[c]
    <3>1. b \in Actions /\ pc[b] \in Active /\ pc[c] \in Active
      BY <1>2, <1>3, <2>5, ReviewsAssumption
    <3>2. CASE c = a
      <4>1. Due(a, "search") /\ found'[c] = line.found
        BY <1>10, <2>3, <2>5, <3>2
      <4>2. b \in PastReview
        BY <1>16, <2>2, <2>5, <3>1, <4>1 DEF Commands
      <4>3. QED
        BY <4>1, <4>2
    <3>3. CASE c # a /\ b = a
      <4>1. Due(a, "search") /\ Due(c, "optional") /\ found'[c] = found[c]
        BY <1>7, <1>10, <1>16, <2>3, <2>5, <3>1, <3>3 DEF Commands
      <4>2. Ahead(a, c)
        BY <1>3, <3>1, <3>3, HolderIsFirst DEF ClientInv
      <4>3. QED
        BY <3>1, <3>3, <4>1, <4>2 DEF ClientInv, SnapshotsHold
    <3>4. CASE c # a /\ b # a
      <4>1. /\ Due(c, "optional") /\ found'[c] = found[c]
            /\ Due(b, "optional") \/ (Due(b, "search") /\ Ahead(b, c))
        BY <1>7, <1>16, <2>3, <2>5, <3>1, <3>4 DEF Commands
      <4>2. QED
        BY <3>1, <4>1 DEF ClientInv, SnapshotsHold
    <3>5. QED
      BY <3>2, <3>3, <3>4
  <2>6. reported' \subseteq shown'
    BY <1>1, <2>1
  <2>7. QED
    BY <2>4, <2>5, <2>6 DEF SnapshotsHold, Active
<1>18. reported' \subseteq PastReview'
  BY <1>1, <1>15 DEF ClientInv
<1>19. \A b \in Actions : pc'[b] \notin InFlight
  BY <1>2, <1>4 DEF InFlight
<1>20. QED
  BY <1>2, <1>5, <1>10, <1>11, <1>12, <1>13, <1>15, <1>17, <1>18, <1>19 DEF ClientInv, KeepsRequests

-----------------------------------------------------------------------------
(* What the steps do to the pipes.                                          *)

\* a writes its request.
NewLine(a, k) ==
  pc[a] = "writing" /\ k = Len(stdin) + 1 /\ stdin' = Append(stdin, Request(a))

PipesStep ==
  /\ ProcessType'
  /\ \A k \in DOMAIN stdin' :
       \/ stdin'[k] \in {Torn, Unparsed}
       \/ k \in DOMAIN stdin /\ stdin'[k] = stdin[k]
       \/ \E a \in Actions : NewLine(a, k)
  /\ \A k \in DOMAIN stdout' :
       \/ stdout'[k] \in {Torn, answer}
       \/ \E l \in DOMAIN stdout : stdout'[k] = stdout[l]
  /\ answer' \in {answer, Unparsed}

\* A request is written by the holder alone, whose number it has, and a review
\* is sent a second time only when something went wrong.
RequestsStep ==
  /\ \A a \in Actions : NewLine(a, Len(stdin) + 1) =>
       sent' = sent /\ pc'[a] \in {"reading", "done"}
       /\ (pc'[a] = "reading" => todo'[a] = todo[a])
       /\ \A b \in Actions : b # a => pc'[b] \notin InFlight
  /\ sent' > sent \/ (sent' = sent /\ KeepsRequests)
  /\ PastReview' = PastReview \/ \A a \in Actions : pc'[a] \notin InFlight
  /\ PastReview' \subseteq reviewed
  /\ \A b \in Reviews : Due(b, "review")' =>
       /\ Due(b, "review")
       /\ \/ pc'[b] = "done"
          \/ pc'[b] = pc[b] /\ (pc[b] \in InFlight => attempt' = attempt)
          \/ pc[b] = "idle" /\ pc'[b] = "waiting"
          \/ pc[b] = "waiting" /\ pc'[b] = "writing" /\ attempt' > 0
          \/ pc[b] = "writing" /\ pc'[b] = "reading" /\ attempt' = attempt
          \/ /\ pc[b] \in InFlight /\ pc'[b] = "writing" /\ attempt = 1 /\ attempt' = 2
             /\ stdin' = <<>> /\ faults # 0

\* What is in the pipes remains true of the request under way.
LEMMA RequestsKept ==
  ASSUME IndInv, sent' \in Nat, reviewed \subseteq reviewed',
         sent' > sent \/ (sent' = sent /\ KeepsRequests),
         PastReview' = PastReview \/ \A a \in Actions : pc'[a] \notin InFlight
  PROVE  Lines \subseteq Lines' /\ Answers \subseteq Answers'
<1>1. sent \in Nat
  BY DEF IndInv, ClientInv, ClientType
<1>2. ASSUME NEW line \in Lines
      PROVE  line \in Lines'
  <2>1. /\ line \in Line /\ line.id \in Nat /\ line.id <= sent
        /\ line.command = "review" => line.of \in Reviews
    BY DEF Lines, Line
  <2>2. CASE sent' > sent
    BY <1>1, <2>1, <2>2 DEF Lines, Line
  <2>3. CASE sent' = sent /\ KeepsRequests
    <3>1. ASSUME NEW a \in Actions, line.id = sent'
          PROVE  /\ pc'[a] # "writing"
                 /\ pc'[a] = "reading" => line.of = a /\ Due(a, line.command)'
      <4>1. pc[a] # "writing" /\ (pc[a] = "reading" => line.of = a /\ Due(a, line.command))
        BY <2>3, <3>1 DEF Lines
      <4>2. pc'[a] \in InFlight => todo'[a] = todo[a] /\ pc'[a] = pc[a]
        BY <2>3, <4>1 DEF KeepsRequests
      <4>3. QED
        BY <4>1, <4>2 DEF InFlight, Due
    <3>2. QED
      BY <2>1, <2>3, <3>1 DEF Lines, Line, Due
  <2>4. QED
    BY <2>2, <2>3
<1>3. ASSUME NEW line \in Answers
      PROVE  line \in Answers'
  <2>1. line \in Answer /\ line.id \in Nat /\ (line.ok => line.id <= sent)
    BY DEF Answers, Answer
  <2>2. CASE ~line.ok
    BY <2>1, <2>2 DEF Answers, Answer
  <2>3. CASE line.ok /\ sent' > sent
    BY <1>1, <2>1, <2>3 DEF Answers, Answer
  <2>4. CASE line.ok /\ sent' = sent /\ KeepsRequests
    <3>1. ASSUME NEW a \in Actions, line.id = sent'
          PROVE  /\ pc'[a] # "writing"
                 /\ pc'[a] = "reading" /\ Due(a, "review")' => a \in reviewed'
                 /\ pc'[a] = "reading" /\ Due(a, "search")' => PastReview' \subseteq line.found
      <4>1. /\ pc[a] # "writing"
            /\ pc[a] = "reading" /\ Due(a, "review") => a \in reviewed
            /\ pc[a] = "reading" /\ Due(a, "search") => PastReview \subseteq line.found
        BY <2>4, <3>1 DEF Answers
      <4>2. pc'[a] \in InFlight => todo'[a] = todo[a] /\ pc'[a] = pc[a]
        BY <2>4, <4>1 DEF KeepsRequests
      <4>3. pc'[a] = "reading" => PastReview' = PastReview
        BY DEF InFlight
      <4>4. QED
        BY <4>1, <4>2, <4>3 DEF InFlight, Due
    <3>2. QED
      BY <2>1, <2>4, <3>1 DEF Answers, Answer
  <2>5. QED
    BY <2>2, <2>3, <2>4
<1>4. QED
  BY <1>2, <1>3

\* The request a writes is under way, alone.
LEMMA RequestIsALine ==
  ASSUME IndInv, NEW a \in Actions, pc[a] = "writing"
  PROVE  /\ Request(a) \in Line /\ todo[a] # <<>>
         /\ Request(a).id = sent /\ Request(a).of = a /\ Due(a, Request(a).command)
         /\ Request(a).command = "review" => a \in Reviews
<1>1. pc[a] \in Active
  BY DEF Active
<1>2. todo[a] # <<>> /\ Head(todo[a]) \in Commands /\ (Due(a, "review") => a \in Reviews)
  BY <1>1, TodoSteps, ActiveTodo DEF IndInv, ClientInv
<1>3. sent \in Nat
  BY DEF IndInv, ClientInv, ClientType
<1>4. QED
  BY <1>2, <1>3 DEF Request, Line, Due

LEMMA PipesFollow ==
  ASSUME IndInv, ClientInv', PipesStep, RequestsStep, reviewed' = reviewed
  PROVE  PipesHold'
<1>1. Lines \subseteq Lines' /\ Answers \subseteq Answers'
  BY RequestsKept DEF RequestsStep, ClientInv, ClientType
<1>2. ASSUME NEW a \in Actions, NEW k, NewLine(a, k)
      PROVE  Request(a) \in Lines'
  <2>1. /\ pc[a] = "writing" /\ k = Len(stdin) + 1 /\ NewLine(a, Len(stdin) + 1)
    BY <1>2 DEF NewLine
  <2>2. /\ sent' = sent /\ pc'[a] \in {"reading", "done"}
        /\ pc'[a] = "reading" => todo'[a] = todo[a]
        /\ \A b \in Actions : b # a => pc'[b] \notin InFlight
    BY <2>1 DEF RequestsStep
  <2>3. /\ Request(a) \in Line /\ Request(a).id = sent /\ Request(a).of = a
        /\ Due(a, Request(a).command) /\ (Request(a).command = "review" => a \in Reviews)
    BY <2>1, RequestIsALine
  <2>4. sent \in Nat
    BY DEF IndInv, ClientInv, ClientType
  <2>5. PICK r \in Line :
          /\ r = Request(a) /\ r.id = sent /\ r.of = a /\ Due(a, r.command)
          /\ r.command = "review" => a \in Reviews
    BY <2>3
  <2>6. ASSUME NEW b \in Actions
        PROVE  pc'[b] # "writing" /\ (pc'[b] = "reading" => r.of = b /\ Due(b, r.command)')
    <3>1. CASE b = a
      BY <2>2, <2>5, <3>1 DEF Due
    <3>2. CASE b # a
      BY <2>2, <3>2 DEF InFlight
    <3>3. QED
      BY <3>1, <3>2
  <2>7. r \in Lines'
    BY <2>2, <2>4, <2>5, <2>6 DEF Lines, Due
  <2>8. QED
    BY <2>5, <2>7
<1>3. ASSUME NEW k \in DOMAIN stdin'
      PROVE  stdin'[k] \in {Torn, Unparsed} \cup Lines'
  <2>1. CASE k \in DOMAIN stdin /\ stdin'[k] = stdin[k]
    BY <1>1, <2>1 DEF IndInv, PipesHold
  <2>2. CASE \E a \in Actions : NewLine(a, k)
    <3>1. PICK a \in Actions : NewLine(a, k)
      BY <2>2
    <3>2. stdin'[k] = Request(a)
      <4>1. Request(a) \in Line \cup {Torn, Unparsed}
        BY <3>1, RequestIsALine DEF NewLine
      <4>2. stdin \in Seq(Line \cup {Torn, Unparsed})
        BY DEF IndInv, ProcessType
      <4>3. stdin' = Append(stdin, Request(a)) /\ k = Len(stdin) + 1
        BY <3>1 DEF NewLine
      <4>4. QED
        BY <4>1, <4>2, <4>3, AppendProperties
    <3>3. QED
      BY <1>2, <3>1, <3>2
  <2>3. QED
    BY <2>1, <2>2 DEF PipesStep
<1>4. ASSUME NEW k \in DOMAIN stdout'
      PROVE  stdout'[k] \in {Torn} \cup Answers'
  BY <1>1 DEF PipesStep, IndInv, PipesHold
<1>5. answer' \in Answers'
  <2>1. Unparsed \in Answer /\ Unparsed.ok = FALSE
    BY DEF Unparsed, Answer
  <2>2. Unparsed \in Answers'
    BY <2>1 DEF Answers
  <2>3. QED
    BY <1>1, <2>2 DEF PipesStep, IndInv, PipesHold
<1>6. QED
  BY <1>3, <1>4, <1>5 DEF PipesHold

\* The lines that ask for a review are those there were, and the one its action
\* writes if there was none.
LEMMA ReviewLinesFollow ==
  ASSUME IndInv, PipesStep, NEW b \in Reviews, NEW k, ReviewLine(k, b)', k \in DOMAIN stdin'
  PROVE  \/ k \in DOMAIN stdin /\ ReviewLine(k, b)
         \/ NewLine(b, k) /\ Due(b, "review")
<1>1. CASE k \in DOMAIN stdin /\ stdin'[k] = stdin[k]
  BY <1>1 DEF ReviewLine
<1>2. CASE \E a \in Actions : NewLine(a, k)
  <2>1. PICK a \in Actions : NewLine(a, k)
    BY <1>2
  <2>2. /\ Request(a) \in Line /\ Request(a).of = a /\ Due(a, Request(a).command)
    BY <2>1, RequestIsALine DEF NewLine
  <2>3. stdin'[k] = Request(a)
    <3>1. stdin \in Seq(Line \cup {Torn, Unparsed})
      BY DEF IndInv, ProcessType
    <3>2. stdin' = Append(stdin, Request(a)) /\ k = Len(stdin) + 1
      BY <2>1 DEF NewLine
    <3>3. QED
      BY <2>2, <3>1, <3>2, AppendProperties
  <2>4. a = b /\ Request(a).command = "review"
    BY <2>2, <2>3 DEF ReviewLine
  <2>5. QED
    BY <2>1, <2>2, <2>4
<1>3. QED
  BY <1>1, <1>2 DEF PipesStep, ReviewLine

LEMMA ExecutionsFollow ==
  ASSUME IndInv, ClientInv', PipesStep, RequestsStep, executions' = executions
  PROVE  ExecutionsHold' /\ (faults = 0 => Singly')
<1>1. \A b \in Reviews :
        /\ executions[b] \in Nat /\ executions[b] <= 2
        /\ \A k, l \in DOMAIN stdin : ReviewLine(k, b) /\ ReviewLine(l, b) => k = l
        /\ Written(b) => executions[b] <= 1
  BY DEF IndInv, ExecutionsHold, BackendType
<1>2. \A b \in Reviews : Due(b, "review") =>
        /\ pc[b] \in {"idle", "waiting"} => executions[b] = 0 /\ ~Written(b)
        /\ pc[b] = "writing" => executions[b] < attempt /\ ~Written(b)
        /\ pc[b] = "reading" => /\ executions[b] <= attempt
                                /\ Written(b) => executions[b] < attempt
  BY DEF IndInv, ExecutionsHold
<1>3. attempt \in 0..2 /\ attempt' \in 0..2 /\ Reviews \subseteq Actions
  BY ReviewsAssumption DEF IndInv, ClientInv, ClientType
<1>4. ASSUME NEW b \in Reviews, Written(b)'
      PROVE  \/ Written(b)
             \/ /\ NewLine(b, Len(stdin) + 1) /\ Due(b, "review") /\ pc[b] = "writing"
                /\ pc'[b] \in {"reading", "done"}
  <2>1. PICK k \in DOMAIN stdin' : ReviewLine(k, b)'
    BY <1>4 DEF Written
  <2>2. CASE k \in DOMAIN stdin /\ ReviewLine(k, b)
    BY <2>2 DEF Written
  <2>3. CASE NewLine(b, k) /\ Due(b, "review")
    <3>1. NewLine(b, Len(stdin) + 1) /\ pc[b] = "writing"
      BY <2>3 DEF NewLine
    <3>2. QED
      BY <1>3, <2>3, <3>1 DEF RequestsStep
  <2>4. QED
    BY <2>1, <2>2, <2>3, ReviewLinesFollow
<1>5. ASSUME NEW b \in Reviews, NEW k \in DOMAIN stdin', NEW l \in DOMAIN stdin',
             ReviewLine(k, b)', ReviewLine(l, b)'
      PROVE  k = l
  <2>1. (k \in DOMAIN stdin /\ ReviewLine(k, b)) \/ (NewLine(b, k) /\ Due(b, "review"))
    BY <1>5, ReviewLinesFollow
  <2>2. (l \in DOMAIN stdin /\ ReviewLine(l, b)) \/ (NewLine(b, l) /\ Due(b, "review"))
    BY <1>5, ReviewLinesFollow
  <2>3. \A i : NewLine(b, i) /\ Due(b, "review") => ~Written(b) /\ i = Len(stdin) + 1
    BY <1>2 DEF NewLine
  <2>4. QED
    BY <1>1, <2>1, <2>2, <2>3 DEF Written
<1>6. ASSUME NEW b \in Reviews
      PROVE  /\ Written(b)' => executions[b] <= 1
             /\ Written(b)' /\ faults = 0 => executions[b] = 0
  <2>1. CASE Written(b)
    BY <1>1, <2>1 DEF IndInv, FaultFree, Singly
  <2>2. CASE Due(b, "review") /\ pc[b] = "writing"
    <3>1. executions[b] < attempt
      BY <1>2, <2>2
    <3>2. executions[b] <= 1
      BY <1>1, <1>3, <3>1
    <3>3. faults = 0 => executions[b] = 0
      BY <2>2 DEF IndInv, FaultFree, Singly
    <3>4. QED
      BY <3>2, <3>3
  <2>3. QED
    BY <1>4, <2>1, <2>2
<1>7. ASSUME NEW b \in Reviews, Due(b, "review")'
      PROVE  /\ pc'[b] \in {"idle", "waiting"} => executions[b] = 0 /\ ~Written(b)'
             /\ pc'[b] = "writing" => executions[b] < attempt' /\ ~Written(b)'
             /\ pc'[b] = "reading" => /\ executions[b] <= attempt'
                                      /\ Written(b)' => executions[b] < attempt'
             /\ faults = 0 /\ pc'[b] = "writing" => executions[b] = 0
  <2>1. Due(b, "review")
    BY <1>7 DEF RequestsStep
  <2>2. CASE pc'[b] = "done"
    BY <2>2
  <2>3. CASE pc'[b] = pc[b] /\ (pc[b] \in InFlight => attempt' = attempt)
    <3>1. pc[b] # "reading" /\ Written(b)' => Written(b) \/ pc[b] # pc'[b]
      BY <1>4
    <3>2. pc[b] = "reading" /\ Written(b)' => Written(b)
      BY <1>4
    <3>3. faults = 0 /\ pc[b] = "writing" => executions[b] = 0
      BY <2>1 DEF IndInv, FaultFree, Singly
    <3>4. QED
      BY <1>2, <2>1, <2>3, <3>1, <3>2, <3>3 DEF InFlight
  <2>4. CASE pc[b] = "idle" /\ pc'[b] = "waiting"
    BY <1>2, <1>4, <2>1, <2>4
  <2>5. CASE pc[b] = "waiting" /\ pc'[b] = "writing" /\ attempt' > 0
    BY <1>2, <1>3, <1>4, <2>1, <2>5
  <2>6. CASE pc[b] = "writing" /\ pc'[b] = "reading" /\ attempt' = attempt
    <3>1. executions[b] < attempt
      BY <1>2, <2>1, <2>6
    <3>2. QED
      BY <1>1, <1>3, <2>6, <3>1
  <2>7. CASE /\ pc[b] \in InFlight /\ pc'[b] = "writing" /\ attempt = 1 /\ attempt' = 2
             /\ stdin' = <<>> /\ faults # 0
    <3>1. ~Written(b)'
      BY <2>7 DEF Written
    <3>2. executions[b] <= 1
      BY <1>1, <1>2, <2>1, <2>7 DEF InFlight
    <3>3. QED
      BY <1>1, <2>7, <3>1, <3>2
  <2>8. QED
    BY <1>7, <2>2, <2>3, <2>4, <2>5, <2>6, <2>7 DEF RequestsStep
<1>8. ExecutionsHold'
  BY <1>1, <1>5, <1>6, <1>7 DEF ExecutionsHold
<1>9. ASSUME faults = 0
      PROVE  Singly'
  <2>1. \A b \in Reviews : executions[b] <= 1
    BY <1>9 DEF IndInv, FaultFree, Singly
  <2>2. QED
    BY <1>6, <1>7, <1>9, <2>1 DEF Singly
<1>10. QED
  BY <1>8, <1>9

\* A step of an action, or of a process that executes nothing.
LEMMA ClientStep ==
  ASSUME IndInv, ClientInv', PipesStep, RequestsStep, UNCHANGED backend,
         disposed' \in BOOLEAN, faults' \in 0..MaxFaults, faults <= faults',
         disposed' => companion' = "none",
         faults' = 0 /\ ~disposed' => Straight'
  PROVE  IndInv'
<1>1. reviewed' = reviewed /\ executions' = executions
  BY DEF backend
<1>2. PipesHold' /\ ExecutionsHold' /\ (faults = 0 => Singly')
  BY <1>1, PipesFollow, ExecutionsFollow
<1>3. faults \in 0..MaxFaults /\ MaxFaults \in Nat
  BY FaultsAssumption DEF IndInv, BackendType
<1>4. FaultFree'
  BY <1>2, <1>3 DEF FaultFree
<1>5. BackendType' /\ PastReview' \subseteq reviewed'
  BY <1>1 DEF IndInv, BackendType, RequestsStep
<1>6. QED
  BY <1>2, <1>4, <1>5 DEF IndInv, PipesStep, NothingRunsAfterDispose

-----------------------------------------------------------------------------
(* The steps that leave the pipes alone, empty them or read an answer.      *)

NoNewLine == \A a \in Actions : \A k : ~NewLine(a, k)

LEMMA NothingWritten ==
  ASSUME IndInv, stdin' \in {stdin, <<>>}
  PROVE  NoNewLine
<1>1. ASSUME NEW a \in Actions, NEW k, NewLine(a, k)
      PROVE  FALSE
  <2>1. Request(a) \in Line \cup {Torn, Unparsed} /\ stdin' = Append(stdin, Request(a))
    BY <1>1, RequestIsALine DEF NewLine
  <2>2. stdin \in Seq(Line \cup {Torn, Unparsed})
    BY DEF IndInv, ProcessType
  <2>3. stdin' # <<>> /\ Len(stdin') = Len(stdin) + 1 /\ Len(stdin) \in Nat
    BY <2>1, <2>2, AppendProperties, LenProperties
  <2>4. stdin' # stdin
    BY <2>3
  <2>5. QED
    BY <2>3, <2>4
<1>2. QED
  BY <1>1 DEF NoNewLine

LEMMA SamePipes ==
  ASSUME IndInv, UNCHANGED process
  PROVE  PipesStep /\ NoNewLine
<1>1. UNCHANGED <<companion, stdin, stdout, serving, answer>>
  BY DEF process
<1>2. ProcessType'
  BY <1>1 DEF IndInv, ProcessType
<1>3. QED
  BY <1>1, <1>2, NothingWritten DEF PipesStep

LEMMA EmptyPipes ==
  ASSUME IndInv, NewPipes, companion' \in {"none", "running"}
  PROVE  PipesStep /\ NoNewLine /\ Quiet'
<1>1. Unparsed \in Answer
  BY DEF Unparsed, Answer
<1>2. stdin' = <<>> /\ stdout' = <<>> /\ serving' = None /\ answer' = Unparsed
  BY DEF NewPipes
<1>3. ProcessType'
  BY <1>1, <1>2, EmptySeq DEF ProcessType
<1>4. QED
  BY <1>2, <1>3, NothingWritten DEF PipesStep, Quiet

LEMMA ReadPipes ==
  ASSUME IndInv, stdout # <<>>, stdout' = Tail(stdout),
         UNCHANGED <<companion, stdin, serving, answer>>
  PROVE  PipesStep /\ NoNewLine
<1>1. stdout \in Seq(Answer \cup {Torn})
  BY DEF IndInv, ProcessType
<1>2. /\ stdout' \in Seq(Answer \cup {Torn}) /\ Len(stdout') = Len(stdout) - 1
      /\ \A k \in 1..Len(stdout') : stdout'[k] = stdout[k + 1]
  BY <1>1, HeadTailProperties
<1>3. Len(stdout) \in Nat /\ DOMAIN stdout = 1..Len(stdout) /\ DOMAIN stdout' = 1..Len(stdout')
  BY <1>1, <1>2, LenProperties
<1>4. ASSUME NEW k \in DOMAIN stdout'
      PROVE  \E l \in DOMAIN stdout : stdout'[k] = stdout[l]
  <2>1. k + 1 \in DOMAIN stdout /\ stdout'[k] = stdout[k + 1]
    BY <1>2, <1>3
  <2>2. QED
    BY <2>1
<1>5. ProcessType'
  BY <1>2 DEF IndInv, ProcessType
<1>6. QED
  BY <1>4, <1>5, NothingWritten DEF PipesStep

-----------------------------------------------------------------------------
(* The steps of an action as steps of its requests.                         *)

LEMMA FinishRequests ==
  ASSUME IndInv, NEW a \in Actions, Finish(a), \A b \in Actions : \A k : NewLine(b, k) => b = a
  PROVE  /\ ClientInv' /\ RequestsStep
         /\ Holds(a) => \A b \in Actions : pc'[b] \notin InFlight
<1>1. /\ ClientInv' /\ KeepsRequests /\ PastReview' = PastReview
      /\ \A b \in Actions : pc'[b] = IF b = a THEN "done" ELSE pc[b]
      /\ \A b \in Actions : b # a => todo'[b] = todo[b]
      /\ Holds(a) => \A b \in Actions : pc'[b] \notin InFlight
  BY Finishing DEF IndInv
<1>2. /\ sent' = sent /\ attempt' = IF Holds(a) THEN 0 ELSE attempt
      /\ todo'[a] \in {todo[a], <<>>}
  BY DEF Finish, End, Show, IndInv, ClientInv, ClientType
<1>3. \A b \in Actions : pc[b] \in InFlight => Holds(b)
  BY DEF IndInv, ClientInv, QueueHolds, InFlight
<1>4. \A b \in Actions : Holds(b) /\ Holds(a) => b = a
  BY DEF Holds
<1>5. ASSUME NEW b \in Actions, NewLine(b, Len(stdin) + 1)
      PROVE  /\ pc'[b] = "done" /\ \A c \in Actions : c # b => pc'[c] \notin InFlight
  <2>1. b = a /\ pc[a] \in InFlight
    BY <1>5 DEF NewLine, InFlight
  <2>2. QED
    BY <1>1, <1>3, <2>1
<1>6. ASSUME NEW b \in Reviews, Due(b, "review")'
      PROVE  /\ Due(b, "review")
             /\ pc'[b] = "done" \/ (pc'[b] = pc[b] /\ (pc[b] \in InFlight => attempt' = attempt))
  <2>1. b \in Actions
    BY ReviewsAssumption
  <2>2. CASE b = a
    BY <1>1, <1>2, <1>6, <2>1, <2>2 DEF Due
  <2>3. CASE b # a
    BY <1>1, <1>2, <1>3, <1>4, <1>6, <2>1, <2>3 DEF Due
  <2>4. QED
    BY <2>2, <2>3
<1>7. PastReview' \subseteq reviewed
  BY <1>1 DEF IndInv
<1>8. QED
  BY <1>1, <1>2, <1>5, <1>6, <1>7 DEF RequestsStep

LEMMA StartRequests ==
  ASSUME IndInv, NEW a \in Actions, Holds(a), NoNewLine,
         Goto(a, "writing"), attempt' \in {1, 2}, sent' = sent + 1,
         UNCHANGED <<todo, found, semaphore, screen>>,
         \/ pc[a] = "waiting"
         \/ pc[a] \in InFlight /\ attempt = 1 /\ attempt' = 2 /\ stdin' = <<>> /\ faults # 0
  PROVE  /\ ClientInv' /\ RequestsStep
         /\ \A b \in Actions : pc'[b] # "reading"
<1>1. pc[a] \in Active /\ "writing" \in InFlight
  BY DEF Active, InFlight
<1>2. sent \in Nat /\ sent' \in Nat /\ sent' > 0 /\ sent' > sent
  BY DEF IndInv, ClientInv, ClientType
<1>3. /\ ClientInv' /\ PastReview' = PastReview
      /\ \A b \in Actions : pc'[b] = IF b = a THEN "writing" ELSE pc[b]
      /\ \A b \in Actions : b # a => pc'[b] \notin InFlight
  BY <1>1, <1>2, Starting DEF IndInv
<1>4. ASSUME NEW b \in Reviews, Due(b, "review")'
      PROVE  /\ Due(b, "review")
             /\ \/ pc'[b] = pc[b] /\ (pc[b] \in InFlight => attempt' = attempt)
                \/ pc[b] = "waiting" /\ pc'[b] = "writing" /\ attempt' > 0
                \/ /\ pc[b] \in InFlight /\ pc'[b] = "writing" /\ attempt = 1 /\ attempt' = 2
                   /\ stdin' = <<>> /\ faults # 0
  <2>1. b \in Actions /\ Due(b, "review")
    BY <1>4, ReviewsAssumption DEF Due
  <2>2. CASE b = a
    BY <1>3, <2>1, <2>2
  <2>3. CASE b # a
    BY <1>3, <2>1, <2>3
  <2>4. QED
    BY <2>2, <2>3
<1>5. PastReview' \subseteq reviewed
  BY <1>3 DEF IndInv
<1>6. RequestsStep
  BY <1>2, <1>3, <1>4, <1>5 DEF RequestsStep, NoNewLine
<1>7. QED
  BY <1>3, <1>6 DEF InFlight

LEMMA GoOnRequests ==
  ASSUME IndInv, NEW a \in Actions, pc[a] = "reading", NoNewLine,
         NEW line \in Answers, line.ok, line.id = sent,
         Len(todo[a]) > 1, Continue(a, line)
  PROVE  /\ ClientInv' /\ RequestsStep
         /\ \A b \in Actions : pc'[b] \notin InFlight
<1>1. /\ line \in Answer
      /\ Due(a, "review") => a \in reviewed
      /\ Due(a, "search") => PastReview \subseteq line.found
  BY DEF Answers
<1>2. /\ ClientInv' /\ KeepsRequests
      /\ PastReview' = IF Due(a, "review") THEN PastReview \cup {a} ELSE PastReview
      /\ \A b \in Actions : pc'[b] = IF b = a THEN "waiting" ELSE pc[b]
      /\ \A b \in Actions : pc'[b] \notin InFlight
      /\ \A b \in Actions : b # a => todo'[b] = todo[b]
      /\ ~Due(a, "review")'
  BY <1>1, GoingOn DEF IndInv
<1>3. sent' = sent
  BY DEF Continue
<1>4. PastReview' \subseteq reviewed
  BY <1>1, <1>2 DEF IndInv
<1>5. ASSUME NEW b \in Reviews, Due(b, "review")'
      PROVE  Due(b, "review") /\ pc'[b] = pc[b] /\ pc[b] \notin InFlight
  <2>1. b \in Actions /\ b # a
    BY <1>2, <1>5, ReviewsAssumption
  <2>2. pc'[b] = pc[b] /\ pc'[b] \notin InFlight /\ todo'[b] = todo[b]
    BY <1>2, <2>1
  <2>3. QED
    BY <1>5, <2>2 DEF Due
<1>6. QED
  BY <1>2, <1>3, <1>4, <1>5 DEF RequestsStep, NoNewLine

LEMMA IdleRequests ==
  ASSUME IndInv, NoNewLine, UNCHANGED <<client, screen>>
  PROVE  ClientInv' /\ RequestsStep
<1>1. UNCHANGED <<pc, todo, found, semaphore, attempt, sent, shown, reported>>
  BY DEF client, screen
<1>2. \A b, c : (Due(b, c)' <=> Due(b, c)) /\ (Ahead(b, c)' <=> Ahead(b, c))
  BY <1>1 DEF Due, Ahead
<1>3. \A b : RequestsOf(b)' = RequestsOf(b) /\ Refresh' = Refresh
  BY DEF RequestsOf, Refresh
<1>4. PastReview' = PastReview
  BY <1>1, <1>3 DEF PastReview
<1>5. ClientType' /\ TodoHolds'
  BY <1>1, <1>3 DEF IndInv, ClientInv, ClientType, TodoHolds, Active
<1>6. QueueHolds'
  BY <1>1 DEF IndInv, ClientInv, QueueHolds, Holds, Active, InFlight
<1>7. SnapshotsHold'
  BY <1>1, <1>2 DEF IndInv, ClientInv, SnapshotsHold, Active
<1>8. RequestsStep
  BY <1>1, <1>2, <1>4 DEF RequestsStep, NoNewLine, KeepsRequests, IndInv
<1>9. QED
  BY <1>1, <1>4, <1>5, <1>6, <1>7, <1>8 DEF IndInv, ClientInv

-----------------------------------------------------------------------------
(* The actions.                                                             *)

LEMMA GivingUp ==
  ASSUME IndInv, NEW a \in Actions, pc[a] \in Active, Holds(a), GiveUp(a)
  PROVE  Finish(a)
<1>1. todo[a] # <<>>
  BY DEF IndInv, ClientInv, TodoHolds
<1>2. QED
  BY <1>1 DEF GiveUp, Finish, Due

\* As long as nothing goes wrong, the answer of the companion is read.
LEMMA NoTrouble ==
  ASSUME IndInv, faults = 0, ~disposed, NEW a \in Actions, pc[a] \in InFlight
  PROVE  /\ companion = "running"
         /\ pc[a] = "reading" /\ stdout # <<>> =>
              /\ Head(stdout) # Torn /\ Mine(Head(stdout)) /\ Head(stdout).ok
              /\ stdin = <<>> /\ serving = None /\ Tail(stdout) = <<>>
<1>1. companion = "running"
  BY DEF IndInv, FaultFree, Straight
<1>2. ASSUME pc[a] = "reading", stdout # <<>>
      PROVE  /\ Head(stdout) # Torn /\ Mine(Head(stdout)) /\ Head(stdout).ok
             /\ stdin = <<>> /\ serving = None /\ Tail(stdout) = <<>>
  <2>1. /\ stdin = <<>> /\ serving = None /\ Len(stdout) = 1
        /\ stdout[1] \in Answer /\ stdout[1].id = sent /\ stdout[1].ok
    BY <1>2 DEF IndInv, FaultFree, Straight
  <2>2. Head(stdout) = stdout[1]
    BY <1>2, Elements DEF IndInv, ProcessType
  <2>3. Tail(stdout) = <<>>
    <3>1. /\ Tail(stdout) \in Seq(Answer \cup {Torn}) /\ Len(Tail(stdout)) = Len(stdout) - 1
      BY <1>2, HeadTailProperties DEF IndInv, ProcessType
    <3>2. Len(Tail(stdout)) = 0
      BY <2>1, <3>1
    <3>3. QED
      BY <3>1, <3>2, EmptySeq
  <2>4. QED
    BY <2>1, <2>2, <2>3, MarksAssumption DEF Mine
<1>3. QED
  BY <1>1, <1>2

LEMMA ClickInv ==
  ASSUME IndInv, NEW a \in Actions, Click(a)
  PROVE  IndInv'
<1>1. /\ ClientInv' /\ KeepsRequests /\ PastReview' = PastReview
  BY Clicking DEF IndInv
<1>2. /\ pc[a] = "idle" /\ pc' = [pc EXCEPT ![a] = "waiting"]
      /\ UNCHANGED <<todo, attempt, sent, process, backend, disposed, faults>>
  BY DEF Click, Goto
<1>3. \A b \in Actions : pc'[b] = IF b = a THEN "waiting" ELSE pc[b]
  BY <1>2 DEF IndInv, ClientInv, ClientType
<1>4. PipesStep /\ NoNewLine
  BY <1>2, SamePipes
<1>5. ASSUME NEW b \in Reviews, Due(b, "review")'
      PROVE  /\ Due(b, "review")
             /\ \/ pc'[b] = pc[b] /\ (pc[b] \in InFlight => attempt' = attempt)
                \/ pc[b] = "idle" /\ pc'[b] = "waiting"
  BY <1>2, <1>3, <1>5, ReviewsAssumption DEF Due
<1>6. RequestsStep
  <2>1. PastReview' \subseteq reviewed
    BY <1>1 DEF IndInv
  <2>2. QED
    BY <1>1, <1>2, <1>4, <1>5, <2>1 DEF RequestsStep, NoNewLine
<1>7. faults' = 0 /\ ~disposed' => Straight'
  <2>1. \A b \in Actions : /\ pc'[b] = "reading" <=> pc[b] = "reading"
                           /\ pc'[b] \in InFlight <=> pc[b] \in InFlight
    BY <1>2, <1>3 DEF InFlight
  <2>2. UNCHANGED <<companion, stdin, stdout, serving, answer, sent>>
    BY <1>2 DEF process
  <2>3. faults = 0 /\ ~disposed => Straight
    BY DEF IndInv, FaultFree
  <2>4. Straight => Straight'
    BY <2>1, <2>2 DEF Straight, Quiet, InFlight
  <2>5. QED
    BY <1>2, <2>3, <2>4
<1>8. /\ disposed' \in BOOLEAN /\ faults' \in 0..MaxFaults /\ faults <= faults'
      /\ disposed' => companion' = "none"
  BY <1>2, FaultsAssumption DEF IndInv, BackendType, NothingRunsAfterDispose, process
<1>9. QED
  BY <1>1, <1>2, <1>4, <1>6, <1>7, <1>8, ClientStep

\* A step that ends the holder's action, or none of whose requests is being
\* read after it, and leaves the pipes empty.
LEMMA QuietStep ==
  ASSUME IndInv, ClientInv', RequestsStep, PipesStep, Quiet',
         UNCHANGED <<backend, disposed, faults>>,
         \A b \in Actions : pc'[b] # "reading",
         companion' = "running" \/ \A b \in Actions : pc'[b] \notin InFlight,
         companion' # "exited",
         disposed => companion' = "none"
  PROVE  IndInv'
<1>1. Straight'
  BY DEF Straight, InFlight
<1>2. /\ disposed' \in BOOLEAN /\ faults' \in 0..MaxFaults /\ faults <= faults'
      /\ disposed' => companion' = "none"
  BY FaultsAssumption DEF IndInv, BackendType
<1>3. QED
  BY <1>1, <1>2, ClientStep

\* A step of an action when something went wrong before.
LEMMA TroubledStep ==
  ASSUME IndInv, ClientInv', RequestsStep, PipesStep, UNCHANGED <<backend, disposed, faults>>,
         faults # 0 \/ disposed,
         disposed => companion' = "none"
  PROVE  IndInv'
<1>1. /\ disposed' \in BOOLEAN /\ faults' \in 0..MaxFaults /\ faults <= faults'
      /\ disposed' => companion' = "none" /\ ~(faults' = 0 /\ ~disposed')
  BY FaultsAssumption DEF IndInv, BackendType
<1>2. QED
  BY <1>1, ClientStep

LEMMA BeginInv ==
  ASSUME IndInv, NEW a \in Actions, Begin(a)
  PROVE  IndInv'
<1>1. /\ pc[a] = "waiting" /\ Holds(a) /\ ~disposed /\ EnsureStarted /\ Goto(a, "writing")
      /\ attempt' \in {1, 2} /\ sent' = sent + 1
      /\ UNCHANGED <<todo, found, semaphore, backend, screen, disposed, faults>>
  BY DEF Begin
<1>2. \A b \in Actions : pc[b] # "reading"
  BY <1>1 DEF IndInv, ClientInv, QueueHolds, InFlight, Holds
<1>3. CASE companion = "running"
  <2>1. UNCHANGED process
    BY <1>1, <1>3 DEF EnsureStarted
  <2>2. PipesStep /\ NoNewLine
    BY <2>1, SamePipes
  <2>3. /\ ClientInv' /\ RequestsStep /\ \A b \in Actions : pc'[b] # "reading"
    BY <1>1, <2>2, StartRequests
  <2>4. faults = 0 => Quiet
    BY <1>1, <1>2 DEF IndInv, FaultFree, Straight
  <2>5. Quiet => Quiet'
    BY <2>1 DEF Quiet, process
  <2>6. companion' = "running"
    BY <1>3, <2>1 DEF process
  <2>7. CASE faults = 0
    BY <1>1, <2>2, <2>3, <2>4, <2>5, <2>6, <2>7, QuietStep
  <2>8. CASE faults # 0
    BY <1>1, <2>2, <2>3, <2>8, TroubledStep
  <2>9. QED
    BY <2>7, <2>8
<1>4. CASE companion # "running"
  <2>1. NewPipes /\ companion' = "running"
    BY <1>1, <1>4 DEF EnsureStarted, StartAnew
  <2>2. PipesStep /\ NoNewLine /\ Quiet'
    BY <2>1, EmptyPipes
  <2>3. /\ ClientInv' /\ RequestsStep /\ \A b \in Actions : pc'[b] # "reading"
    BY <1>1, <2>2, StartRequests
  <2>4. QED
    BY <1>1, <2>1, <2>2, <2>3, QuietStep
<1>5. QED
  BY <1>3, <1>4

\* The action ends and the companion is killed.
LEMMA EndsKilled ==
  ASSUME IndInv, NEW a \in Actions, pc[a] \in Active, Holds(a), GiveUp(a), StopCompanion,
         UNCHANGED <<backend, disposed, faults>>
  PROVE  IndInv'
<1>1. Finish(a)
  BY GivingUp
<1>2. PipesStep /\ NoNewLine /\ Quiet' /\ companion' = "none"
  BY EmptyPipes DEF StopCompanion
<1>3. /\ ClientInv' /\ RequestsStep /\ \A b \in Actions : pc'[b] \notin InFlight
  BY <1>1, <1>2, FinishRequests DEF NoNewLine
<1>4. \A b \in Actions : pc'[b] # "reading"
  BY <1>3 DEF InFlight
<1>5. QED
  BY <1>2, <1>3, <1>4, QuietStep

\* The action ends after an exception, and the companion is left as it is.
LEMMA EndsTroubled ==
  ASSUME IndInv, NEW a \in Actions, pc[a] \in Active, Holds(a), GiveUp(a),
         PipesStep, NoNewLine, companion' = companion,
         UNCHANGED <<backend, disposed, faults>>, faults # 0 \/ disposed
  PROVE  IndInv'
<1>1. Finish(a)
  BY GivingUp
<1>2. ClientInv' /\ RequestsStep
  BY <1>1, FinishRequests DEF NoNewLine
<1>3. disposed => companion' = "none"
  BY DEF IndInv, NothingRunsAfterDispose
<1>4. QED
  BY <1>2, <1>3, TroubledStep

LEMMA RetryInv ==
  ASSUME IndInv, NEW a \in Actions, pc[a] \in InFlight, Retry(a),
         UNCHANGED <<backend, disposed, faults>>, faults # 0
  PROVE  IndInv'
<1>1. /\ attempt = 1 /\ ~disposed /\ NewPipes /\ companion' = "running"
      /\ Goto(a, "writing") /\ attempt' = 2 /\ sent' = sent + 1
      /\ UNCHANGED <<todo, found, semaphore, screen>>
  BY DEF Retry, StartAnew
<1>2. Holds(a)
  BY DEF IndInv, ClientInv, QueueHolds
<1>3. PipesStep /\ NoNewLine /\ stdin' = <<>>
  BY <1>1, EmptyPipes DEF NewPipes
<1>4. ClientInv' /\ RequestsStep
  BY <1>1, <1>2, <1>3, StartRequests
<1>5. QED
  BY <1>1, <1>3, <1>4, TroubledStep

LEMMA LaunchFailsInv ==
  ASSUME IndInv, NEW a \in Actions, LaunchFails(a)
  PROVE  IndInv'
BY EndsKilled DEF LaunchFails, Active

LEMMA IOExceptionInv ==
  ASSUME IndInv, NEW a \in Actions, pc[a] \in InFlight, IOException(a),
         companion # "running", UNCHANGED <<backend, disposed, faults>>
  PROVE  IndInv'
<1>1. pc[a] \in Active /\ Holds(a)
  BY DEF IndInv, ClientInv, QueueHolds, Active, InFlight
<1>2. faults # 0 \/ disposed
  BY NoTrouble
<1>3. CASE Retry(a)
  BY <1>2, <1>3, RetryInv DEF Retry
<1>4. CASE RestartFails(a)
  BY <1>1, <1>4, EndsKilled DEF RestartFails
<1>5. CASE Throw(a)
  <2>1. GiveUp(a) /\ UNCHANGED process
    BY <1>5 DEF Throw
  <2>2. PipesStep /\ NoNewLine /\ companion' = companion
    BY <2>1, SamePipes DEF process
  <2>3. QED
    BY <1>1, <1>2, <2>1, <2>2, EndsTroubled
<1>6. QED
  BY <1>3, <1>4, <1>5 DEF IOException

LEMMA WriteFailsInv ==
  ASSUME IndInv, NEW a \in Actions, WriteFails(a)
  PROVE  IndInv'
BY IOExceptionInv DEF WriteFails, InFlight

LEMMA ReadEndsInv ==
  ASSUME IndInv, NEW a \in Actions, ReadEnds(a)
  PROVE  IndInv'
BY IOExceptionInv DEF ReadEnds, InFlight

LEMMA ReadInv ==
  ASSUME IndInv, NEW a \in Actions, Read(a)
  PROVE  IndInv'
<1> DEFINE line == Head(stdout)
<1>1. /\ pc[a] = "reading" /\ stdout # <<>> /\ UNCHANGED <<backend, disposed, faults>>
  BY DEF Read
<1>2. pc[a] \in Active /\ pc[a] \in InFlight /\ Holds(a)
  BY <1>1 DEF IndInv, ClientInv, QueueHolds, Active, InFlight
<1>3. disposed => companion = "none"
  BY DEF IndInv, NothingRunsAfterDispose
<1>4. line \in {Torn} \cup Answers
  BY <1>1, Elements DEF IndInv, ProcessType, PipesHold
<1>5. CASE /\ line # Torn /\ Mine(line) /\ line.ok /\ Continue(a, line)
           /\ stdout' = Tail(stdout) /\ UNCHANGED <<companion, stdin, serving, answer>>
  <2>1. PipesStep /\ NoNewLine
    BY <1>1, <1>5, ReadPipes
  <2>2. /\ ClientInv' /\ RequestsStep /\ \A b \in Actions : pc'[b] \notin InFlight
    <3>1. CASE Len(todo[a]) = 1
      <4>1. Due(a, "optional") /\ Len(todo[a]) = 1
        BY <1>2, <3>1, TodoSteps, ActiveTodo DEF IndInv, ClientInv
      <4>2. attempt' = 0 /\ Show(a) /\ sent' = sent
        BY <1>5, <3>1 DEF Continue
      <4>3. Finish(a)
        BY <1>2, <4>1, <4>2 DEF Finish
      <4>4. QED
        BY <1>2, <2>1, <4>3, FinishRequests DEF NoNewLine
    <3>2. CASE Len(todo[a]) > 1
      BY <1>1, <1>4, <1>5, <2>1, <3>2, GoOnRequests DEF Mine
    <3>3. QED
      BY <1>5, <3>1, <3>2 DEF Continue
  <2>3. CASE faults # 0 \/ disposed
    BY <1>1, <1>3, <1>5, <2>1, <2>2, <2>3, TroubledStep
  <2>4. CASE faults = 0 /\ ~disposed
    <3>1. stdin = <<>> /\ serving = None /\ Tail(stdout) = <<>> /\ companion = "running"
      BY <1>1, <1>2, <2>4, NoTrouble
    <3>2. Quiet' /\ companion' = "running"
      BY <1>5, <3>1 DEF Quiet
    <3>3. \A b \in Actions : pc'[b] # "reading"
      BY <2>2 DEF InFlight
    <3>4. QED
      BY <1>1, <2>1, <2>2, <2>4, <3>2, <3>3, QuietStep
  <2>5. QED
    BY <2>3, <2>4
<1>6. CASE line # Torn /\ ~Mine(line) /\ (Retry(a) \/ RestartFails(a))
  <2>1. ~disposed
    BY <1>6 DEF Retry, RestartFails
  <2>2. faults # 0
    BY <1>1, <1>2, <1>6, <2>1, NoTrouble
  <2>3. CASE Retry(a)
    BY <1>1, <1>2, <2>2, <2>3, RetryInv
  <2>4. CASE RestartFails(a)
    BY <1>1, <1>2, <2>4, EndsKilled DEF RestartFails
  <2>5. QED
    BY <1>6, <2>3, <2>4
<1>7. CASE /\ line # Torn => ~(Mine(line) /\ line.ok)
           /\ GiveUp(a)
           /\ stdout' = Tail(stdout) /\ UNCHANGED <<companion, stdin, serving, answer>>
  <2>1. PipesStep /\ NoNewLine
    BY <1>1, <1>7, ReadPipes
  <2>2. faults # 0 \/ disposed
    BY <1>1, <1>2, <1>7, NoTrouble
  <2>3. QED
    BY <1>1, <1>2, <1>7, <2>1, <2>2, EndsTroubled
<1>8. QED
  BY <1>5, <1>6, <1>7 DEF Read

\* A line that is appended comes last, or spoils the half line before it.
LEMMA AppendedLines ==
  ASSUME IndInv, NEW line \in Line \cup {Torn}, stdin' = Appended(stdin, line)
  PROVE  /\ stdin' \in Seq(Line \cup {Torn, Unparsed})
         /\ \A k \in DOMAIN stdin' :
              \/ stdin'[k] = Unparsed
              \/ k \in DOMAIN stdin /\ stdin'[k] = stdin[k]
              \/ k = Len(stdin) + 1 /\ stdin'[k] = line /\ stdin' = Append(stdin, line)
         /\ stdin = <<>> => Len(stdin') = 1 /\ stdin'[1] = line
<1> DEFINE S == Line \cup {Torn, Unparsed}
           n == Len(stdin)
<1>1. stdin \in Seq(S) /\ n \in Nat /\ DOMAIN stdin = 1..n /\ line \in S /\ Unparsed \in S
  BY Elements DEF IndInv, ProcessType
<1> HIDE DEF S
<1>2. CASE stdin # <<>> /\ stdin[n] = Torn
  <2>1. stdin' = [stdin EXCEPT ![n] = Unparsed] /\ n \in 1..n
    BY <1>1, <1>2, Elements DEF Appended
  <2>2. /\ stdin' \in Seq(S) /\ Len(stdin') = n
        /\ \A j \in 1..n : stdin'[j] = IF j = n THEN Unparsed ELSE stdin[j]
    BY <1>1, <2>1, ExceptSeq
  <2>3. DOMAIN stdin' = 1..n
    BY <1>1, <2>1
  <2>4. QED
    BY <1>1, <1>2, <2>2, <2>3 DEF S
<1>3. CASE ~(stdin # <<>> /\ stdin[n] = Torn)
  <2>1. stdin' = Append(stdin, line)
    BY <1>3 DEF Appended
  <2>2. /\ stdin' \in Seq(S) /\ Len(stdin') = n + 1
        /\ \A j \in 1..n : stdin'[j] = stdin[j]
        /\ stdin'[n + 1] = line
    BY <1>1, <2>1, AppendProperties
  <2>3. DOMAIN stdin' = 1..(n + 1) /\ (stdin = <<>> => n = 0)
    BY <1>1, <2>2, LenProperties, EmptySeq
  <2>4. \A k \in 1..(n + 1) : k \in 1..n \/ k = n + 1
    BY <1>1
  <2>5. QED
    BY <1>1, <2>1, <2>2, <2>3, <2>4 DEF S
<1>4. QED
  BY <1>2, <1>3

LEMMA WrittenPipes ==
  ASSUME IndInv, NEW a \in Actions, pc[a] = "writing", NEW line \in {Request(a), Torn},
         stdin' = Appended(stdin, line),
         UNCHANGED <<companion, stdout, serving, answer>>
  PROVE  /\ PipesStep
         /\ \A b \in Actions : \A k : NewLine(b, k) => b = a
<1>1. line \in Line \cup {Torn}
  BY RequestIsALine
<1>2. /\ stdin' \in Seq(Line \cup {Torn, Unparsed})
      /\ \A k \in DOMAIN stdin' :
           \/ stdin'[k] = Unparsed
           \/ k \in DOMAIN stdin /\ stdin'[k] = stdin[k]
           \/ k = Len(stdin) + 1 /\ stdin'[k] = line /\ stdin' = Append(stdin, line)
  BY <1>1, AppendedLines
<1>3. ProcessType'
  BY <1>2 DEF IndInv, ProcessType
<1>4. ASSUME NEW k \in DOMAIN stdin'
      PROVE  \/ stdin'[k] \in {Torn, Unparsed}
             \/ k \in DOMAIN stdin /\ stdin'[k] = stdin[k]
             \/ \E b \in Actions : NewLine(b, k)
  BY <1>2 DEF NewLine
<1>5. \A b \in Actions : pc[b] = "writing" => b = a
  BY DEF IndInv, ClientInv, QueueHolds, InFlight, Holds
<1>6. QED
  BY <1>3, <1>4, <1>5 DEF PipesStep, NewLine

LEMMA WriteInv ==
  ASSUME IndInv, NEW a \in Actions, Write(a)
  PROVE  IndInv'
<1>1. /\ pc[a] = "writing" /\ companion = "running" /\ stdin' = Appended(stdin, Request(a))
      /\ Goto(a, "reading")
      /\ UNCHANGED <<todo, found, semaphore, attempt, sent, companion, stdout, serving,
                     answer, backend, screen, disposed, faults>>
  BY DEF Write
<1>2. /\ pc[a] \in Active /\ pc[a] \in InFlight /\ "reading" \in InFlight
      /\ Holds(a) /\ attempt \in {1, 2} /\ sent > 0 /\ sent \in Nat
  BY <1>1 DEF IndInv, ClientInv, ClientType, QueueHolds, Active, InFlight
<1>3. /\ ClientInv' /\ PastReview' = PastReview
      /\ \A b \in Actions : pc'[b] = IF b = a THEN "reading" ELSE pc[b]
      /\ \A b \in Actions : b # a => pc'[b] \notin InFlight
  BY <1>1, <1>2, Starting DEF IndInv
<1>4. PipesStep /\ \A b \in Actions : \A k : NewLine(b, k) => b = a
  BY <1>1, WrittenPipes
<1>5. ASSUME NEW b \in Reviews, Due(b, "review")'
      PROVE  /\ Due(b, "review")
             /\ \/ pc'[b] = pc[b] /\ (pc[b] \in InFlight => attempt' = attempt)
                \/ pc[b] = "writing" /\ pc'[b] = "reading" /\ attempt' = attempt
  BY <1>1, <1>3, <1>5, ReviewsAssumption DEF Due
<1>6. RequestsStep
  <2>1. PastReview' \subseteq reviewed
    BY <1>3 DEF IndInv
  <2>2. KeepsRequests
    BY <1>1, <1>3 DEF KeepsRequests
  <2>3. QED
    BY <1>1, <1>3, <1>4, <1>5, <2>1, <2>2 DEF RequestsStep
<1>7. ~disposed
  BY <1>1 DEF IndInv, NothingRunsAfterDispose
<1>8. faults = 0 => Straight'
  <2>1. ASSUME faults = 0
        PROVE  Straight'
    <3>1. \A b \in Actions : pc[b] # "reading"
      BY <1>1, <1>2 DEF IndInv, ClientInv, QueueHolds, InFlight, Holds
    <3>2. Quiet
      BY <1>7, <2>1, <3>1 DEF IndInv, FaultFree, Straight
    <3>3. Len(stdin') = 1 /\ stdin'[1] = Request(a) /\ Request(a) \in Line /\ Request(a).id = sent
      BY <1>1, <3>2, AppendedLines, RequestIsALine DEF Quiet
    <3>4. stdout' = <<>> /\ serving' = None /\ companion' = "running" /\ sent' = sent
      BY <1>1, <3>2 DEF Quiet
    <3>5. QED
      BY <1>3, <3>3, <3>4 DEF Straight
  <2>2. QED
    BY <2>1
<1>9. /\ disposed' \in BOOLEAN /\ faults' \in 0..MaxFaults /\ faults <= faults' /\ ~disposed'
  BY <1>1, <1>7, FaultsAssumption DEF IndInv, BackendType
<1>10. QED
  BY <1>1, <1>3, <1>4, <1>6, <1>8, <1>9, ClientStep

LEMMA CancelInv ==
  ASSUME IndInv, NEW a \in Actions, Cancel(a)
  PROVE  IndInv'
<1>1. /\ pc[a] \in Active /\ UNCHANGED <<sent, backend, disposed>>
      /\ End(a) \/ (Head(todo[a]) = "optional" /\ Show(a))
      /\ attempt' = IF Holds(a) THEN 0 ELSE attempt
  BY DEF Cancel, Active
<1>2. Finish(a)
  <2>1. todo[a] # <<>>
    BY <1>1 DEF IndInv, ClientInv, TodoHolds
  <2>2. QED
    BY <1>1, <2>1 DEF Finish, Due
<1>3. disposed => companion = "none"
  BY DEF IndInv, NothingRunsAfterDispose
<1>4. CASE disposed /\ UNCHANGED <<faults, process>>
  <2>1. PipesStep /\ NoNewLine /\ companion' = companion
    BY <1>4, SamePipes DEF process
  <2>2. ClientInv' /\ RequestsStep
    BY <1>2, <2>1, FinishRequests DEF NoNewLine
  <2>3. QED
    BY <1>1, <1>3, <1>4, <2>1, <2>2, TroubledStep
<1>5. CASE ~disposed /\ Fault /\ UNCHANGED <<companion, serving, answer>>
  <2>1. ASSUME PipesStep, \A b \in Actions : \A k : NewLine(b, k) => b = a
        PROVE  IndInv'
    <3>1. ClientInv' /\ RequestsStep
      BY <1>2, <2>1, FinishRequests
    <3>2. /\ faults' \in 0..MaxFaults /\ faults <= faults' /\ faults' # 0
          /\ disposed' \in BOOLEAN /\ ~disposed'
      BY <1>1, <1>5, FaultsAssumption DEF Fault, IndInv, BackendType
    <3>3. QED
      BY <1>1, <2>1, <3>1, <3>2, ClientStep
  <2>2. CASE UNCHANGED <<stdin, stdout>>
    <3>1. UNCHANGED process
      BY <1>5, <2>2 DEF process
    <3>2. QED
      BY <2>1, <3>1, SamePipes DEF NoNewLine
  <2>3. CASE /\ pc[a] = "writing" /\ UNCHANGED stdout
             /\ stdin' \in {Appended(stdin, Request(a)), Appended(stdin, Torn)}
    <3>1. PICK line \in {Request(a), Torn} : stdin' = Appended(stdin, line)
      BY <2>3
    <3>2. QED
      BY <1>5, <2>1, <2>3, <3>1, WrittenPipes
  <2>4. CASE /\ stdout # <<>> /\ stdout' = [stdout EXCEPT ![1] = Torn] /\ UNCHANGED stdin
    <3>1. stdout \in Seq(Answer \cup {Torn}) /\ 1 \in 1..Len(stdout)
      BY <2>4, Elements DEF IndInv, ProcessType
    <3>2. /\ stdout' \in Seq(Answer \cup {Torn})
          /\ \A k \in DOMAIN stdout' : stdout'[k] = Torn \/ (k \in DOMAIN stdout /\ stdout'[k] = stdout[k])
      BY <2>4, <3>1, ExceptSeq, LenProperties
    <3>3. ProcessType'
      BY <1>5, <2>4, <3>2 DEF IndInv, ProcessType
    <3>4. PipesStep
      BY <1>5, <2>4, <3>2, <3>3 DEF PipesStep
    <3>5. QED
      BY <2>1, <2>4, <3>4, NothingWritten DEF NoNewLine
  <2>5. QED
    BY <1>5, <2>2, <2>3, <2>4 DEF Cancel
<1>6. QED
  BY <1>4, <1>5 DEF Cancel

LEMMA DisposeInv ==
  ASSUME IndInv, Dispose
  PROVE  IndInv'
<1>1. /\ StopCompanion /\ disposed' = TRUE /\ UNCHANGED <<client, backend, screen, faults>>
  BY DEF Dispose
<1>2. PipesStep /\ NoNewLine /\ companion' = "none"
  BY <1>1, EmptyPipes DEF StopCompanion
<1>3. ClientInv' /\ RequestsStep
  BY <1>1, <1>2, IdleRequests
<1>4. faults' \in 0..MaxFaults /\ faults <= faults'
  BY <1>1, FaultsAssumption DEF IndInv, BackendType
<1>5. QED
  BY <1>1, <1>2, <1>3, <1>4, ClientStep

\* The companion says something, or half of it.
LEMMA SaidPipes ==
  ASSUME IndInv, NEW line \in {answer, Torn}, stdout' = Append(stdout, line),
         stdin' \in {stdin, <<>>}, serving' = None, answer' = Unparsed,
         companion' \in {"running", "exited"}
  PROVE  PipesStep /\ NoNewLine
<1>1. stdout \in Seq(Answer \cup {Torn}) /\ line \in Answer \cup {Torn}
  BY DEF IndInv, ProcessType
<1>2. /\ stdout' \in Seq(Answer \cup {Torn}) /\ Len(stdout') = Len(stdout) + 1
      /\ \A k \in 1..Len(stdout) : stdout'[k] = stdout[k]
      /\ stdout'[Len(stdout) + 1] = line
  BY <1>1, AppendProperties
<1>3. /\ Len(stdout) \in Nat /\ DOMAIN stdout = 1..Len(stdout)
      /\ DOMAIN stdout' = 1..(Len(stdout) + 1)
  BY <1>1, <1>2, LenProperties
<1>4. ASSUME NEW k \in DOMAIN stdout'
      PROVE  stdout'[k] \in {Torn, answer} \/ \E l \in DOMAIN stdout : stdout'[k] = stdout[l]
  <2>1. k \in 1..Len(stdout) \/ k = Len(stdout) + 1
    BY <1>3
  <2>2. QED
    BY <1>2, <1>3, <2>1
<1>5. ProcessType'
  <2>1. Unparsed \in Answer
    BY DEF Unparsed, Answer
  <2>2. QED
    BY <1>2, <2>1, EmptySeq DEF IndInv, ProcessType
<1>6. stdin' = stdin \/ stdin' = <<>>
  OBVIOUS
<1>7. QED
  BY <1>4, <1>5, <1>6, NothingWritten, EmptySeq DEF PipesStep

LEMMA RespondInv ==
  ASSUME IndInv, Respond
  PROVE  IndInv'
<1>1. /\ companion = "running" /\ serving # None /\ serving' = None
      /\ stdout' = Append(stdout, answer) /\ answer' = Unparsed
      /\ UNCHANGED <<client, companion, stdin, backend, screen, disposed, faults>>
  BY DEF Respond, Running
<1>2. PipesStep /\ NoNewLine
  BY <1>1, SaidPipes
<1>3. ClientInv' /\ RequestsStep
  BY <1>1, <1>2, IdleRequests
<1>4. ~disposed
  BY <1>1 DEF IndInv, NothingRunsAfterDispose
<1>5. faults = 0 => Straight'
  <2>1. ASSUME faults = 0
        PROVE  Straight'
    <3>1. UNCHANGED <<pc, sent>>
      BY <1>1 DEF client
    <3>2. /\ \E a \in Actions : pc[a] = "reading"
          /\ stdin = <<>> /\ stdout = <<>> /\ answer.id = sent /\ answer.ok
      BY <1>1, <1>4, <2>1 DEF IndInv, FaultFree, Straight, Quiet
    <3>3. Len(stdout') = 1 /\ stdout'[1] = answer /\ answer \in Answer
      BY <1>1, <3>2 DEF IndInv, ProcessType
    <3>4. QED
      BY <1>1, <3>1, <3>2, <3>3 DEF Straight
  <2>2. QED
    BY <2>1
<1>6. /\ disposed' \in BOOLEAN /\ faults' \in 0..MaxFaults /\ faults <= faults' /\ ~disposed'
  BY <1>1, <1>4, FaultsAssumption DEF IndInv, BackendType
<1>7. QED
  BY <1>1, <1>2, <1>3, <1>5, <1>6, ClientStep

LEMMA DieInv ==
  ASSUME IndInv, Die
  PROVE  IndInv'
<1>1. /\ companion = "running" /\ Fault /\ companion' = "exited" /\ stdin' = <<>>
      /\ stdout' = stdout \/ stdout' = Append(stdout, Torn)
      /\ serving' = None /\ answer' = Unparsed
      /\ UNCHANGED <<client, backend, screen, disposed>>
  BY DEF Die, Running
<1>2. PipesStep /\ NoNewLine
  <2>1. CASE stdout' = Append(stdout, Torn)
    BY <1>1, <2>1, SaidPipes
  <2>2. CASE stdout' = stdout
    <3>1. Unparsed \in Answer
      BY DEF Unparsed, Answer
    <3>2. ProcessType'
      BY <1>1, <2>2, <3>1, EmptySeq DEF IndInv, ProcessType
    <3>3. QED
      BY <1>1, <2>2, <3>2, NothingWritten, EmptySeq DEF PipesStep
  <2>3. QED
    BY <1>1, <2>1, <2>2
<1>3. ClientInv' /\ RequestsStep
  BY <1>1, <1>2, IdleRequests
<1>4. /\ disposed' \in BOOLEAN /\ ~disposed'
      /\ faults' \in 0..MaxFaults /\ faults <= faults' /\ faults' # 0
  BY <1>1, FaultsAssumption DEF Fault, IndInv, BackendType, NothingRunsAfterDispose
<1>5. QED
  BY <1>1, <1>2, <1>3, <1>4, ClientStep

\* The companion takes the first line.
LEMMA TakenLine ==
  ASSUME IndInv, stdin # <<>>, stdin' = Tail(stdin)
  PROVE  /\ stdin' \in Seq(Line \cup {Torn, Unparsed})
         /\ 1 \in DOMAIN stdin /\ Head(stdin) = stdin[1]
         /\ \A k \in DOMAIN stdin' :
              k + 1 \in DOMAIN stdin /\ k + 1 # 1 /\ stdin'[k] = stdin[k + 1]
         /\ Len(stdin) = 1 => stdin' = <<>>
         /\ NoNewLine
<1> DEFINE S == Line \cup {Torn, Unparsed}
           n == Len(stdin)
<1>1. stdin \in Seq(S)
  BY DEF IndInv, ProcessType
<1>2. /\ n \in Nat /\ DOMAIN stdin = 1..n /\ n > 0 /\ Head(stdin) = stdin[1] /\ 1 \in DOMAIN stdin
  BY <1>1, Elements
<1>3. /\ stdin' \in Seq(S) /\ Len(stdin') = n - 1
      /\ \A k \in 1..(n - 1) : stdin'[k] = stdin[k + 1]
  BY <1>1, HeadTailProperties
<1>4. DOMAIN stdin' = 1..(n - 1)
  BY <1>3, LenProperties
<1>5. \A k \in DOMAIN stdin' : k + 1 \in DOMAIN stdin /\ k + 1 # 1 /\ stdin'[k] = stdin[k + 1]
  BY <1>2, <1>3, <1>4
<1>6. n = 1 => stdin' = <<>>
  <2>1. ASSUME n = 1
        PROVE  stdin' = <<>>
    <3>1. Len(stdin') = 0
      BY <1>3, <2>1
    <3>2. QED
      BY <1>3, <3>1, EmptySeq
  <2>2. QED
    BY <2>1
<1>7. ASSUME NEW a \in Actions, NEW k, NewLine(a, k)
      PROVE  FALSE
  <2>1. Request(a) \in S /\ stdin' = Append(stdin, Request(a))
    BY <1>7, RequestIsALine DEF NewLine
  <2>2. Len(stdin') = n + 1
    BY <1>1, <2>1, AppendProperties
  <2>3. QED
    BY <1>2, <1>3, <2>2
<1>8. QED
  BY <1>2, <1>3, <1>5, <1>6, <1>7 DEF NoNewLine

LEMMA ServeStep ==
  ASSUME IndInv, Running, serving = None, stdin # <<>>, NEW line, line = Head(stdin), line # Torn,
         serving' = line, stdin' = Tail(stdin),
         answer' \in Answers', faults' \in 0..MaxFaults, faults <= faults',
         UNCHANGED <<client, companion, stdout, screen, disposed>>,
         reviewed \subseteq reviewed', reviewed' \subseteq Reviews,
         \/ executions' = executions
         \/ \E b \in Reviews : ReviewLine(1, b) /\ executions' = [executions EXCEPT ![b] = @ + 1],
         faults' = 0 /\ line \in Line => answer'.id = line.id /\ answer'.ok
  PROVE  IndInv'
<1>1. /\ companion = "running" /\ ~disposed
      /\ UNCHANGED <<pc, todo, attempt, sent, companion, stdout, disposed>>
  BY DEF Running, IndInv, NothingRunsAfterDispose, client
<1>2. /\ stdin' \in Seq(Line \cup {Torn, Unparsed})
      /\ 1 \in DOMAIN stdin /\ line = stdin[1]
      /\ \A k \in DOMAIN stdin' : k + 1 \in DOMAIN stdin /\ k + 1 # 1 /\ stdin'[k] = stdin[k + 1]
      /\ Len(stdin) = 1 => stdin' = <<>>
      /\ NoNewLine
  BY TakenLine
<1>3. ClientInv' /\ RequestsStep
  BY <1>2, IdleRequests
<1>4. line \in Line \cup {Unparsed}
  BY <1>2, Elements DEF IndInv, ProcessType
<1>5. ProcessType'
  BY <1>1, <1>2, <1>4 DEF IndInv, ProcessType, Answers
<1>6. BackendType'
  BY <1>1 DEF IndInv, BackendType
<1>7. PipesHold'
  <2>1. Lines \subseteq Lines' /\ Answers \subseteq Answers'
    BY <1>3, RequestsKept DEF RequestsStep, ClientInv, ClientType
  <2>2. QED
    BY <1>1, <1>2, <2>1 DEF IndInv, PipesHold
<1>8. PastReview' \subseteq reviewed'
  BY <1>3 DEF RequestsStep
<1>9. \A b \in Reviews : Due(b, "review")' <=> Due(b, "review")
  BY <1>1 DEF Due
<1>10. \A b \in Reviews : \A k \in DOMAIN stdin' : ReviewLine(k, b)' => ReviewLine(k + 1, b)
  BY <1>2 DEF ReviewLine
<1>11. \A b \in Reviews : Written(b)' => Written(b)
  BY <1>2, <1>10 DEF Written
<1>12. \A b \in Reviews : ReviewLine(1, b) => Written(b) /\ ~Written(b)'
  BY <1>2, <1>10 DEF Written, IndInv, ExecutionsHold
<1>13. ASSUME NEW b \in Reviews
       PROVE  \/ executions'[b] = executions[b]
              \/ executions'[b] = executions[b] + 1 /\ Written(b) /\ ~Written(b)'
  BY <1>12 DEF IndInv, BackendType
<1>14. ASSUME NEW b \in Reviews, NEW k \in DOMAIN stdin', NEW l \in DOMAIN stdin',
              ReviewLine(k, b)', ReviewLine(l, b)'
       PROVE  k = l
  <2>1. k + 1 = l + 1
    BY <1>2, <1>10, <1>14 DEF IndInv, ExecutionsHold
  <2>2. k \in Int /\ l \in Int
    BY <1>2, LenProperties
  <2>3. QED
    BY <2>1, <2>2
<1>15. \A b \in Reviews : executions[b] \in Nat /\ attempt \in 0..2
  BY DEF IndInv, BackendType, ClientInv, ClientType
<1>16. ASSUME NEW b \in Reviews
       PROVE  /\ executions'[b] <= 2
              /\ Written(b)' => executions'[b] <= 1
              /\ Due(b, "review")' =>
                   /\ pc'[b] \in {"idle", "waiting"} => executions'[b] = 0 /\ ~Written(b)'
                   /\ pc'[b] = "writing" => executions'[b] < attempt' /\ ~Written(b)'
                   /\ pc'[b] = "reading" => /\ executions'[b] <= attempt'
                                            /\ Written(b)' => executions'[b] < attempt'
  <2>1. /\ executions[b] <= 2
        /\ Written(b) => executions[b] <= 1
        /\ Due(b, "review") =>
             /\ pc[b] \in {"idle", "waiting"} => executions[b] = 0 /\ ~Written(b)
             /\ pc[b] = "writing" => executions[b] < attempt /\ ~Written(b)
             /\ pc[b] = "reading" => /\ executions[b] <= attempt
                                     /\ Written(b) => executions[b] < attempt
    BY DEF IndInv, ExecutionsHold
  <2>2. CASE executions'[b] = executions[b]
    BY <1>1, <1>9, <1>11, <2>1, <2>2
  <2>3. CASE executions'[b] = executions[b] + 1 /\ Written(b) /\ ~Written(b)'
    BY <1>1, <1>9, <1>15, <2>1, <2>3
  <2>4. QED
    BY <1>13, <2>2, <2>3
<1>17. ExecutionsHold'
  BY <1>14, <1>16 DEF ExecutionsHold
<1>18. ASSUME faults' = 0
       PROVE  Singly' /\ Straight'
  <2>1. faults = 0
    BY <1>18, FaultsAssumption DEF IndInv, BackendType
  <2>2. Singly /\ Straight
    BY <1>1, <2>1 DEF IndInv, FaultFree
  <2>3. Singly'
    BY <1>1, <1>9, <1>11, <1>13, <1>15, <2>2, ReviewsAssumption DEF Singly, IndInv, ExecutionsHold
  <2>4. /\ \E a \in Actions : pc[a] = "reading"
        /\ Len(stdin) = 1 /\ stdin[1] \in Line /\ stdin[1].id = sent /\ stdout = <<>>
    BY <2>2 DEF Straight, Quiet
  <2>5. /\ line \in Line /\ line.id = sent /\ serving' # None /\ stdin' = <<>>
        /\ answer'.id = sent /\ answer'.ok
    BY <1>2, <1>18, <2>4, MarksAssumption
  <2>6. Straight'
    BY <1>1, <2>4, <2>5 DEF Straight
  <2>7. QED
    BY <2>3, <2>6
<1>19. QED
  BY <1>1, <1>3, <1>5, <1>6, <1>7, <1>8, <1>17, <1>18 DEF IndInv, FaultFree, NothingRunsAfterDispose

LEMMA ServeInv ==
  ASSUME IndInv, Serve
  PROVE  IndInv'
<1>1. PICK line : line = Head(stdin)
  OBVIOUS
<1>2. /\ Running /\ serving = None /\ stdin # <<>> /\ line # Torn
      /\ serving' = line /\ stdin' = Tail(stdin)
      /\ \/ line = Unparsed /\ answer' = Unparsed /\ UNCHANGED backend
         \/ /\ line # Unparsed
            /\ answer' = [id |-> line.id, ok |-> TRUE,
                          found |-> IF line.command = "search" THEN reviewed ELSE {}]
            /\ IF line.command = "review"
               THEN /\ reviewed' = reviewed \cup {line.of}
                    /\ executions' = [executions EXCEPT ![line.of] = @ + 1]
               ELSE UNCHANGED backend
      /\ UNCHANGED <<client, companion, stdout, screen, disposed, faults>>
  BY <1>1 DEF Serve
<1>3. line = stdin[1] /\ 1 \in DOMAIN stdin
  BY <1>1, <1>2, Elements DEF IndInv, ProcessType
<1>4. UNCHANGED <<pc, todo, sent>>
  BY <1>2 DEF client
<1>5. /\ faults' \in 0..MaxFaults /\ faults <= faults' /\ reviewed \subseteq Reviews
  BY <1>2, FaultsAssumption DEF IndInv, BackendType
<1>6. Unparsed \in Answer /\ ~Unparsed.ok /\ Unparsed \notin Line
  BY DEF Unparsed, Answer, Line
<1>7. CASE line = Unparsed
  <2>1. answer' \in Answers'
    BY <1>2, <1>6, <1>7 DEF Answers
  <2>2. reviewed' = reviewed /\ executions' = executions
    BY <1>2, <1>7 DEF backend
  <2>3. QED
    BY <1>1, <1>2, <1>5, <1>6, <1>7, <2>1, <2>2, ServeStep
<1>8. CASE line # Unparsed
  <2>1. line \in Lines
    BY <1>2, <1>3, <1>8 DEF IndInv, PipesHold
  <2>2. /\ line \in Line /\ line.id \in Nat /\ line.id <= sent
        /\ line.command = "review" => line.of \in Reviews
        /\ line.id = sent => \A a \in Actions :
             /\ pc[a] # "writing"
             /\ pc[a] = "reading" => line.of = a /\ Due(a, line.command)
    BY <2>1 DEF Lines, Line
  <2>3. /\ answer'.id = line.id /\ answer'.ok /\ answer' \in Answer
        /\ line.command = "search" => answer'.found = reviewed
    <3>1. PICK f \in SUBSET Reviews : f = IF line.command = "search" THEN reviewed ELSE {}
      BY <1>5
    <3>2. answer' = [id |-> line.id, ok |-> TRUE, found |-> f]
      BY <1>2, <1>8, <3>1
    <3>3. QED
      BY <2>2, <3>1, <3>2 DEF Answer
  <2>4. /\ reviewed \subseteq reviewed' /\ reviewed' \subseteq Reviews
        /\ line.command = "review" => line.of \in reviewed'
    BY <1>2, <1>5, <1>8, <2>2 DEF backend
  <2>5. /\ \A a \in Actions, c \in Commands : Due(a, c)' <=> Due(a, c)
        /\ PastReview' = PastReview
    BY <1>4 DEF Due, PastReview, RequestsOf, Refresh
  <2>6. ASSUME NEW a \in Actions, line.id = sent
        PROVE  /\ pc'[a] # "writing"
               /\ pc'[a] = "reading" /\ Due(a, "review")' => a \in reviewed'
               /\ pc'[a] = "reading" /\ Due(a, "search")' => PastReview' \subseteq answer'.found
    <3>1. pc'[a] # "writing" /\ (pc'[a] = "reading" => line.of = a /\ Due(a, line.command))
      BY <1>4, <2>2, <2>6
    <3>2. \A c : Due(a, c) /\ Due(a, line.command) => c = line.command
      BY DEF Due
    <3>3. Due(a, "review")' => Due(a, "review")
      BY <2>5 DEF Commands
    <3>4. Due(a, "search")' => Due(a, "search")
      BY <2>5 DEF Commands
    <3>5. PastReview \subseteq reviewed
      BY DEF IndInv
    <3>6. QED
      BY <2>3, <2>4, <2>5, <3>1, <3>2, <3>3, <3>4, <3>5
  <2>7. answer' \in Answers'
    BY <1>4, <2>2, <2>3, <2>6 DEF Answers
  <2>8. \/ executions' = executions
        \/ \E b \in Reviews : ReviewLine(1, b) /\ executions' = [executions EXCEPT ![b] = @ + 1]
    <3>1. CASE line.command = "review"
      <4>1. ReviewLine(1, line.of)
        BY <1>2, <1>3, <1>8, <3>1 DEF ReviewLine
      <4>2. QED
        BY <1>2, <1>8, <2>2, <3>1, <4>1
    <3>2. CASE line.command # "review"
      BY <1>2, <1>8, <3>2 DEF backend
    <3>3. QED
      BY <3>1, <3>2
  <2>9. QED
    BY <1>1, <1>2, <1>5, <2>2, <2>3, <2>4, <2>7, <2>8, ServeStep
<1>9. QED
  BY <1>7, <1>8

LEMMA ServeFailsInv ==
  ASSUME IndInv, ServeFails
  PROVE  IndInv'
<1>1. PICK line : line = Head(stdin)
  OBVIOUS
<1>2. /\ Running /\ serving = None /\ stdin # <<>> /\ line \notin {Torn, Unparsed}
      /\ Fault /\ serving' = line /\ stdin' = Tail(stdin)
      /\ answer' = [id |-> line.id, ok |-> FALSE, found |-> {}]
      /\ UNCHANGED <<client, companion, stdout, backend, screen, disposed>>
  BY <1>1 DEF ServeFails
<1>3. line \in Line
  BY <1>1, <1>2, Elements DEF IndInv, ProcessType
<1>4. answer' \in Answers'
  BY <1>2, <1>3 DEF Answers, Answer, Line
<1>5. /\ faults' \in 0..MaxFaults /\ faults <= faults' /\ faults' # 0 /\ reviewed \subseteq Reviews
  BY <1>2, FaultsAssumption DEF Fault, IndInv, BackendType
<1>6. reviewed' = reviewed /\ executions' = executions
  BY <1>2 DEF backend
<1>7. QED
  BY <1>1, <1>2, <1>4, <1>5, <1>6, ServeStep

-----------------------------------------------------------------------------
(* The theorems.                                                            *)

LEMMA InitInv == Init => IndInv
<1> SUFFICES ASSUME Init
             PROVE  IndInv
  OBVIOUS
<1>1. \A a \in Actions : pc[a] = "idle" /\ todo[a] = RequestsOf(a)
  BY DEF Init
<1>2. \A a \in Actions : RequestsOf(a) \in Seq(Commands) /\ RequestsOf(a) # <<>>
  BY RequestLists
<1>3. Unparsed \in Answer /\ ~Unparsed.ok
  BY DEF Unparsed, Answer
<1>4. semaphore = <<>> /\ semaphore \in Seq(Actions) /\ DOMAIN semaphore = {}
  BY EmptySeq, LenProperties DEF Init
<1>5. ClientType
  <2>1. todo \in [Actions -> Seq(Commands)]
    BY <1>2 DEF Init
  <2>2. QED
    BY <1>4, <2>1 DEF Init, ClientType
<1>6. QueueHolds
  BY <1>1, <1>4 DEF QueueHolds, Active, InFlight
<1>8. TodoHolds
  BY <1>1, <1>2 DEF TodoHolds, Active
<1>9. PastReview = {}
  BY <1>1, ReviewsAssumption DEF PastReview
<1>10. SnapshotsHold
  BY <1>1 DEF Init, SnapshotsHold, Active
<1>11. ProcessType
  <2>1. stdin = <<>> /\ stdout = <<>> /\ companion = "none" /\ serving = None /\ answer = Unparsed
    BY DEF Init
  <2>2. QED
    BY <1>3, <2>1, EmptySeq DEF ProcessType
<1>12. BackendType
  <2>1. executions \in [Reviews -> Nat] /\ reviewed \subseteq Reviews
    BY DEF Init
  <2>2. faults = 0 /\ disposed = FALSE
    BY DEF Init
  <2>3. faults \in 0..MaxFaults
    BY <2>2, FaultsAssumption
  <2>4. disposed \in BOOLEAN
    BY <2>2
  <2>5. QED
    BY <2>1, <2>3, <2>4 DEF BackendType
<1>13. stdin = <<>> /\ stdout = <<>> /\ DOMAIN stdin = {} /\ DOMAIN stdout = {}
  BY DEF Init
<1>14. PipesHold
  BY <1>3, <1>13 DEF Init, PipesHold, Answers
<1>15. ExecutionsHold
  BY <1>1, <1>13, ReviewsAssumption DEF Init, ExecutionsHold, Written
<1>16. Singly /\ Straight
  BY <1>1, <1>13, ReviewsAssumption DEF Init, Singly, Straight, Quiet, Written, InFlight
<1>17. QED
  BY <1>5, <1>6, <1>8, <1>9, <1>10, <1>11, <1>12, <1>14, <1>15, <1>16
  DEF Init, IndInv, ClientInv, FaultFree, NothingRunsAfterDispose

LEMMA StutterInv ==
  ASSUME IndInv, UNCHANGED vars
  PROVE  IndInv'
<1>1. UNCHANGED <<client, process, backend, screen, disposed, faults>>
  BY DEF vars
<1>2. PipesStep /\ NoNewLine
  BY <1>1, SamePipes
<1>3. ClientInv' /\ RequestsStep
  BY <1>1, <1>2, IdleRequests
<1>4. /\ disposed' \in BOOLEAN /\ faults' \in 0..MaxFaults /\ faults <= faults'
      /\ disposed' => companion' = "none"
  BY <1>1, FaultsAssumption DEF IndInv, BackendType, NothingRunsAfterDispose, process
<1>5. faults' = 0 /\ ~disposed' => Straight'
  <2>1. faults = 0 /\ ~disposed => Straight
    BY DEF IndInv, FaultFree
  <2>2. Straight => Straight'
    BY <1>1 DEF Straight, Quiet, client, process
  <2>3. QED
    BY <1>1, <2>1, <2>2
<1>6. QED
  BY <1>1, <1>2, <1>3, <1>4, <1>5, ClientStep

LEMMA NextInv == IndInv /\ [Next]_vars => IndInv'
<1> SUFFICES ASSUME IndInv, [Next]_vars
             PROVE  IndInv'
  OBVIOUS
<1>1. ASSUME NEW a \in Actions, Proceed(a)
      PROVE  IndInv'
  BY <1>1, BeginInv, WriteInv, WriteFailsInv, ReadInv, ReadEndsInv, CancelInv DEF Proceed
<1>2. ASSUME NEW a \in Actions, Click(a) \/ LaunchFails(a) \/ Cancel(a)
      PROVE  IndInv'
  BY <1>2, ClickInv, LaunchFailsInv, CancelInv
<1>3. CASE CompanionStep \/ ServeFails \/ Die \/ Dispose
  BY <1>3, ServeInv, RespondInv, ServeFailsInv, DieInv, DisposeInv DEF CompanionStep
<1>4. CASE UNCHANGED vars
  BY <1>4, StutterInv
<1>5. QED
  BY <1>1, <1>2, <1>3, <1>4 DEF Next

LEMMA Invariance == Spec => []IndInv
BY InitInv, NextInv, PTL DEF Spec

LEMMA FromIndInv ==
  ASSUME IndInv
  PROVE  /\ TypeOK /\ ReportedWasDone /\ ReportedStaysVisible /\ ExecutedAtMostTwice
         /\ NothingRunsAfterDispose
<1>1. TypeOK
  BY DEF IndInv, ClientInv, ClientType, ProcessType, BackendType, TypeOK
<1>2. ReportedWasDone /\ ReportedStaysVisible /\ NothingRunsAfterDispose
  BY DEF IndInv, ClientInv, SnapshotsHold, ReportedWasDone, ReportedStaysVisible
<1>3. ExecutedAtMostTwice
  BY DEF IndInv, ExecutionsHold, FaultFree, Singly, ExecutedAtMostTwice
<1>4. QED
  BY <1>1, <1>2, <1>3

\* The variables hold what their comments say, with any number of actions.
THEOREM TypeCorrect == Spec => []TypeOK
<1>1. IndInv => TypeOK
  BY FromIndInv
<1>2. QED
  BY <1>1, Invariance, PTL

\* A review that the shell reports as done was carried out, however many requests
\* were cancelled and companions killed before (SendCoreAsync).
THEOREM ReportsAreTrue == Spec => []ReportedWasDone
<1>1. IndInv => ReportedWasDone
  BY FromIndInv
<1>2. QED
  BY <1>1, Invariance, PTL

\* A reported review stays on the screen, whatever the refreshes of other actions
\* show after it, as long as its dispatch is among the newest 200 that a search
\* returns (RefreshLiveStateAsync, SemaphoreSlim).
THEOREM ReportsStayVisible == Spec => []ReportedStaysVisible
<1>1. IndInv => ReportedStaysVisible
  BY FromIndInv
<1>2. QED
  BY <1>1, Invariance, PTL

\* A review is executed twice at most, and once if nothing went wrong
\* (SendWithRestartAsync).
THEOREM TwiceAtMost == Spec => []ExecutedAtMostTwice
<1>1. IndInv => ExecutedAtMostTwice
  BY FromIndInv
<1>2. QED
  BY <1>1, Invariance, PTL

\* No companion runs once the client is disposed of (DisposeAsync).
THEOREM DisposedForGood == Spec => []NothingRunsAfterDispose
<1>1. IndInv => NothingRunsAfterDispose
  BY FromIndInv
<1>2. QED
  BY <1>1, Invariance, PTL
=============================================================================
