--------------------------- MODULE ProgramProofs ---------------------------
(***************************************************************************)
(* Theorems about the parse of a program, for every program, every set of   *)
(* blocks, tool library, increment, clearance and depth limit.              *)
(*                                                                         *)
(* First the calls of run_range: their depth. Then the interpreter: what a   *)
(* list of moves becomes, what a firing of a cycle looks like, what events   *)
(* and epochs tell a reader; from these the invariant ParseInv, kept by      *)
(* every way through execute. Last the whole parse, whose calls stay inside  *)
(* the program, so that every block executed is one of its blocks.           *)
(***************************************************************************)
EXTENDS Parse, SharedLemmas

(* A step of the parse of a text is a step of its program's.                *)
LEMMA StepsOfProgram == [ParseNext]_parseVars => [ProgramNext]_programVars
  BY DEF ParseNext, parseVars

\* The stack is a sequence; of what its frames hold nothing is needed.
IsStack == \E S : stack \in Seq(S)

CallInv == IsStack /\ DepthBounded
-----------------------------------------------------------------------------
(* A prefix of a sequence, as long as asked for.                            *)
LEMMA PrefixOf ==
  ASSUME NEW S, NEW s \in Seq(S), NEW n \in Nat, n <= Len(s)
  PROVE  SubSeq(s, 1, n) \in Seq(S) /\ Len(SubSeq(s, 1, n)) = n
<1>1. Len(s) \in Nat /\ DOMAIN s = 1 .. Len(s)
  BY LenProperties
<1>2. DOMAIN SubSeq(s, 1, n) = 1 .. n
  BY <1>1
<1>3. SubSeq(s, 1, n) \in Seq(S)
  BY <1>1
<1>4. QED
  BY <1>2, <1>3, LenProperties

(* Leaving a range: one call fewer.                                         *)
LEMMA FrontOfStack ==
  ASSUME NEW S, NEW s \in Seq(S), s # <<>>
  PROVE  Front(s) \in Seq(S) /\ Len(Front(s)) = Len(s) - 1
<1>1. Len(s) - 1 \in Nat /\ Len(s) - 1 <= Len(s)
  BY EmptySeq, LenProperties
<1>2. QED
  BY <1>1, PrefixOf DEF Front

(* Changing one frame of a stack leaves a stack of the same depth.          *)
LEMMA FrameChanged ==
  ASSUME NEW S, NEW s \in Seq(S), NEW n, NEW v
  PROVE  \E T : [s EXCEPT ![n] = v] \in Seq(T) /\ Len([s EXCEPT ![n] = v]) = Len(s)
<1> DEFINE T == S \cup {v}
           u == [s EXCEPT ![n] = v]
<1>1. s \in [1 .. Len(s) -> S] /\ Len(s) \in Nat
  BY LenProperties
<1>2. u \in [1 .. Len(s) -> T]
  BY <1>1
<1>3. u \in Seq(T)
  BY <1>1, <1>2, SeqDef
<1>4. Len(u) = Len(s)
  BY <1>1, <1>2, <1>3, LenProperties
<1>5. QED
  BY <1>3, <1>4
-----------------------------------------------------------------------------
(* At first one range is open, or none if the text is refused.              *)
LEMMA InitCalls == ProgramInit \/ ParseInit => CallInv
<1>refused. ASSUME stack = <<>> PROVE CallInv
  <2>1. <<>> \in Seq({}) /\ Len(<<>>) = 0
    OBVIOUS
  <2>2. 0 <= MaxDepth + 1
    BY ProgramAssumption DEF ProgramAssumption
  <2> QED BY <1>refused, <2>1, <2>2 DEF CallInv, IsStack, DepthBounded
<1> SUFFICES ASSUME stack = <<Frame(1, Len(program))>> PROVE CallInv
  BY <1>refused DEF ParseInit, ProgramInit
<1> DEFINE f == Frame(1, Len(program))
<1>1. stack = <<f>>
  OBVIOUS
<1>2. <<f>> \in Seq({f}) /\ Len(<<f>>) = 1
  OBVIOUS
<1>3. Len(stack) <= MaxDepth + 1
  BY <1>1, <1>2, ProgramAssumption DEF ProgramAssumption
<1>4. QED
  BY <1>1, <1>2, <1>3 DEF CallInv, IsStack, DepthBounded

(* Only EnterBody deepens the stack, and only from within the limit.        *)
LEMMA NextCalls == CallInv /\ [ProgramNext]_programVars => CallInv'
<1> SUFFICES ASSUME CallInv, [ProgramNext]_programVars
             PROVE  CallInv'
  OBVIOUS
<1>1. PICK S : stack \in Seq(S)
  BY DEF CallInv, IsStack
<1>2. Len(stack) \in Nat /\ MaxDepth \in Nat /\ Len(stack) <= MaxDepth + 1
  BY <1>1, LenProperties, ProgramAssumption DEF CallInv, DepthBounded, ProgramAssumption
<1>3. SUFFICES \E T : stack' \in Seq(T) /\ Len(stack') <= MaxDepth + 1
  BY DEF CallInv, IsStack, DepthBounded
<1>advance. ASSUME stack' = Advanced PROVE \E T : stack' \in Seq(T) /\ Len(stack') <= MaxDepth + 1
  <2> DEFINE v == [stack[Len(stack)] EXCEPT !.index = @ + 1]
  <2>1. stack' = [stack EXCEPT ![Len(stack)] = v]
    BY <1>advance DEF Advanced
  <2>2. QED
    BY <1>1, <1>2, <2>1, FrameChanged
<1>leave. ASSUME stack # <<>>, stack' = Front(stack)
          PROVE  \E T : stack' \in Seq(T) /\ Len(stack') <= MaxDepth + 1
  BY <1>1, <1>2, <1>leave, FrontOfStack
<1>4. CASE ExecuteBlock
  BY <1>4, <1>advance DEF ExecuteBlock
<1>5. CASE Stop
  BY <1>5, <1>leave DEF Stop, AtBlock, Running
<1>6. CASE Return
  BY <1>6, <1>leave DEF Return, Running
<1>7. CASE BeginCall
  <2>1. \/ stack' = Advanced
        \/ stack' = [stack EXCEPT ![Len(stack)].repeats = Word(Current, "l", 1)]
    BY <1>7 DEF BeginCall
  <2>2. ASSUME stack' = [stack EXCEPT ![Len(stack)].repeats = Word(Current, "l", 1)]
        PROVE  \E T : stack' \in Seq(T) /\ Len(stack') <= MaxDepth + 1
    <3> DEFINE v == [stack[Len(stack)] EXCEPT !.repeats = Word(Current, "l", 1)]
    <3>1. stack' = [stack EXCEPT ![Len(stack)] = v]
      BY <2>2
    <3>2. QED
      BY <1>1, <1>2, <3>1, FrameChanged
  <2>3. QED
    BY <2>1, <2>2, <1>advance
<1>8. CASE EnterBody
  <2>1. PICK caller, body : stack' = Append(Append(Front(stack), caller), body)
    BY <1>8 DEF EnterBody
  <2>2. Len(stack) <= MaxDepth /\ stack # <<>>
    BY <1>8, <1>2 DEF EnterBody, TooDeep, Running
  <2> DEFINE T == S \cup {caller, body}
  <2>3. Front(stack) \in Seq(T) /\ Len(Front(stack)) = Len(stack) - 1
    <3>1. stack \in Seq(T)
      BY <1>1
    <3>2. QED
      BY <3>1, <2>2, FrontOfStack
  <2>4. /\ Append(Front(stack), caller) \in Seq(T)
        /\ Len(Append(Front(stack), caller)) = Len(stack)
    BY <1>2, <2>3, AppendProperties
  <2>5. /\ stack' \in Seq(T)
        /\ Len(stack') = Len(stack) + 1
    BY <1>2, <2>1, <2>4, AppendProperties
  <2>6. QED
    BY <1>2, <2>2, <2>5
<1>9. CASE CallFails
  BY <1>1, <1>2, <1>9 DEF CallFails
<1>10. CASE UNCHANGED programVars
  BY <1>1, <1>2, <1>10 DEF programVars
<1>11. QED
  BY <1>4, <1>5, <1>6, <1>7, <1>8, <1>9, <1>10 DEF ProgramNext, Finished

(* However the bodies of a program call each other or themselves, no more   *)
(* calls are ever open than the limit allows: the Rust recursion of         *)
(* run_range is bounded for every program.                                  *)
THEOREM CallsBounded == ProgramSpec \/ ParseSpec => []DepthBounded
<1>1. CallInv => DepthBounded
  BY DEF CallInv
<1>2. QED
  BY InitCalls, NextCalls, StepsOfProgram, <1>1, PTL DEF ProgramSpec, ParseSpec
-----------------------------------------------------------------------------
(* What moves become. A list of segments leads from one place to another.    *)
Point == [Axis -> Int]

Aimed == [kind : {"rapid", "linear", "arc"}, to : Point, step : Nat \cup {None}]

Leads(s, from, to) ==
  /\ Len(s) \in Nat
  /\ Len(s) = 0 => from = to
  /\ Len(s) > 0 => s[1].start = from /\ s[Len(s)].end = to
  /\ \A i \in 1 .. Len(s) - 1 : s[i].end = s[i + 1].start

(* Two stretches, the second from where the first ends, are one.            *)
LEMMA LeadsOn ==
  ASSUME NEW S, NEW s \in Seq(S), NEW t \in Seq(S), NEW from, NEW via, NEW to,
         Leads(s, from, via), Leads(t, via, to)
  PROVE  Leads(s \o t, from, to)
<1> DEFINE u == s \o t
<1>1. /\ Len(u) = Len(s) + Len(t) /\ Len(s) \in Nat /\ Len(t) \in Nat
      /\ \A i \in 1 .. Len(s) : u[i] = s[i]
      /\ \A i \in 1 .. Len(t) : u[Len(s) + i] = t[i]
  OBVIOUS
<1> HIDE DEF u
<1>2. Len(u) = 0 => from = to
  BY <1>1 DEF Leads
<1>3. Len(u) > 0 => u[1].start = from
  <2>1. CASE Len(s) > 0
    BY <1>1, <2>1 DEF Leads
  <2>2. CASE Len(s) = 0
    <3>1. Len(t) > 0 => u[0 + 1] = t[1]
      BY <1>1, <2>2
    <3> QED BY <1>1, <2>2, <3>1 DEF Leads
  <2> QED BY <1>1, <2>1, <2>2
<1>4. Len(u) > 0 => u[Len(u)].end = to
  <2>1. CASE Len(t) > 0
    BY <1>1, <2>1 DEF Leads
  <2>2. CASE Len(t) = 0
    BY <1>1, <2>2 DEF Leads
  <2> QED BY <1>1, <2>1, <2>2
<1>5. ASSUME NEW i \in 1 .. Len(u) - 1 PROVE u[i].end = u[i + 1].start
  <2>1. CASE i < Len(s)
    BY <1>1, <2>1 DEF Leads
  <2>2. CASE i = Len(s)
    <3>1. Len(t) > 0 /\ u[i + 1] = t[1] /\ u[i] = s[i]
      BY <1>1, <2>2
    <3> QED BY <1>1, <2>2, <3>1 DEF Leads
  <2>3. CASE i > Len(s)
    <3>1. PICK j \in 1 .. Len(t) - 1 : i = Len(s) + j
      <4>1. i - Len(s) \in 1 .. Len(t) - 1 /\ i = Len(s) + (i - Len(s))
        BY <1>1, <2>3
      <4> QED BY <4>1
    <3>2. u[i] = t[j] /\ u[i + 1] = t[j + 1]
      <4>1. i + 1 = Len(s) + (j + 1) /\ j \in 1 .. Len(t) /\ j + 1 \in 1 .. Len(t)
        BY <1>1, <3>1
      <4> QED BY <1>1, <3>1, <4>1
    <3> QED BY <3>2 DEF Leads
  <2> QED BY <1>1, <2>1, <2>2, <2>3
<1> QED BY <1>1, <1>2, <1>3, <1>4, <1>5 DEF Leads, u

(* The segments of the first k moves and the k-th's.                         *)
Emits(h, E, m, at, ms) ==
  /\ h \in [0 .. Len(ms) -> Seq(E)]
  /\ h[0] = <<>>
  /\ \A k \in 1 .. Len(ms) : h[k] = h[k - 1] \o Kept(segment(m, at, ms, k))
  /\ Emitted(m, at, ms) = h[Len(ms)]

(* The segments of a list of moves, move by move.                           *)
LEMMA EmittedSteps ==
  ASSUME NEW m, NEW at, NEW ms \in Seq(Aimed)
  PROVE  \E E : \E h : Emits(h, E, m, at, ms)
<1> DEFINE n == Len(ms)
           E == {segment(m, at, ms, i) : i \in 1 .. n}
           f == [i \in 1 .. n |-> Kept(segment(m, at, ms, i))]
<1>1. n \in Nat /\ DOMAIN ms = 1 .. n
  OBVIOUS
<1>2. f \in [1 .. n -> Seq(E)]
  <2>1. ASSUME NEW i \in 1 .. n PROVE Kept(segment(m, at, ms, i)) \in Seq(E)
    <3>1. segment(m, at, ms, i) \in E
      OBVIOUS
    <3> HIDE DEF E
    <3> QED BY <3>1 DEF Kept
  <2> QED BY <2>1
<1>3. PICK h : Flattens(h, E, n, f)
  <2> HIDE DEF f, E, n
  <2> QED BY <1>1, <1>2, FlattenSteps
<1>4. Emitted(m, at, ms) = FlattenSeq(f)
  BY <1>1 DEF Emitted
<1>5. [i \in 1 .. n |-> f[i]] = f /\ n \in 0 .. n
  BY <1>1
<1>6. \A k \in 1 .. n : f[k] = Kept(segment(m, at, ms, k))
  OBVIOUS
<1> HIDE DEF f, E
<1>7. Emits(h, E, m, at, ms)
  BY <1>3, <1>4, <1>5, <1>6 DEF Emits, Flattens
<1> QED BY <1>7

(* The segments lead from where the tool was to where the moves end,        *)
(* although moves that go nowhere have none.                                *)
LEMMA EmittedLeads ==
  ASSUME NEW m, NEW at, NEW ms \in Seq(Aimed)
  PROVE  Leads(Emitted(m, at, ms), at, End(at, ms))
<1> DEFINE n == Len(ms)
           reached(k) == IF k = 0 THEN at ELSE ms[k].to
<1>1. PICK E : \E h : Emits(h, E, m, at, ms)
  BY EmittedSteps
<1>2. PICK h : Emits(h, E, m, at, ms)
  BY <1>1
<1>h. /\ h \in [0 .. n -> Seq(E)]
      /\ h[0] = <<>>
      /\ \A k \in 1 .. n : h[k] = h[k - 1] \o Kept(segment(m, at, ms, k))
      /\ Emitted(m, at, ms) = h[n]
  BY <1>2 DEF Emits
<1>n. n \in Nat
  OBVIOUS
<1> DEFINE G == {k \in 0 .. n : Leads(h[k], at, reached(k))}
<1>3. 0 \in G
  BY <1>h, <1>n DEF Leads
<1>4. ASSUME NEW k \in 0 .. n - 1, k \in G PROVE k + 1 \in G
  <2> DEFINE s == segment(m, at, ms, k + 1)
  <2>1. k + 1 \in 1 .. n /\ (k + 1) - 1 = k /\ k \in 0 .. n /\ k + 1 \in 0 .. n
    BY <1>n
  <2>2. h[k + 1] = h[k] \o Kept(s) /\ h[k] \in Seq(E)
    BY <1>h, <2>1
  <2>3. s.start = reached(k) /\ s.end = reached(k + 1)
    BY <2>1 DEF segment
  <2> HIDE DEF s
  <2>4. Leads(Kept(s), reached(k), reached(k + 1))
    BY <2>3 DEF Kept, Leads
  <2>5. Kept(s) \in Seq(E \cup {s}) /\ h[k] \in Seq(E \cup {s})
    <3>1. h[k] \in Seq(E \cup {s})
      BY <2>2
    <3>2. <<s>> \in Seq(E \cup {s}) /\ <<>> \in Seq(E \cup {s})
      OBVIOUS
    <3>3. Kept(s) = <<s>> \/ Kept(s) = <<>>
      BY DEF Kept
    <3> QED BY <3>1, <3>2, <3>3
  <2>6. Leads(h[k], at, reached(k))
    BY <1>4
  <2> HIDE DEF reached
  <2>7. Leads(h[k] \o Kept(s), at, reached(k + 1))
    BY <2>4, <2>5, <2>6, LeadsOn
  <2> QED BY <2>1, <2>2, <2>7
<1> HIDE DEF G
<1>5. n \in G
  <2>1. \A k \in 0 .. n : k \in G
    BY <1>3, <1>4, <1>n, Induction
  <2> QED BY <2>1, <1>n
<1>6. reached(n) = End(at, ms)
  BY DEF End, Last
<1> QED BY <1>h, <1>5, <1>6 DEF G
-----------------------------------------------------------------------------
(* Which moves the segments are of: those that are kept, in their order.     *)
Picks(idx, s, k, m, at, ms) ==
  /\ idx \in [1 .. Len(s) -> 1 .. k]
  /\ \A i, j \in 1 .. Len(s) : i < j => idx[i] < idx[j]
  /\ \A i \in 1 .. Len(s) : s[i] = segment(m, at, ms, idx[i])
  /\ \A j \in 1 .. k : Kept(segment(m, at, ms, j)) # <<>> => \E i \in 1 .. Len(s) : idx[i] = j

(* The segments of a list of moves are those of the kept ones.              *)
LEMMA EmittedPicks ==
  ASSUME NEW m, NEW at, NEW ms \in Seq(Aimed)
  PROVE  /\ \E S : Emitted(m, at, ms) \in Seq(S)
         /\ \E idx : Picks(idx, Emitted(m, at, ms), Len(ms), m, at, ms)
<1> DEFINE n == Len(ms)
<1>1. PICK E : \E h : Emits(h, E, m, at, ms)
  BY EmittedSteps
<1>2. PICK h : Emits(h, E, m, at, ms)
  BY <1>1
<1>h. /\ h \in [0 .. n -> Seq(E)]
      /\ h[0] = <<>>
      /\ \A k \in 1 .. n : h[k] = h[k - 1] \o Kept(segment(m, at, ms, k))
      /\ Emitted(m, at, ms) = h[n]
  BY <1>2 DEF Emits
<1>n. n \in Nat
  OBVIOUS
<1> DEFINE G == {k \in 0 .. n : \E idx : Picks(idx, h[k], k, m, at, ms)}
<1>3. 0 \in G
  <2>1. Picks([i \in 1 .. 0 |-> 1], h[0], 0, m, at, ms)
    BY <1>h DEF Picks
  <2> QED BY <2>1, <1>n
<1>4. ASSUME NEW k \in 0 .. n - 1, k \in G PROVE k + 1 \in G
  <2>1. k + 1 \in 1 .. n /\ (k + 1) - 1 = k /\ k \in 0 .. n /\ k + 1 \in 0 .. n /\ k \in Nat
    BY <1>n
  <2> DEFINE s == segment(m, at, ms, k + 1)
             u == h[k]
             v == h[k + 1]
  <2>2. v = u \o Kept(s)
    BY <1>h, <2>1
  <2>3. u \in Seq(E)
    BY <1>h, <2>1
  <2>4. PICK idx : Picks(idx, u, k, m, at, ms)
    BY <1>4
  <2> HIDE DEF u, v
  <2>5. CASE Kept(s) = <<>>
    <3>1. v = u
      BY <2>2, <2>3, <2>5
    <3>2. ASSUME NEW j \in 1 .. k + 1, Kept(segment(m, at, ms, j)) # <<>>
          PROVE  \E i \in 1 .. Len(v) : idx[i] = j
      <4>1. j # k + 1
        BY <3>2, <2>5
      <4>2. j \in 1 .. k
        BY <4>1, <2>1
      <4> QED BY <3>1, <3>2, <4>2, <2>4 DEF Picks
    <3>3. idx \in [1 .. Len(v) -> 1 .. k + 1]
      BY <2>1, <3>1, <2>4 DEF Picks
    <3> HIDE DEF s
    <3>4. Picks(idx, v, k + 1, m, at, ms)
      BY <3>1, <3>2, <3>3, <2>4 DEF Picks
    <3> QED BY <3>4, <2>1 DEF v
  <2>6. CASE Kept(s) # <<>>
    <3>1. Kept(s) = <<s>>
      BY <2>6 DEF Kept
    <3> DEFINE l == Len(u)
    <3>2. Len(v) = l + 1 /\ l \in Nat /\ v[l + 1] = s /\ \A i \in 1 .. l : v[i] = u[i]
      <4> HIDE DEF s
      <4> QED BY <2>2, <2>3, <3>1
    <3> DEFINE jdx == [i \in 1 .. l + 1 |-> IF i = l + 1 THEN k + 1 ELSE idx[i]]
    <3>3. /\ idx \in [1 .. l -> 1 .. k]
          /\ \A i, j \in 1 .. l : i < j => idx[i] < idx[j]
          /\ \A i \in 1 .. l : u[i] = segment(m, at, ms, idx[i])
          /\ \A j \in 1 .. k : Kept(segment(m, at, ms, j)) # <<>> => \E i \in 1 .. l : idx[i] = j
      BY <2>4 DEF Picks
    <3> HIDE DEF l
    <3>4. \A i \in 1 .. l : jdx[i] = idx[i] /\ jdx[i] \in 1 .. k
      BY <3>2, <3>3
    <3>5. jdx[l + 1] = k + 1
      BY <3>2
    <3>6. jdx \in [1 .. Len(v) -> 1 .. k + 1]
      BY <3>2, <3>3, <2>1
    <3> HIDE DEF jdx
    <3>7. ASSUME NEW i \in 1 .. Len(v), NEW j \in 1 .. Len(v), i < j PROVE jdx[i] < jdx[j]
      <4>1. i \in 1 .. l
        BY <3>2, <3>7
      <4>2. CASE j = l + 1
        BY <4>1, <4>2, <3>4, <3>5, <2>1
      <4>3. CASE j # l + 1
        <5>1. j \in 1 .. l
          BY <4>3, <3>2
        <5> QED BY <4>1, <5>1, <3>3, <3>4, <3>7
      <4> QED BY <4>2, <4>3
    <3>8. ASSUME NEW i \in 1 .. Len(v) PROVE v[i] = segment(m, at, ms, jdx[i])
      <4>1. CASE i = l + 1
        BY <4>1, <3>2, <3>5
      <4>2. CASE i # l + 1
        <5>1. i \in 1 .. l
          BY <4>2, <3>2
        <5> HIDE DEF s
        <5> QED BY <5>1, <3>2, <3>3, <3>4
      <4> QED BY <4>1, <4>2
    <3>9. ASSUME NEW j \in 1 .. k + 1, Kept(segment(m, at, ms, j)) # <<>>
          PROVE  \E i \in 1 .. Len(v) : jdx[i] = j
      <4>1. CASE j = k + 1
        BY <4>1, <3>2, <3>5
      <4>2. CASE j # k + 1
        <5>1. j \in 1 .. k
          BY <4>2, <2>1
        <5>2. PICK i \in 1 .. l : idx[i] = j
          BY <5>1, <3>3, <3>9
        <5>3. i \in 1 .. Len(v)
          BY <3>2
        <5> QED BY <5>2, <5>3, <3>4
      <4> QED BY <4>1, <4>2
    <3> HIDE DEF s
    <3>10. Picks(jdx, v, k + 1, m, at, ms)
      BY <3>6, <3>7, <3>8, <3>9 DEF Picks
    <3> QED BY <3>10, <2>1 DEF v
  <2> QED BY <2>5, <2>6
<1> HIDE DEF G
<1>5. n \in G
  <2>1. \A k \in 0 .. n : k \in G
    BY <1>3, <1>4, <1>n, Induction
  <2> QED BY <2>1, <1>n
<1>6. h[n] \in Seq(E)
  BY <1>h, <1>n
<1> QED BY <1>h, <1>5, <1>6 DEF G

(* What a longer list emits begins with what its beginning emits.            *)
\* The same as \o; the provers expand \o.
Joined(s, t) == s \o t

(* What two lists of moves emit one after the other, they emit as one.      *)
LEMMA EmittedOn ==
  ASSUME NEW m, NEW at, NEW ms \in Seq(Aimed), NEW ns \in Seq(Aimed)
  PROVE  Emitted(m, at, Joined(ms, ns)) = Joined(Emitted(m, at, ms), Emitted(m, End(at, ms), ns))
<1> DEFINE l == Len(ms)
           n == Len(ns)
           all == ms \o ns
           via == End(at, ms)
<1>n. /\ l \in Nat /\ n \in Nat /\ all \in Seq(Aimed) /\ Len(all) = l + n
      /\ \A i \in 1 .. l : all[i] = ms[i]
      /\ \A i \in 1 .. n : all[l + i] = ns[i]
  OBVIOUS
<1> HIDE DEF all, l, n
<1>1. PICK F : \E f : Emits(f, F, m, at, all)
  BY <1>n, EmittedSteps
<1>2. PICK f : Emits(f, F, m, at, all)
  BY <1>1
<1>3. PICK G : \E g : Emits(g, G, m, at, ms)
  BY EmittedSteps
<1>4. PICK g : Emits(g, G, m, at, ms)
  BY <1>3
<1>5. PICK H : \E h : Emits(h, H, m, via, ns)
  BY EmittedSteps
<1>6. PICK h : Emits(h, H, m, via, ns)
  BY <1>5
<1>f. /\ f \in [0 .. l + n -> Seq(F)] /\ f[0] = <<>> /\ Emitted(m, at, all) = f[l + n]
      /\ \A k \in 1 .. l + n : f[k] = f[k - 1] \o Kept(segment(m, at, all, k))
  BY <1>2, <1>n DEF Emits
<1>g. /\ g \in [0 .. l -> Seq(G)] /\ g[0] = <<>> /\ Emitted(m, at, ms) = g[l]
      /\ \A k \in 1 .. l : g[k] = g[k - 1] \o Kept(segment(m, at, ms, k))
  BY <1>4, <1>n DEF Emits, l
<1>h. /\ h \in [0 .. n -> Seq(H)] /\ h[0] = <<>> /\ Emitted(m, via, ns) = h[n]
      /\ \A k \in 1 .. n : h[k] = h[k - 1] \o Kept(segment(m, via, ns, k))
  BY <1>6, <1>n DEF Emits, n
<1>7. ASSUME NEW k \in 1 .. l PROVE segment(m, at, all, k) = segment(m, at, ms, k)
  <2>1. all[k] = ms[k] /\ (k # 1 => all[k - 1] = ms[k - 1])
    BY <1>n
  <2> QED BY <2>1 DEF segment
<1>8. ASSUME NEW k \in 1 .. n PROVE segment(m, at, all, l + k) = segment(m, via, ns, k)
  <2>1. all[l + k] = ns[k]
    BY <1>n
  <2>2. (IF l + k = 1 THEN at ELSE all[(l + k) - 1].to) = IF k = 1 THEN via ELSE ns[k - 1].to
    <3>1. CASE k = 1 /\ l = 0
      BY <3>1, <1>n DEF End, via, l
    <3>2. CASE k = 1 /\ l # 0
      <4>1. (l + k) - 1 = l /\ l + k # 1 /\ l \in 1 .. l
        BY <3>2, <1>n
      <4>2. all[l] = ms[l] /\ via = ms[l].to
        BY <4>1, <1>n DEF End, via, l, Last
      <4> QED BY <3>2, <4>1, <4>2
    <3>3. CASE k # 1
      <4>1. k - 1 \in 1 .. n /\ (l + k) - 1 = l + (k - 1) /\ l + k # 1
        BY <3>3, <1>n
      <4>2. all[l + (k - 1)] = ns[k - 1]
        BY <4>1, <1>n
      <4> QED BY <3>3, <4>1, <4>2
    <3> QED BY <3>1, <3>2, <3>3
  <2> HIDE DEF via
  <2> QED BY <2>1, <2>2 DEF segment
<1> DEFINE A == {k \in 0 .. l : f[k] = g[k]}
<1>9. \A k \in 0 .. l : k \in A
  <2>1. 0 \in A
    BY <1>f, <1>g, <1>n
  <2>2. ASSUME NEW k \in 0 .. l - 1, k \in A PROVE k + 1 \in A
    <3>1. k + 1 \in 1 .. l /\ k + 1 \in 1 .. l + n /\ (k + 1) - 1 = k /\ k + 1 \in 0 .. l
      BY <1>n
    <3>2. f[k + 1] = f[k] \o Kept(segment(m, at, all, k + 1))
      BY <1>f, <3>1
    <3>3. g[k + 1] = g[k] \o Kept(segment(m, at, ms, k + 1))
      BY <1>g, <3>1
    <3>4. f[k] = g[k]
      BY <2>2
    <3>5. segment(m, at, all, k + 1) = segment(m, at, ms, k + 1)
      BY <1>7, <3>1
    <3>6. f[k + 1] = g[k + 1]
      BY <3>2, <3>3, <3>4, <3>5
    <3> QED BY <3>1, <3>6
  <2> HIDE DEF A
  <2> QED BY <2>1, <2>2, <1>n, Induction
<1>10. f[l] = g[l] /\ g[l] \in Seq(G)
  BY <1>9, <1>n, <1>g
<1> DEFINE B == {k \in 0 .. n : f[l + k] = g[l] \o h[k]}
<1>11. \A k \in 0 .. n : k \in B
  <2>1. 0 \in B
    <3>1. g[l] \o <<>> = g[l]
      BY <1>10
    <3>2. l + 0 = l /\ 0 \in 0 .. n
      BY <1>n
    <3>3. h[0] = <<>>
      BY <1>h
    <3>4. f[l + 0] = g[l] \o h[0]
      BY <1>10, <3>1, <3>2, <3>3
    <3> QED BY <3>2, <3>4
  <2>2. ASSUME NEW k \in 0 .. n - 1, k \in B PROVE k + 1 \in B
    <3>1. /\ k + 1 \in 1 .. n /\ l + (k + 1) \in 1 .. l + n /\ (l + (k + 1)) - 1 = l + k
          /\ (k + 1) - 1 = k /\ k \in 0 .. n /\ k + 1 \in 0 .. n
      BY <1>n
    <3> DEFINE s == Kept(segment(m, via, ns, k + 1))
               a == l + (k + 1)
    <3>2. f[a] = f[a - 1] \o Kept(segment(m, at, all, a))
      <4> HIDE DEF a
      <4>1. a \in 1 .. l + n
        BY <3>1 DEF a
      <4> QED BY <1>f, <4>1
    <3>3. h[k + 1] = h[k] \o s
      BY <1>h, <3>1
    <3>4. f[l + k] = g[l] \o h[k]
      BY <2>2
    <3>5. Kept(segment(m, at, all, a)) = s
      BY <1>8, <3>1
    <3>6. h[k] \in Seq(H)
      BY <1>h, <3>1
    <3>7. \E S : s \in Seq(S)
      <4> DEFINE x == segment(m, via, ns, k + 1)
      <4>1. <<x>> \in Seq({x}) /\ <<>> \in Seq({x})
        OBVIOUS
      <4> QED BY <4>1 DEF Kept
    <3>8. PICK S : s \in Seq(S)
      BY <3>7
    <3> HIDE DEF s
    <3>9. (g[l] \o h[k]) \o s = g[l] \o (h[k] \o s)
      <4> DEFINE T == (G \cup H) \cup S
                 x == g[l]
                 y == h[k]
      <4>1. x \in Seq(T) /\ y \in Seq(T) /\ s \in Seq(T)
        BY <1>10, <3>6, <3>8
      <4> HIDE DEF T, x, y
      <4>2. (x \o y) \o s = x \o (y \o s)
        BY <4>1
      <4> QED BY <4>2 DEF x, y
    <3> HIDE DEF a
    <3>10. f[a] = f[l + k] \o s
      BY <3>1, <3>2, <3>5 DEF a
    <3>11. f[a] = g[l] \o h[k + 1]
      BY <3>3, <3>4, <3>9, <3>10
    <3>12. f[l + (k + 1)] = g[l] \o h[k + 1]
      BY <3>11 DEF a
    <3> QED BY <3>1, <3>12
  <2> HIDE DEF B
  <2> QED BY <2>1, <2>2, <1>n, Induction
<1>12. f[l + n] = g[l] \o h[n]
  <2> HIDE DEF B
  <2>0. n \in 0 .. n
    BY <1>n
  <2>1. n \in B
    BY <1>11, <2>0
  <2> QED BY <2>1 DEF B
<1>13. Emitted(m, at, all) = Emitted(m, at, ms) \o Emitted(m, via, ns)
  BY <1>12, <1>f, <1>g, <1>h
<1>14. all = Joined(ms, ns)
  BY DEF Joined, all
<1> HIDE DEF all
<1> QED BY <1>13, <1>14 DEF via, Joined
-----------------------------------------------------------------------------
(* Canned cycles. What an expansion is made of, for any request.             *)

CycleMove == [kind : {"rapid", "linear"}, to : Point]

IsRequest(r) ==
  /\ r.from \in Point /\ r.hole \in Point
  /\ r.bottom \in Int /\ r.r_plane \in Int /\ r.initial_z \in Int
  /\ r.peck \in Int \cup {None} /\ r.chip_break \in Nat \cup {None}

\* A feed, a rapid and a rapid end no lower than the feed.
Airy(s) ==
  \A j \in 1 .. Len(s) - 2 :
    s[j].kind = "linear" /\ s[j + 1].kind = "rapid" /\ s[j + 2].kind = "rapid"
      => s[j + 2].to.z >= s[j].to.z

\* Nothing that follows can be the last of such a triple begun here.
Closed(s) ==
  /\ Len(s) >= 1 /\ s[1].kind = "linear"
  /\ Len(s) >= 2 => ~(s[Len(s) - 1].kind = "linear" /\ s[Len(s)].kind = "rapid")

(* The greater of two numbers.                                              *)
LEMMA MaxOfTwo ==
  ASSUME NEW a \in Int, NEW b \in Int
  PROVE  Max({a, b}) \in Int /\ Max({a, b}) >= a /\ Max({a, b}) >= b /\ Max({a, b}) \in {a, b}
<1>1. \E x \in {a, b} : \A y \in {a, b} : x >= y
  <2>1. CASE a >= b
    BY <2>1
  <2>2. CASE ~(a >= b)
    BY <2>2
  <2> QED BY <2>1, <2>2
<1>2. Max({a, b}) \in {a, b} /\ \A y \in {a, b} : Max({a, b}) >= y
  BY <1>1 DEF Max
<1> QED BY <1>2

(* The moves of the cycles are moves, up or down.                           *)
LEMMA Placed ==
  ASSUME NEW x \in Int, NEW z \in Int
  PROVE  /\ Rapid(x, z) \in CycleMove /\ Rapid(x, z).kind = "rapid" /\ Rapid(x, z).to.z = z
         /\ Feed(x, z) \in CycleMove /\ Feed(x, z).kind = "linear" /\ Feed(x, z).to.z = z
<1>1. [x |-> x, z |-> z] \in [{"x", "z"} -> Int]
  OBVIOUS
<1> QED BY <1>1 DEF Rapid, Feed, CycleMove, Point, Axis

(* A hole has so many pecks, and none if it leads upwards.                  *)
LEMMA PeckCountIsNat ==
  ASSUME NEW r, IsRequest(r), IsPecking(r)
  PROVE  PeckCount(r) \in Nat /\ (PeckCount(r) > 0 => r.bottom < r.r_plane)
<1> DEFINE travel == r.r_plane - r.bottom
<1>1. r.peck \in Int /\ r.peck > 0 /\ travel \in Int
  BY DEF IsRequest, IsPecking
<1>2. CASE travel <= 0
  BY <1>1, <1>2 DEF PeckCount
<1>3. CASE travel > 0
  <2> DEFINE a == travel + r.peck - 1
             q == r.peck
  <2>1. a \in Nat /\ q \in Nat \ {0}
    BY <1>1, <1>3
  <2>2. \A c \in Nat, d \in Nat \ {0} : c \div d \in Nat
    BY SMT
  <2>3. a \div q \in Nat
    <3> HIDE DEF a, q
    <3> QED BY <2>1, <2>2
  <2>4. r.bottom < r.r_plane
    BY <1>3 DEF IsRequest
  <2> QED BY <1>1, <1>3, <2>3, <2>4 DEF PeckCount
<1> QED BY <1>1, <1>2, <1>3

(* Two pecks: no re-entry spans them that is not one of theirs.             *)
LEMMA AiryOn ==
  ASSUME NEW s \in Seq(CycleMove), NEW t \in Seq(CycleMove),
         Airy(s), Closed(s), Airy(t), Closed(t)
  PROVE  Airy(s \o t) /\ Closed(s \o t)
<1> DEFINE u == s \o t
           l == Len(s)
           n == Len(t)
<1>1. /\ Len(u) = l + n /\ l \in Nat /\ n \in Nat /\ l >= 1 /\ n >= 1
      /\ \A i \in 1 .. l : u[i] = s[i]
      /\ \A i \in 1 .. n : u[l + i] = t[i]
  BY DEF Closed
<1> HIDE DEF u
<1>2. u[l + 1].kind = "linear"
  <2>1. 1 \in 1 .. n
    BY <1>1
  <2> QED BY <1>1, <2>1 DEF Closed
<1>3. ASSUME NEW j \in 1 .. Len(u) - 2,
             u[j].kind = "linear", u[j + 1].kind = "rapid", u[j + 2].kind = "rapid"
      PROVE  u[j + 2].to.z >= u[j].to.z
  <2>1. j + 1 # l + 1 /\ j + 2 # l + 1
    BY <1>2, <1>3
  <2>2. CASE j <= l
    <3>1. j \in 1 .. l /\ j + 1 \in 1 .. l /\ j + 2 \in 1 .. l /\ j \in 1 .. l - 2
      BY <1>1, <2>1, <2>2
    <3>2. u[j] = s[j] /\ u[j + 1] = s[j + 1] /\ u[j + 2] = s[j + 2]
      BY <1>1, <3>1
    <3> QED BY <1>3, <3>1, <3>2 DEF Airy
  <2>3. CASE j > l
    <3> DEFINE i == j - l
    <3>1. i \in 1 .. n /\ i + 1 \in 1 .. n /\ i + 2 \in 1 .. n /\ i \in 1 .. n - 2
      BY <1>1, <2>3
    <3>2. j = l + i /\ j + 1 = l + (i + 1) /\ j + 2 = l + (i + 2)
      BY <1>1
    <3>3. u[j] = t[i] /\ u[j + 1] = t[i + 1] /\ u[j + 2] = t[i + 2]
      <4> HIDE DEF i
      <4> QED BY <1>1, <3>1, <3>2
    <3> HIDE DEF i
    <3> QED BY <1>3, <3>1, <3>3 DEF Airy
  <2> QED BY <1>1, <2>2, <2>3
<1>4. u[1].kind = "linear"
  BY <1>1 DEF Closed
<1>5. ~(u[Len(u) - 1].kind = "linear" /\ u[Len(u)].kind = "rapid")
  <2>1. CASE n = 1
    BY <1>1, <1>2, <2>1
  <2>2. CASE n # 1
    <3>1. n \in 1 .. n /\ n - 1 \in 1 .. n /\ Len(u) = l + n /\ Len(u) - 1 = l + (n - 1) /\ n >= 2
      <4> HIDE DEF l, n
      <4> QED BY <1>1, <2>2
    <3>2. u[l + n] = t[n] /\ u[l + (n - 1)] = t[n - 1]
      BY <1>1, <3>1
    <3> QED BY <3>1, <3>2 DEF Closed
  <2> QED BY <2>1, <2>2
<1>6. Airy(u)
  BY <1>3 DEF Airy
<1>7. Closed(u)
  <2>1. Len(u) >= 1
    <3> HIDE DEF l, n
    <3> QED BY <1>1
  <2> QED BY <1>4, <1>5, <2>1 DEF Closed
<1> QED BY <1>6, <1>7 DEF u

(* The moves of the pecks.                                                   *)
LEMMA PecksAreAiry ==
  ASSUME NEW r, IsRequest(r), IsPecking(r)
  PROVE  LET p == PeckMoves(r)
         IN  /\ p \in Seq(CycleMove)
             /\ PeckCount(r) = 0 => p = <<>>
             /\ PeckCount(r) > 0 => /\ Airy(p) /\ Closed(p)
                                    /\ p[1].to.z < r.r_plane
<1> DEFINE n == PeckCount(r)
           x == r.hole.x
           f == [k \in 1 .. n |->
                  LET depth == DepthAfter(r, k)
                  IN  <<Feed(r.hole.x, depth)>>
                        \o (IF depth > r.bottom THEN BetweenPecks(r, depth) ELSE <<>>)]
<1>1. n \in Nat /\ x \in Int /\ r.peck \in Int /\ r.peck > 0
  BY PeckCountIsNat DEF IsRequest, IsPecking, Point, Axis
<1>2. ASSUME NEW k \in 1 .. n
      PROVE  f[k] \in Seq(CycleMove) /\ Airy(f[k]) /\ Closed(f[k]) /\ f[k][1].to.z = DepthAfter(r, k)
  <2> DEFINE d == DepthAfter(r, k)
             F == Feed(x, d)
             b == IF d > r.bottom THEN BetweenPecks(r, d) ELSE <<>>
  <2>1. d \in Int
    <3>1. k * r.peck \in Int
      BY <1>1
    <3>2. r.r_plane - k * r.peck \in Int
      BY <3>1 DEF IsRequest
    <3> QED BY <3>2, MaxOfTwo DEF DepthAfter, IsRequest
  <2>2. F \in CycleMove /\ F.kind = "linear" /\ F.to.z = d
    BY <1>1, <2>1, Placed
  <2>3. \/ b = <<>>
        \/ \E v \in CycleMove, w \in CycleMove : b = <<v, w>> /\ v.kind = "rapid" /\ w.to.z = d
    <3>1. b = <<>> \/ \E c \in Int : b = <<Rapid(x, c), Rapid(x, d)>>
      BY <2>1 DEF BetweenPecks, IsRequest
    <3> QED BY <3>1, <1>1, <2>1, Placed
  <2>4. f[k] = <<F>> \o b
    OBVIOUS
  <2> HIDE DEF F, b, f, d
  <2>5. CASE b = <<>>
    <3>1. f[k] = <<F>>
      BY <2>4, <2>5
    <3> QED BY <3>1, <2>2 DEF Airy, Closed, d
  <2>6. CASE b # <<>>
    <3>1. PICK v \in CycleMove, w \in CycleMove : b = <<v, w>> /\ v.kind = "rapid" /\ w.to.z = d
      BY <2>3, <2>6
    <3>2. <<F>> \in Seq(CycleMove) /\ <<v, w>> \in Seq(CycleMove)
      BY <2>2
    <3>3. Len(f[k]) = 3 /\ f[k][1] = F /\ f[k][2] = v /\ f[k][3] = w /\ f[k] \in Seq(CycleMove)
      BY <2>4, <3>1, <3>2
    <3>4. Airy(f[k])
      <4>1. 1 .. Len(f[k]) - 2 = {1}
        BY <3>3
      <4> QED BY <4>1, <3>1, <3>3, <2>1, <2>2 DEF Airy
    <3>5. Closed(f[k])
      <4>1. Len(f[k]) - 1 = 2
        BY <3>3
      <4> QED BY <3>1, <3>3, <4>1, <2>2 DEF Closed
    <3> QED BY <3>3, <3>4, <3>5, <2>2 DEF d
  <2> QED BY <2>5, <2>6
<1>3. f \in [1 .. n -> Seq(CycleMove)]
  BY <1>2
<1>4. PeckMoves(r) = FlattenSeq(f)
  BY DEF PeckMoves
<1> HIDE DEF f
<1>5. FlattenSeq(f) \in Seq(CycleMove)
  <2> HIDE DEF n
  <2> QED BY <1>1, <1>3, FlattenTyped
<1>6. PICK h : Flattens(h, CycleMove, n, f)
  <2> HIDE DEF n
  <2> QED BY <1>1, <1>3, FlattenSteps
<1>7. /\ h \in [0 .. n -> Seq(CycleMove)] /\ h[0] = <<>>
      /\ \A k \in 1 .. n : h[k] = h[k - 1] \o f[k]
      /\ FlattenSeq(f) = h[n]
  <2>1. [i \in 1 .. n |-> f[i]] = f /\ n \in 0 .. n
    BY <1>1, <1>3
  <2> HIDE DEF n
  <2> QED BY <2>1, <1>6 DEF Flattens
<1>8. CASE n = 0
  BY <1>4, <1>5, <1>7, <1>8
<1>9. CASE n > 0
  <2> DEFINE Fine(p) == Airy(p) /\ Closed(p) /\ p[1] = f[1][1]
             G == {k \in 0 .. n - 1 : Fine(h[k + 1])}
  <2>1. 0 \in G
    <3>1. 1 \in 1 .. n /\ 1 - 1 = 0 /\ 0 \in 0 .. n - 1 /\ 0 + 1 = 1
      BY <1>1, <1>9
    <3>2. h[1] = <<>> \o f[1]
      BY <3>1, <1>7
    <3>3. h[1] = f[1]
      BY <3>1, <3>2, <1>3
    <3>4. Fine(h[0 + 1])
      BY <3>1, <3>3, <1>2
    <3> QED BY <3>1, <3>4
  <2>2. ASSUME NEW k \in 0 .. (n - 1) - 1, k \in G PROVE k + 1 \in G
    <3>1. k + 2 \in 1 .. n /\ (k + 2) - 1 = k + 1 /\ (k + 1) + 1 = k + 2 /\ k + 1 \in 0 .. n - 1 /\ k + 1 \in 0 .. n
      BY <1>1
    <3> DEFINE u == h[k + 1]
               v == f[k + 2]
    <3>2. h[k + 2] = u \o v
      BY <3>1, <1>7
    <3>3. u \in Seq(CycleMove) /\ v \in Seq(CycleMove)
      BY <3>1, <1>7, <1>3
    <3>4. Airy(u) /\ Closed(u) /\ u[1] = f[1][1] /\ Airy(v) /\ Closed(v)
      BY <2>2, <3>1, <1>2
    <3> HIDE DEF u, v
    <3>5. Airy(u \o v) /\ Closed(u \o v)
      BY <3>3, <3>4, AiryOn
    <3>6. (u \o v)[1] = u[1]
      BY <3>3, <3>4 DEF Closed
    <3> QED BY <3>1, <3>2, <3>4, <3>5, <3>6
  <2> HIDE DEF G
  <2>3. \A k \in 0 .. n - 1 : k \in G
    <3>1. n - 1 \in Nat
      BY <1>1, <1>9
    <3> HIDE DEF n
    <3> QED BY <2>1, <2>2, <3>1, Induction
  <2>4. n - 1 \in 0 .. n - 1 /\ (n - 1) + 1 = n
    BY <1>1, <1>9
  <2>5. Fine(h[n])
    BY <2>3, <2>4 DEF G
  <2>6. f[1][1].to.z < r.r_plane
    <3>1. 1 \in 1 .. n /\ r.bottom < r.r_plane
      BY <1>1, <1>9, PeckCountIsNat
    <3>2. f[1][1].to.z = DepthAfter(r, 1)
      BY <3>1, <1>2
    <3>3. 1 * r.peck = r.peck
      BY <1>1
    <3>4. r.r_plane - 1 * r.peck \in Int /\ r.r_plane - 1 * r.peck < r.r_plane /\ r.bottom \in Int /\ r.r_plane \in Int
      BY <1>1, <3>3 DEF IsRequest
    <3>5. DepthAfter(r, 1) \in {r.r_plane - 1 * r.peck, r.bottom}
      BY <3>4, MaxOfTwo DEF DepthAfter
    <3> QED BY <3>1, <3>2, <3>4, <3>5
  <2> QED BY <1>4, <1>5, <1>7, <1>9, <2>5, <2>6
<1> QED BY <1>1, <1>8, <1>9
-----------------------------------------------------------------------------
\* Whether a firing moves at feed at all; where it starts from plays no part.
Feeds(r) == retracts_at_feed(r.kind) \/ ~IsPecking(r) \/ PeckCount(r) > 0

(* What every firing looks like, whichever cycle it is: two rapids come     *)
(* first, re-entries stop where the feed did, and it feeds unless there is  *)
(* nothing to peck.                                                         *)
LEMMA ExpandShape ==
  ASSUME NEW r, IsRequest(r)
  PROVE  LET e == expand(r)
         IN  /\ e \in Seq(CycleMove) /\ Len(e) >= 3
             /\ e[1].kind = "rapid" /\ e[2].kind = "rapid"
             /\ Airy(e)
             /\ Len(e) > 4 => e[2].to # e[3].to
             /\ Feeds(r) <=> \E j \in 1 .. Len(e) : e[j].kind # "rapid"
<1> DEFINE x == r.hole.x
           a == Rapid(x, r.from.z)
           b == Rapid(x, r.r_plane)
           p == IF IsPecking(r) THEN PeckMoves(r) ELSE <<Feed(x, r.bottom)>>
           c == IF retracts_at_feed(r.kind) THEN Feed(x, RetractTo(r)) ELSE Rapid(x, RetractTo(r))
           e == expand(r)
           l == Len(p)
<1>1. x \in Int /\ r.from.z \in Int /\ r.r_plane \in Int /\ RetractTo(r) \in Int /\ r.bottom \in Int
  BY DEF IsRequest, Point, Axis, RetractTo
<1>2. a \in CycleMove /\ b \in CycleMove /\ a.kind = "rapid" /\ b.kind = "rapid" /\ b.to.z = r.r_plane
  BY <1>1, Placed
<1>3. c \in CycleMove /\ (c.kind # "rapid" <=> retracts_at_feed(r.kind))
  BY <1>1, Placed
<1>4. /\ p \in Seq(CycleMove)
      /\ p = <<>> \/ (Airy(p) /\ Closed(p))
      /\ p # <<>> <=> ~IsPecking(r) \/ PeckCount(r) > 0
      /\ Len(p) > 1 => p[1].to.z < r.r_plane
  <2>1. CASE IsPecking(r)
    <3>1. p = PeckMoves(r)
      BY <2>1
    <3>2. PeckCount(r) \in Nat
      BY <2>1, PeckCountIsNat
    <3>3. /\ p \in Seq(CycleMove)
          /\ PeckCount(r) = 0 => p = <<>>
          /\ PeckCount(r) > 0 => Airy(p) /\ Closed(p) /\ p[1].to.z < r.r_plane
      BY <2>1, <3>1, PecksAreAiry
    <3> HIDE DEF p
    <3>4. p # <<>> <=> PeckCount(r) > 0
      BY <3>2, <3>3 DEF Closed
    <3> QED BY <2>1, <3>2, <3>3, <3>4
  <2>2. CASE ~IsPecking(r)
    <3> DEFINE F == Feed(x, r.bottom)
    <3>1. F \in CycleMove /\ F.kind = "linear" /\ p = <<F>>
      BY <1>1, <2>2, Placed
    <3> HIDE DEF F, p
    <3>2. p \in Seq(CycleMove) /\ Len(p) = 1 /\ p[1] = F /\ p # <<>>
      BY <3>1
    <3>3. Airy(p) /\ Closed(p)
      BY <3>1, <3>2 DEF Airy, Closed
    <3> QED BY <2>2, <3>2, <3>3
  <2> QED BY <2>1, <2>2
<1>5. e = (<<a, b>> \o p) \o <<c>>
  BY DEF expand
<1> HIDE DEF a, b, p, c, e
<1>6. /\ e \in Seq(CycleMove) /\ l \in Nat /\ Len(e) = l + 3
      /\ e[1] = a /\ e[2] = b /\ e[l + 3] = c
      /\ \A i \in 1 .. l : e[i + 2] = p[i]
  <2> DEFINE ab == <<a, b>>
             abp == ab \o p
  <2>1. ab \in Seq(CycleMove) /\ Len(ab) = 2 /\ ab[1] = a /\ ab[2] = b
    BY <1>2
  <2>2. l \in Nat /\ p \in Seq(CycleMove)
    BY <1>4
  <2> HIDE DEF ab
  <2>0. /\ abp \in Seq(CycleMove) /\ Len(abp) = Len(ab) + l
        /\ \A i \in 1 .. Len(ab) + l : abp[i] = IF i <= Len(ab) THEN ab[i] ELSE p[i - Len(ab)]
    BY <2>1, <2>2, ConcatProperties
  <2>3. abp \in Seq(CycleMove) /\ Len(abp) = l + 2 /\ abp[1] = a /\ abp[2] = b
    <3> HIDE DEF l, abp
    <3> QED BY <2>0, <2>1, <2>2
  <2>4. \A i \in 1 .. l : abp[i + 2] = p[i]
    <3> TAKE i \in 1 .. l
    <3> HIDE DEF l, abp
    <3>1. i + 2 \in 1 .. Len(ab) + l /\ ~(i + 2 <= Len(ab)) /\ (i + 2) - Len(ab) = i
      BY <2>1, <2>2
    <3> QED BY <2>0, <3>1
  <2>5. <<c>> \in Seq(CycleMove) /\ Len(<<c>>) = 1 /\ <<c>>[1] = c
    BY <1>3
  <2>6. e = abp \o <<c>>
    BY <1>5 DEF ab
  <2> HIDE DEF abp, l
  <2>7. e \in Seq(CycleMove) /\ Len(e) = l + 3 /\ e[l + 3] = c /\ \A i \in 1 .. l + 2 : e[i] = abp[i]
    BY <2>2, <2>3, <2>5, <2>6
  <2> QED BY <2>2, <2>3, <2>4, <2>7
<1>7. Airy(e)
  <2> SUFFICES ASSUME NEW j \in 1 .. Len(e) - 2,
                      e[j].kind = "linear", e[j + 1].kind = "rapid", e[j + 2].kind = "rapid"
               PROVE  e[j + 2].to.z >= e[j].to.z
    BY DEF Airy
  <2>1. j # 1 /\ j # 2
    BY <1>2, <1>6
  <2> DEFINE i == j - 2
  <2>2. i \in Int /\ i >= 1 /\ i + 2 = j /\ i + 1 <= l /\ l \in Nat /\ (i + 1) + 2 = j + 1 /\ (i + 2) + 2 = j + 2
    <3> HIDE DEF l
    <3> QED BY <1>6, <2>1
  <2>3. e[j] = p[i] /\ e[j + 1] = p[i + 1]
    <3>1. i \in 1 .. l /\ i + 1 \in 1 .. l
      BY <2>2
    <3> HIDE DEF i, l
    <3> QED BY <1>6, <2>2, <3>1
  <2>4. p # <<>>
    BY <2>2
  <2>5. Airy(p) /\ Closed(p)
    BY <2>4, <1>4
  <2>6. CASE i + 2 <= l
    <3>1. i + 2 \in 1 .. l /\ i \in 1 .. l - 2
      BY <2>2, <2>6
    <3>2. e[j + 2] = p[i + 2]
      <4> HIDE DEF i, l
      <4> QED BY <1>6, <2>2, <3>1
    <3> HIDE DEF i
    <3> QED BY <2>3, <2>5, <3>1, <3>2 DEF Airy
  <2>7. CASE i + 2 > l
    <3>1. i + 1 = l /\ i = l - 1 /\ l >= 2
      BY <2>2, <2>7
    <3> HIDE DEF i
    <3> QED BY <2>3, <2>5, <3>1 DEF Closed
  <2> QED BY <2>2, <2>6, <2>7
<1>8. Len(e) > 4 => e[2].to # e[3].to
  <2> SUFFICES ASSUME Len(e) > 4 PROVE e[2].to.z # e[3].to.z
    OBVIOUS
  <2>1. l > 1 /\ 1 \in 1 .. l /\ 1 + 2 = 3
    BY <1>6
  <2>2. e[3] = p[1]
    BY <1>6, <2>1
  <2>3. p[1].to.z < r.r_plane /\ p[1] \in CycleMove
    BY <2>1, <1>4
  <2>4. p[1].to.z \in Int
    BY <2>3 DEF CycleMove, Point, Axis
  <2> QED BY <2>2, <2>3, <2>4, <1>1, <1>2, <1>6
<1>9. Feeds(r) <=> \E j \in 1 .. Len(e) : e[j].kind # "rapid"
  <2>1. ASSUME retracts_at_feed(r.kind) PROVE \E j \in 1 .. Len(e) : e[j].kind # "rapid"
    <3>1. l + 3 \in 1 .. Len(e)
      BY <1>6
    <3> QED BY <2>1, <3>1, <1>3, <1>6
  <2>2. ASSUME p # <<>> PROVE \E j \in 1 .. Len(e) : e[j].kind # "rapid"
    <3>1. 1 \in 1 .. l /\ 1 + 2 = 3 /\ p[1].kind = "linear"
      BY <2>2, <1>4 DEF Closed
    <3>2. 3 \in 1 .. Len(e) /\ e[3] = p[1]
      BY <3>1, <1>6
    <3> QED BY <3>1, <3>2
  <2>3. ASSUME NEW j \in 1 .. Len(e), e[j].kind # "rapid", p = <<>> PROVE retracts_at_feed(r.kind)
    <3>1. l = 0 /\ j \in {1, 2, 3}
      BY <2>3, <1>6
    <3> QED BY <2>3, <3>1, <1>2, <1>3, <1>6
  <2> QED BY <2>1, <2>2, <2>3, <1>4 DEF Feeds
<1>10. Len(e) >= 3 /\ e[1].kind = "rapid" /\ e[2].kind = "rapid"
  BY <1>2, <1>6
<1> QED BY <1>6, <1>7, <1>8, <1>9, <1>10 DEF e
-----------------------------------------------------------------------------
(* The machine's state keeps its types, so that what a block makes of it is a *)
(* place.                                                                    *)

IsParameters(c) ==
  c.z \in Int /\ c.r \in Int /\ c.initial_z \in Int /\ c.q \in Int \cup {None}

IsModal(m) ==
  /\ DOMAIN m = {"plane", "distance", "arc_distance", "feed_mode", "units", "cycle_return",
                 "path_control", "work_offset", "tool_length", "motion", "f", "s", "t", "cycle"}
  /\ m.f \in Int \cup {None}
  /\ m.tool_length # None /\ Lengths # None
       => m.tool_length.sign \in Int /\ m.tool_length.h \in DOMAIN Lengths
  /\ m.cycle # None => IsParameters(m.cycle)

Located ==
  /\ position \in Point /\ g92 \in Point
  /\ \A id \in DOMAIN offsets : offsets[id] \in Point

(* A product of integers.                                                   *)
LEMMA ProductIsInt == ASSUME NEW a \in Int, NEW b \in Int PROVE a * b \in Int
  OBVIOUS

(* The origin is a place.                                                   *)
LEMMA OriginIsPoint == Origin \in Point
  BY DEF Origin, Point

(* Reading a block's words keeps the modal state well formed.               *)
LEMMA WordsModal ==
  ASSUME NEW b, IsBlock(b), IsModal(state), ~(Has(b, "tool_length") /\ UnknownOffset(Words(b)))
  PROVE  IsModal(Words(b)) /\ Words(b).work_offset = Word(b, "work_offset", state.work_offset)
<1> DEFINE w == Words(b)
<1>1. DOMAIN w = DOMAIN state
  BY DEF Words
<1>2. /\ w.f = Word(b, "f", state.f) /\ w.work_offset = Word(b, "work_offset", state.work_offset)
      /\ w.tool_length = ToolLength(b, Word(b, "t", state.t)) /\ w.cycle = state.cycle
  BY DEF Words, IsModal
<1> HIDE DEF w
<1>3. w.f \in Int \cup {None}
  BY <1>2 DEF Word, IsModal, IsBlock
<1>4. ASSUME w.tool_length # None, Lengths # None
      PROVE  w.tool_length.sign \in Int /\ w.tool_length.h \in DOMAIN Lengths
  <2>1. CASE Has(b, "tool_length")
    <3>1. w.tool_length.h \in DOMAIN Lengths
      BY <1>4, <2>1 DEF UnknownOffset, w
    <3>2. b.tool_length \in {"G43", "G44", "G49"}
      BY <2>1 DEF IsBlock
    <3>3. \/ w.tool_length = [sign |-> 1, h |-> Word(b, "h", Word(b, "t", state.t))]
          \/ w.tool_length = [sign |-> -1, h |-> Word(b, "h", Word(b, "t", state.t))]
          \/ w.tool_length = None
      BY <1>2, <2>1, <3>2 DEF ToolLength
    <3>4. 1 \in Int /\ -1 \in Int
      OBVIOUS
    <3> QED BY <1>4, <3>1, <3>3, <3>4
  <2>2. CASE ~Has(b, "tool_length")
    <3>1. w.tool_length = state.tool_length
      BY <1>2, <2>2 DEF ToolLength
    <3> QED BY <1>4, <3>1 DEF IsModal
  <2> QED BY <2>1, <2>2
<1> QED BY <1>1, <1>2, <1>3, <1>4 DEF IsModal, w

(* So does its motion group, which changes neither offset nor feed.         *)
LEMMA MotionModal ==
  ASSUME NEW b, NEW m, IsModal(m)
  PROVE  /\ IsModal(Motion(b, m))
         /\ Motion(b, m).work_offset = m.work_offset
         /\ Motion(b, m).f = m.f
<1> DEFINE w == Motion(b, m)
<1>1. DOMAIN w = DOMAIN m
  BY DEF Motion
<1>2. /\ w.f = m.f /\ w.work_offset = m.work_offset /\ w.tool_length = m.tool_length
      /\ w.cycle = None \/ w.cycle = m.cycle
  BY DEF Motion, IsModal
<1> QED BY <1>1, <1>2 DEF IsModal

(* A value in millimetres.                                                  *)
LEMMA InMm ==
  ASSUME NEW m, NEW v \in Int
  PROVE  to_mm(m, v) \in Int
<1>1. Inch \in Int
  BY ResolverAssumption
<1> QED BY <1>1, ProductIsInt DEF to_mm

(* An axis word in millimetres.                                             *)
LEMMA AxisValueIsInt ==
  ASSUME NEW m, NEW b, IsBlock(b), NEW a \in Axis, Has(b, a)
  PROVE  axis_value(m, b, a) \in Int
<1>1. b[a] \in Int
  BY DEF IsBlock, Axis
<1>2. ASSUME Increment # None PROVE b[a] * Increment \in Int
  <2>1. Increment \in Int
    BY <1>2, ResolverAssumption
  <2> QED BY <1>1, <2>1, ProductIsInt
<1> QED BY <1>1, <1>2, InMm DEF axis_value

(* A tool length correction.                                                *)
LEMMA CorrectionIsInt ==
  ASSUME NEW m, IsModal(m)
  PROVE  tool_length_correction(m) \in Int
<1>1. CASE m.tool_length = None \/ Lengths = None
  BY <1>1 DEF tool_length_correction
<1>2. CASE ~(m.tool_length = None \/ Lengths = None)
  <2> DEFINE h == Lengths[m.tool_length.h]
             t == IF m.t \in DOMAIN Lengths THEN Lengths[m.t] ELSE h
  <2>1. h \in Int /\ t \in Int /\ m.tool_length.sign \in Int
    BY <1>2, ResolverAssumption DEF IsModal
  <2>2. h - t \in Int
    BY <2>1
  <2> HIDE DEF h, t
  <2>3. m.tool_length.sign * (h - t) \in Int
    BY <2>1, <2>2, ProductIsInt
  <2> QED BY <1>2, <2>3 DEF tool_length_correction, h, t
<1> QED BY <1>1, <1>2

(* The offsets in force.                                                    *)
LEMMA OffsetIsPoint ==
  ASSUME NEW m, Located
  PROVE  active_offset(m) \in Point /\ frame_offset(m) \in Point
<1>1. active_offset(m) \in Point
  BY OriginIsPoint DEF Located, active_offset
<1>2. \A a \in Axis : active_offset(m)[a] + g92[a] \in Int
  BY <1>1 DEF Located, Point
<1> QED BY <1>1, <1>2 DEF frame_offset, Point

(* Where axis words lead is a place.                                        *)
LEMMA TargetIsPoint ==
  ASSUME NEW m, IsModal(m), NEW b, IsBlock(b), NEW at \in Point, NEW offset \in Point
  PROVE  TargetFrom(m, b, at, offset) \in Point
<1> DEFINE correction == [x |-> 0, z |-> tool_length_correction(m)]
           to(a) == IF ~Has(b, a) THEN at[a]
                    ELSE IF m.distance = "G91" THEN at[a] + axis_value(m, b, a)
                    ELSE axis_value(m, b, a) + offset[a] + correction[a]
<1>1. ASSUME NEW a \in Axis PROVE to(a) \in Int
  <2>1. correction[a] \in Int
    BY CorrectionIsInt DEF Axis
  <2>2. at[a] \in Int /\ offset[a] \in Int
    BY DEF Point
  <2>3. Has(b, a) => axis_value(m, b, a) \in Int
    BY AxisValueIsInt
  <2> HIDE DEF correction
  <2> QED BY <2>1, <2>2, <2>3
<1>2. TargetFrom(m, b, at, offset) = [a \in Axis |-> to(a)]
  BY DEF TargetFrom
<1> HIDE DEF to
<1> QED BY <1>1, <1>2 DEF Point

(* The parameters of a cycle, given or kept.                                *)
LEMMA ParametersTyped ==
  ASSUME NEW m, IsModal(m), NEW b, IsBlock(b), Located
  PROVE  IsParameters(cycle_params(m, b))
<1> DEFINE here == position.z
           before == IF m.cycle # None THEN m.cycle
                     ELSE [z |-> here, r |-> here, q |-> None, p |-> None, initial_z |-> here]
           Level(value, base) ==
             IF m.distance = "G91" THEN base + value ELSE value + frame_offset(m).z
           r == IF Has(b, "r") THEN Level(to_mm(m, b.r), before.initial_z) ELSE before.r
           z == IF Has(b, "z") THEN Level(axis_value(m, b, "z"), r) ELSE before.z
           q == IF Has(b, "q") THEN Magnitude(to_mm(m, b.q)) ELSE before.q
<1>1. here \in Int /\ frame_offset(m).z \in Int
  BY OffsetIsPoint DEF Located, Point, Axis
<1>2. before.z \in Int /\ before.r \in Int /\ before.initial_z \in Int /\ before.q \in Int \cup {None}
  BY <1>1 DEF IsModal, IsParameters
<1> HIDE DEF before, here
<1>3. \A v \in Int, base \in Int : Level(v, base) \in Int
  BY <1>1
<1>4. r \in Int
  <2>1. Has(b, "r") => to_mm(m, b.r) \in Int
    BY InMm DEF IsBlock
  <2> HIDE DEF Level
  <2> QED BY <2>1, <1>2, <1>3
<1>5. z \in Int
  <2>1. Has(b, "z") => axis_value(m, b, "z") \in Int
    BY AxisValueIsInt DEF Axis
  <2> HIDE DEF Level, r
  <2> QED BY <2>1, <1>2, <1>3, <1>4
<1>6. q \in Int \cup {None}
  <2>1. Has(b, "q") => to_mm(m, b.q) \in Int
    BY InMm DEF IsBlock
  <2> QED BY <2>1, <1>2 DEF Magnitude
<1>7. /\ cycle_params(m, b).z = z /\ cycle_params(m, b).r = r /\ cycle_params(m, b).q = q
      /\ cycle_params(m, b).initial_z = before.initial_z
  BY DEF cycle_params, before, here
<1> HIDE DEF z, r, q
<1> QED BY <1>2, <1>4, <1>5, <1>6, <1>7 DEF IsParameters

(* What a cycle is asked to do.                                             *)
LEMMA RequestTyped ==
  ASSUME NEW m, IsModal(m), NEW b, IsBlock(b), Located, NEW from \in Point
  PROVE  IsRequest(Request(m, b, from))
<1> DEFINE c == cycle_params(m, b)
<1>1. IsParameters(c)
  BY ParametersTyped
<1> HIDE DEF c
<1>2. target(m, b, from) \in Point
  BY TargetIsPoint, OffsetIsPoint DEF target
<1>3. ChipBreak \in Nat \cup {None}
  BY ResolverAssumption
<1> QED BY <1>1, <1>2, <1>3 DEF IsRequest, Request, IsParameters, c

(* Where a firing starts from decides nothing about its feeds.               *)
LEMMA FeedsAnywhere ==
  ASSUME NEW m, NEW b, NEW from, NEW at
  PROVE  Feeds(Request(m, b, from)) <=> Feeds(Request(m, b, at))
<1> DEFINE r == Request(m, b, from)
           s == Request(m, b, at)
<1>1. r.kind = s.kind /\ r.peck = s.peck /\ r.r_plane = s.r_plane /\ r.bottom = s.bottom
  BY DEF Request
<1> HIDE DEF r, s
<1>2. IsPecking(r) <=> IsPecking(s)
  BY <1>1 DEF IsPecking
<1>3. PeckCount(r) = PeckCount(s)
  BY <1>1 DEF PeckCount
<1>4. Feeds(r) <=> Feeds(s)
  BY <1>1, <1>2, <1>3 DEF Feeds
<1> QED BY <1>4 DEF r, s
-----------------------------------------------------------------------------
(* The moves of a cycle block: one expansion after the other.                *)

(* Where moves end is a place.                                               *)
LEMMA EndIsPoint ==
  ASSUME NEW at \in Point, NEW ms \in Seq(Aimed)
  PROVE  End(at, ms) \in Point
<1>1. CASE ms = <<>>
  BY <1>1 DEF End
<1>2. CASE ms # <<>>
  <2>1. Len(ms) \in 1 .. Len(ms) /\ Last(ms) = ms[Len(ms)]
    BY <1>2, EmptySeq, LenProperties DEF Last
  <2>2. ms[Len(ms)] \in Aimed
    BY <2>1, ElementOfSeq
  <2> QED BY <1>2, <2>1, <2>2 DEF End, Aimed
<1> QED BY <1>1, <1>2

(* The tagged moves of one firing.                                           *)
LEMMA ProvenanceTyped ==
  ASSUME NEW e \in Seq(CycleMove)
  PROVE  /\ provenance_for(e) \in Seq(Aimed) /\ Len(provenance_for(e)) = Len(e)
         /\ \A i \in 1 .. Len(e) : /\ provenance_for(e)[i].kind = e[i].kind
                                   /\ provenance_for(e)[i].to = e[i].to
                                   /\ provenance_for(e)[i].step = i
<1> DEFINE p == provenance_for(e)
<1>1. DOMAIN e = 1 .. Len(e) /\ Len(e) \in Nat
  BY LenProperties
<1>2. p = [i \in 1 .. Len(e) |-> [kind |-> e[i].kind, to |-> e[i].to, step |-> i]]
  BY <1>1 DEF provenance_for
<1>3. \A i \in 1 .. Len(e) : [kind |-> e[i].kind, to |-> e[i].to, step |-> i] \in Aimed
  <2> SUFFICES ASSUME NEW i \in 1 .. Len(e)
               PROVE  [kind |-> e[i].kind, to |-> e[i].to, step |-> i] \in Aimed
    OBVIOUS
  <2>1. e[i] \in CycleMove /\ i \in Nat
    BY <1>1, ElementOfSeq
  <2> QED BY <2>1 DEF CycleMove, Aimed
<1>4. p \in [1 .. Len(e) -> Aimed]
  BY <1>2, <1>3
<1>5. p \in Seq(Aimed) /\ Len(p) = Len(e)
  BY <1>1, <1>4, SeqDef, LenProperties
<1> QED BY <1>2, <1>5

\* What CycleMoves is: `moves` of every number of repeats.
Firings(moves, m, b) ==
  /\ moves[0] = <<>>
  /\ \A n \in 1 .. Repeats(b) :
       moves[n] = moves[n - 1]
                    \o provenance_for(expand(Request(m, b, End(position, moves[n - 1]))))
  /\ \A n \in 0 .. Repeats(b) : moves[n] \in Seq(Aimed) /\ End(position, moves[n]) \in Point

(* How often a cycle block fires.                                           *)
LEMMA RepeatsIsNat ==
  ASSUME NEW b, IsBlock(b)
  PROVE  Repeats(b) \in Nat
BY DEF Repeats, Word, IsBlock

(* The recursion CycleMoves is defined by has a solution.                    *)
LEMMA CycleMovesSteps ==
  ASSUME NEW m, IsModal(m), NEW b, IsBlock(b), Located
  PROVE  Firings(CycleMoves(m, b), m, b)
<1> DEFINE l == Repeats(b)
           next(y) == y \o provenance_for(expand(Request(m, b, End(position, y))))
           T == [k \in 1 .. l |-> [y \in Seq(Aimed) |-> next(y)]]
           Step(f) == [n \in 0 .. l |-> IF n = 0 THEN <<>> ELSE next(f[n - 1])]
<1>1. l \in Nat
  BY RepeatsIsNat
<1>2. \A y \in Seq(Aimed) : End(position, y) \in Point
  BY EndIsPoint DEF Located
<1>3. \A y \in Seq(Aimed) : next(y) \in Seq(Aimed)
  <2> SUFFICES ASSUME NEW y \in Seq(Aimed) PROVE next(y) \in Seq(Aimed)
    OBVIOUS
  <2> DEFINE r == Request(m, b, End(position, y))
  <2>1. IsRequest(r)
    BY <1>2, RequestTyped
  <2>2. expand(r) \in Seq(CycleMove)
    <3> HIDE DEF r
    <3> QED BY <2>1, ExpandShape
  <2>3. provenance_for(expand(r)) \in Seq(Aimed)
    BY <2>2, ProvenanceTyped
  <2> HIDE DEF r
  <2>4. y \o provenance_for(expand(r)) \in Seq(Aimed)
    BY <2>3, ConcatProperties
  <2> QED BY <2>4 DEF r
<1>4. \A k \in 1 .. l : \A y \in Seq(Aimed) : T[k][y] \in Seq(Aimed) /\ T[k][y] = next(y)
  <2> HIDE DEF next, l
  <2> QED BY <1>3
<1>5. <<>> \in Seq(Aimed)
  OBVIOUS
<1>6. PICK h : Iterates(h, l, <<>>, T)
  <2> HIDE DEF T, l
  <2> QED BY <1>1, <1>4, <1>5, IterationExists
<1>7. h = [k \in 0 .. l |-> IF k = 0 THEN <<>> ELSE T[k][h[k - 1]]]
  BY <1>6 DEF Iterates
<1>8. h[0] = <<>> /\ \A k \in 1 .. l : h[k] = T[k][h[k - 1]]
  <2>1. 0 \in 0 .. l /\ \A k \in 1 .. l : k \in 0 .. l /\ k # 0
    BY <1>1
  <2> HIDE DEF T, l
  <2>2. \A k \in 0 .. l : h[k] = IF k = 0 THEN <<>> ELSE T[k][h[k - 1]]
    BY <1>7
  <2> QED BY <2>1, <2>2
<1>9. \A k \in 0 .. l : h[k] \in Seq(Aimed)
  <2> DEFINE I == {k \in 0 .. l : h[k] \in Seq(Aimed)}
  <2>1. 0 \in I
    <3>1. 0 \in 0 .. l
      BY <1>1
    <3> HIDE DEF T, l
    <3> QED BY <3>1, <1>5, <1>8
  <2>2. ASSUME NEW k \in 0 .. l - 1, k \in I PROVE k + 1 \in I
    <3>1. k + 1 \in 1 .. l /\ (k + 1) - 1 = k /\ k + 1 \in 0 .. l
      BY <1>1
    <3> HIDE DEF T, l
    <3> QED BY <2>2, <3>1, <1>4, <1>8
  <2> HIDE DEF I, l
  <2>3. \A k \in 0 .. l : k \in I
    BY <1>1, <2>1, <2>2, Induction
  <2> QED BY <2>3 DEF I
<1>10. \A k \in 1 .. l : h[k] = next(h[k - 1])
  <2> SUFFICES ASSUME NEW k \in 1 .. l PROVE h[k] = next(h[k - 1])
    OBVIOUS
  <2>1. k - 1 \in 0 .. l
    BY <1>1
  <2> HIDE DEF T, next, l
  <2> QED BY <2>1, <1>4, <1>8, <1>9
<1>11. h = Step(h)
  <2> HIDE DEF T, next, l
  <2>1. DOMAIN h = 0 .. l /\ h = [k \in 0 .. l |-> h[k]]
    BY <1>7
  <2>2. \A k \in 0 .. l : h[k] = IF k = 0 THEN <<>> ELSE next(h[k - 1])
    BY <1>1, <1>8, <1>10
  <2> QED BY <2>1, <2>2
<1> DEFINE M == CycleMoves(m, b)
<1>12. M = CHOOSE f : f = Step(f)
  BY DEF CycleMoves
<1>13. M = Step(M)
  <2> HIDE DEF Step, M
  <2> QED BY <1>11, <1>12
<1> HIDE DEF M
<1>14. M[0] = <<>> /\ \A k \in 1 .. l : M[k] = next(M[k - 1])
  <2> HIDE DEF next, l
  <2> QED BY <1>1, <1>13
<1>15. \A k \in 0 .. l : M[k] \in Seq(Aimed)
  <2> DEFINE I == {k \in 0 .. l : M[k] \in Seq(Aimed)}
  <2>1. 0 \in I
    <3>1. 0 \in 0 .. l
      BY <1>1
    <3> HIDE DEF next, l
    <3> QED BY <3>1, <1>5, <1>14
  <2>2. ASSUME NEW k \in 0 .. l - 1, k \in I PROVE k + 1 \in I
    <3>1. k + 1 \in 1 .. l /\ (k + 1) - 1 = k /\ k + 1 \in 0 .. l
      BY <1>1
    <3> HIDE DEF next, l
    <3> QED BY <2>2, <3>1, <1>3, <1>14
  <2> HIDE DEF I, l
  <2>3. \A k \in 0 .. l : k \in I
    BY <1>1, <2>1, <2>2, Induction
  <2> QED BY <2>3 DEF I
<1> QED BY <1>2, <1>14, <1>15 DEF Firings, M
-----------------------------------------------------------------------------
(* Re-entries: what keeps the segments of one firing from being taken for    *)
(* those of another.                                                         *)

\* ReentryThroughAir of any segments.
Reenters(s) ==
  \A i \in 3 .. Len(s) :
    LET feed == s[i - 2]
        retract == s[i - 1]
        reentry == s[i]
    IN  /\ feed.kind = "linear" /\ retract.kind = "rapid" /\ reentry.kind = "rapid"
        /\ \A x \in {feed, retract, reentry} : x.step # None
        /\ retract.step = feed.step + 1 /\ reentry.step = feed.step + 2
        => reentry.end.z >= feed.end.z

\* A firing feeds from its third move on.
Tagged(s) ==
  \A i \in 1 .. Len(s) : s[i].step # None => /\ s[i].step \in Nat
                                             /\ s[i].kind = "linear" => s[i].step >= 3

\* What a block adds does not begin where a re-entry could end.
Opening(t) ==
  Len(t) >= 1 /\ t[1].step # None => t[1].step <= 4 /\ (t[1].step = 4 => Len(t) = 1)

(* Appending what does not begin where a re-entry could end.                *)
LEMMA ReentersOn ==
  ASSUME NEW S, NEW s \in Seq(S), NEW t \in Seq(S),
         Reenters(s), Tagged(s), Reenters(t), Tagged(t), Opening(t)
  PROVE  Reenters(s \o t) /\ Tagged(s \o t)
<1> DEFINE u == s \o t
           n == Len(s)
<1>1. /\ n \in Nat /\ Len(t) \in Nat /\ Len(u) = n + Len(t)
      /\ \A i \in 1 .. n : u[i] = s[i]
      /\ \A i \in n + 1 .. n + Len(t) : u[i] = t[i - n]
  <2>1. \A i \in 1 .. Len(s) + Len(t) : u[i] = IF i <= Len(s) THEN s[i] ELSE t[i - Len(s)]
    BY ConcatProperties
  <2> QED BY <2>1, ConcatProperties, LenProperties
<1> HIDE DEF u, n
<1>2. Tagged(u)
  <2> SUFFICES ASSUME NEW i \in 1 .. Len(u), u[i].step # None
               PROVE  u[i].step \in Nat /\ (u[i].kind = "linear" => u[i].step >= 3)
    BY DEF Tagged
  <2>1. CASE i <= n
    BY <2>1, <1>1 DEF Tagged, n
  <2>2. CASE i > n
    <3>1. i \in n + 1 .. n + Len(t) /\ i - n \in 1 .. Len(t)
      BY <2>2, <1>1
    <3>2. u[i] = t[i - n]
      BY <3>1, <1>1
    <3> QED BY <3>1, <3>2 DEF Tagged
  <2> QED BY <2>1, <2>2, <1>1
<1>3. Reenters(u)
  <2> DEFINE steps(i) == /\ u[i - 2].kind = "linear"
                         /\ u[i - 1].kind = "rapid" /\ u[i].kind = "rapid"
                         /\ u[i - 2].step # None /\ u[i - 1].step # None /\ u[i].step # None
                         /\ u[i - 1].step = u[i - 2].step + 1 /\ u[i].step = u[i - 2].step + 2
  <2> SUFFICES ASSUME NEW i \in 3 .. Len(u), steps(i)
               PROVE  u[i].end.z >= u[i - 2].end.z
    BY DEF Reenters
  <2>1. i - 2 \in 1 .. Len(u) /\ i - 1 \in 1 .. Len(u) /\ i \in 1 .. Len(u)
    BY <1>1
  <2>2. u[i - 2].step \in Nat /\ u[i - 2].step >= 3
    BY <1>2, <2>1 DEF Tagged
  <2>3. CASE i <= n
    <3>1. i \in 3 .. n /\ i - 2 \in 1 .. n /\ i - 1 \in 1 .. n /\ i \in 1 .. n
      BY <2>3, <1>1
    <3>2. u[i] = s[i] /\ u[i - 1] = s[i - 1] /\ u[i - 2] = s[i - 2]
      BY <3>1, <1>1
    <3> QED BY <3>1, <3>2 DEF Reenters, n
  <2>4. CASE i = n + 1
    <3>1. u[i] = t[1] /\ Len(t) >= 1
      <4>1. i \in n + 1 .. n + Len(t) /\ i - n = 1
        BY <2>4, <1>1
      <4> QED BY <4>1, <1>1
    <3> QED BY <3>1, <2>2 DEF Opening
  <2>5. CASE i = n + 2
    <3>1. u[i - 1] = t[1] /\ Len(t) >= 2
      <4>1. i - 1 \in n + 1 .. n + Len(t) /\ (i - 1) - n = 1 /\ Len(t) >= 2
        BY <2>5, <1>1
      <4> QED BY <4>1, <1>1
    <3> DEFINE v == t[1].step
    <3>2. v # None /\ v = u[i - 2].step + 1
      BY <3>1
    <3>3. v <= 4 /\ (v = 4 => Len(t) = 1)
      BY <3>1, <3>2, <1>1 DEF Opening
    <3> HIDE DEF v
    <3>4. v = 4
      BY <3>2, <3>3, <2>2
    <3>5. Len(t) = 1
      BY <3>3, <3>4
    <3>6. FALSE
      BY <3>1, <3>5
    <3> QED BY <3>6
  <2>6. CASE i >= n + 3
    <3>1. /\ i - n \in 3 .. Len(t) /\ (i - 1) - n = (i - n) - 1 /\ (i - 2) - n = (i - n) - 2
          /\ i \in n + 1 .. n + Len(t) /\ i - 1 \in n + 1 .. n + Len(t) /\ i - 2 \in n + 1 .. n + Len(t)
      <4> HIDE DEF steps
      <4>1. i \in Nat /\ n \in Nat /\ Len(t) \in Nat /\ i <= n + Len(t) /\ i >= n + 3
        BY <2>6, <1>1
      <4>2. i - n \in 3 .. Len(t)
        BY <4>1
      <4>3. (i - 1) - n = (i - n) - 1 /\ (i - 2) - n = (i - n) - 2
        BY <4>1
      <4>4. i \in n + 1 .. n + Len(t) /\ i - 1 \in n + 1 .. n + Len(t) /\ i - 2 \in n + 1 .. n + Len(t)
        BY <4>1
      <4> QED BY <4>2, <4>3, <4>4
    <3>2. u[i] = t[i - n] /\ u[i - 1] = t[(i - n) - 1] /\ u[i - 2] = t[(i - n) - 2]
      <4>1. u[i] = t[i - n]
        BY <3>1, <1>1
      <4>2. u[i - 1] = t[(i - 1) - n]
        BY <3>1, <1>1
      <4>3. u[i - 2] = t[(i - 2) - n]
        BY <3>1, <1>1
      <4> QED BY <3>1, <4>1, <4>2, <4>3
    <3> DEFINE j == i - n
    <3> HIDE DEF j
    <3>3. j \in 3 .. Len(t) /\ u[i] = t[j] /\ u[i - 1] = t[j - 1] /\ u[i - 2] = t[j - 2]
      BY <3>1, <3>2 DEF j
    <3> QED BY <3>3 DEF Reenters
  <2> QED BY <2>3, <2>4, <2>5, <2>6, <1>1
<1> QED BY <1>2, <1>3 DEF u

(* Moves of no cycle neither re-enter nor feed one.                          *)
LEMMA PlainReenters ==
  ASSUME NEW t, \A i \in 1 .. Len(t) : t[i].step = None, Len(t) \in Nat
  PROVE  Reenters(t) /\ Tagged(t) /\ Opening(t)
<1>1. \A i \in 3 .. Len(t) : i \in 1 .. Len(t)
  OBVIOUS
<1>2. Len(t) >= 1 => 1 \in 1 .. Len(t)
  OBVIOUS
<1> QED BY <1>1, <1>2 DEF Reenters, Tagged, Opening

(* One firing.                                                               *)
LEMMA FiringReenters ==
  ASSUME NEW r, IsRequest(r), NEW m, NEW at
  PROVE  LET t == Emitted(m, at, provenance_for(expand(r)))
         IN  Reenters(t) /\ Tagged(t) /\ Opening(t)
<1> DEFINE e == expand(r)
           ms == provenance_for(e)
           t == Emitted(m, at, ms)
<1>1. /\ e \in Seq(CycleMove) /\ Len(e) >= 3 /\ e[1].kind = "rapid" /\ e[2].kind = "rapid"
      /\ Airy(e) /\ (Len(e) > 4 => e[2].to # e[3].to)
  BY ExpandShape
<1> HIDE DEF e
<1>2. /\ ms \in Seq(Aimed) /\ Len(ms) = Len(e) /\ Len(e) \in Nat
      /\ \A i \in 1 .. Len(e) : ms[i].kind = e[i].kind /\ ms[i].to = e[i].to /\ ms[i].step = i
  BY <1>1, ProvenanceTyped, LenProperties
<1> HIDE DEF ms
<1>3. PICK S : t \in Seq(S)
  BY <1>2, EmittedPicks
<1>4. PICK idx : Picks(idx, t, Len(ms), m, at, ms)
  BY <1>2, EmittedPicks
<1>5. Len(t) \in Nat
  BY <1>3, LenProperties
<1> HIDE DEF t
<1>6. /\ \A i \in 1 .. Len(t) : idx[i] \in 1 .. Len(e)
      /\ \A i, j \in 1 .. Len(t) : i < j => idx[i] < idx[j]
      /\ \A i \in 1 .. Len(t) : t[i] = segment(m, at, ms, idx[i])
      /\ \A j \in 1 .. Len(e) : Kept(segment(m, at, ms, j)) # <<>> => \E i \in 1 .. Len(t) : idx[i] = j
  BY <1>2, <1>4 DEF Picks
<1>7. \A i \in 1 .. Len(t) : /\ t[i].kind = e[idx[i]].kind /\ t[i].end = e[idx[i]].to
                             /\ t[i].step = idx[i]
  <2> SUFFICES ASSUME NEW i \in 1 .. Len(t)
               PROVE  t[i].kind = e[idx[i]].kind /\ t[i].end = e[idx[i]].to /\ t[i].step = idx[i]
    OBVIOUS
  <2> DEFINE j == idx[i]
  <2>1. j \in 1 .. Len(e) /\ t[i] = segment(m, at, ms, j)
    BY <1>6
  <2> HIDE DEF j
  <2>2. t[i].kind = ms[j].kind /\ t[i].end = ms[j].to /\ t[i].step = ms[j].step
    BY <2>1 DEF segment
  <2>3. ms[j].kind = e[j].kind /\ ms[j].to = e[j].to /\ ms[j].step = j
    BY <2>1, <1>2
  <2> QED BY <2>2, <2>3 DEF j
<1>8. Tagged(t)
  <2> SUFFICES ASSUME NEW i \in 1 .. Len(t)
               PROVE  t[i].step \in Nat /\ (t[i].kind = "linear" => t[i].step >= 3)
    BY DEF Tagged
  <2>1. idx[i] \in 1 .. Len(e) /\ t[i].kind = e[idx[i]].kind /\ t[i].step = idx[i]
    BY <1>6, <1>7
  <2>2. t[i].kind = "linear" => idx[i] # 1 /\ idx[i] # 2
    BY <2>1, <1>1
  <2> QED BY <2>1, <2>2, <1>2
<1>9. Reenters(t)
  <2> SUFFICES ASSUME NEW i \in 3 .. Len(t),
                      t[i - 2].kind = "linear", t[i - 1].kind = "rapid", t[i].kind = "rapid",
                      t[i - 1].step = t[i - 2].step + 1, t[i].step = t[i - 2].step + 2
               PROVE  t[i].end.z >= t[i - 2].end.z
    BY DEF Reenters
  <2>1. i - 2 \in 1 .. Len(t) /\ i - 1 \in 1 .. Len(t) /\ i \in 1 .. Len(t)
    BY <1>5
  <2> DEFINE j == idx[i - 2]
  <2>2. idx[i - 1] = j + 1 /\ idx[i] = j + 2 /\ j \in 1 .. Len(e) /\ idx[i] \in 1 .. Len(e)
    BY <2>1, <1>6, <1>7
  <2>3. /\ t[i - 2].kind = e[j].kind /\ t[i - 2].end = e[j].to
        /\ t[i - 1].kind = e[j + 1].kind /\ t[i].kind = e[j + 2].kind /\ t[i].end = e[j + 2].to
    BY <2>1, <2>2, <1>7
  <2> HIDE DEF j
  <2>4. j \in 1 .. Len(e) - 2
    BY <2>2, <1>2
  <2> QED BY <2>3, <2>4, <1>1 DEF Airy
<1>10. Opening(t)
  <2> SUFFICES ASSUME Len(t) >= 1
               PROVE  t[1].step <= 4 /\ (t[1].step = 4 => Len(t) = 1)
    BY DEF Opening
  <2>1. 1 \in 1 .. Len(t) /\ t[1].step = idx[1] /\ idx[1] \in 1 .. Len(e)
    BY <1>5, <1>6, <1>7
  <2>2. CASE Len(e) > 4
    <3> DEFINE x == segment(m, at, ms, 3)
    <3>1. 2 \in 1 .. Len(e) /\ 3 \in 1 .. Len(e) /\ 3 - 1 = 2 /\ 3 # 1
      BY <1>2, <2>2
    <3>2. x.start = ms[2].to /\ x.end = ms[3].to
      BY <3>1 DEF segment
    <3>3. x.start # x.end
      BY <2>2, <3>1, <3>2, <1>1, <1>2
    <3>4. Kept(x) # <<>>
      <4> HIDE DEF x
      <4> QED BY <3>3 DEF Kept
    <3>5. PICK i \in 1 .. Len(t) : idx[i] = 3
      BY <3>1, <3>4, <1>6
    <3>6. i = 1 \/ 1 < i
      BY <1>5
    <3>7. idx[1] <= 3
      BY <2>1, <3>5, <3>6, <1>6
    <3> QED BY <2>1, <3>7
  <2>3. CASE Len(e) <= 4
    <3>1. ASSUME idx[1] = 4, Len(t) >= 2 PROVE FALSE
      <4>1. 2 \in 1 .. Len(t) /\ 1 < 2
        BY <3>1, <1>5
      <4>2. idx[1] < idx[2] /\ idx[2] \in 1 .. Len(e)
        BY <2>1, <4>1, <1>6
      <4> QED BY <4>2, <3>1, <2>3, <1>2
    <3>2. idx[1] <= 4 /\ (idx[1] = 4 => ~(Len(t) >= 2))
      BY <2>1, <2>3, <3>1, <1>2
    <3>3. Len(t) >= 2 \/ Len(t) = 1
      BY <1>5
    <3>4. t[1].step <= 4 /\ (t[1].step = 4 => idx[1] = 4)
      BY <2>1, <3>2
    <3> HIDE DEF t
    <3> QED BY <3>2, <3>3, <3>4
  <2> QED BY <2>2, <2>3, <1>2
<1> QED BY <1>8, <1>9, <1>10 DEF t, ms, e
-----------------------------------------------------------------------------
(* What the parse has emitted, and what a block adds to it.                  *)

\* The segments of a parse whose tool is at `to`.
Travel(s, to) ==
  /\ \E S : s \in Seq(S)
  /\ Leads(s, Origin, to)
  /\ \A i \in 1 .. Len(s) : s[i].kind # "rapid" => s[i].feed # None
  /\ Reenters(s) /\ Tagged(s)

\* u is s and segments made under the offset m selects.
Adds(u, s, m) ==
  /\ Len(s) <= Len(u)
  /\ \A i \in 1 .. Len(s) : u[i] = s[i]
  /\ \A i \in Len(s) + 1 .. Len(u) : u[i].offset = active_offset(m)

(* Moves with a feed, if any is a feed move, that open no re-entry.          *)
LEMMA TravelOn ==
  ASSUME NEW s, NEW at, Travel(s, at), NEW m, IsModal(m), NEW ms \in Seq(Aimed),
         m.f = None => \A j \in 1 .. Len(ms) : ms[j].kind = "rapid",
         Reenters(Emitted(m, at, ms)), Tagged(Emitted(m, at, ms)), Opening(Emitted(m, at, ms))
  PROVE  /\ Travel(s \o Emitted(m, at, ms), End(at, ms))
         /\ Adds(s \o Emitted(m, at, ms), s, m)
         /\ Len(Emitted(m, at, ms)) \in Nat
         /\ Len(s \o Emitted(m, at, ms)) = Len(s) + Len(Emitted(m, at, ms))
<1> DEFINE t == Emitted(m, at, ms)
           u == s \o t
           n == Len(s)
<1>1. PICK A : s \in Seq(A)
  BY DEF Travel
<1>2. PICK B : t \in Seq(B)
  BY EmittedPicks
<1>3. PICK idx : Picks(idx, t, Len(ms), m, at, ms)
  BY EmittedPicks
<1>4. Leads(t, at, End(at, ms))
  BY EmittedLeads
<1> HIDE DEF t
<1> DEFINE S == A \cup B
<1>5. s \in Seq(S) /\ t \in Seq(S)
  BY <1>1, <1>2
<1> HIDE DEF S
<1>6. /\ n \in Nat /\ Len(t) \in Nat /\ Len(u) = n + Len(t) /\ u \in Seq(S)
      /\ \A i \in 1 .. n : u[i] = s[i]
      /\ \A i \in n + 1 .. n + Len(t) : i - n \in 1 .. Len(t) /\ u[i] = t[i - n]
  <2>1. /\ \A i \in 1 .. Len(s) + Len(t) : u[i] = IF i <= Len(s) THEN s[i] ELSE t[i - Len(s)]
        /\ u \in Seq(S) /\ Len(u) = Len(s) + Len(t)
    BY <1>5, ConcatProperties
  <2>2. Len(s) \in Nat /\ Len(t) \in Nat
    BY <1>5, LenProperties
  <2> HIDE DEF u
  <2> QED BY <2>1, <2>2
<1>7. Reenters(u) /\ Tagged(u)
  BY <1>5, ReentersOn DEF Travel, t
<1>8. Leads(u, Origin, End(at, ms))
  <2>1. Leads(s, Origin, at)
    BY DEF Travel
  <2> HIDE DEF u
  <2> QED BY <1>4, <1>5, <2>1, LeadsOn DEF u
<1>9. \A j \in 1 .. Len(t) : /\ t[j].kind # "rapid" => t[j].feed # None
                             /\ t[j].offset = active_offset(m)
  <2> SUFFICES ASSUME NEW j \in 1 .. Len(t)
               PROVE  (t[j].kind # "rapid" => t[j].feed # None) /\ t[j].offset = active_offset(m)
    OBVIOUS
  <2> DEFINE i == idx[j]
  <2>1. i \in 1 .. Len(ms) /\ t[j] = segment(m, at, ms, i)
    BY <1>3 DEF Picks
  <2> HIDE DEF i
  <2>2. /\ t[j].kind = ms[i].kind /\ t[j].feed = feed_spec(m, ms[i].kind)
        /\ t[j].offset = active_offset(m)
    BY <2>1 DEF segment
  <2>3. ASSUME ms[i].kind # "rapid" PROVE feed_spec(m, ms[i].kind) # None
    <3>1. m.f # None
      BY <2>1, <2>3
    <3>2. to_mm(m, m.f) \in Int
      BY <3>1, InMm DEF IsModal
    <3> QED BY <2>3, <3>1, <3>2, ResolverAssumption DEF feed_spec, feed_mm, ResolverAssumption
  <2> QED BY <2>2, <2>3
<1> HIDE DEF u, n
<1>10. \A i \in 1 .. Len(u) : u[i].kind # "rapid" => u[i].feed # None
  <2> SUFFICES ASSUME NEW i \in 1 .. Len(u), u[i].kind # "rapid" PROVE u[i].feed # None
    OBVIOUS
  <2>1. i \in 1 .. n \/ i \in n + 1 .. n + Len(t)
    BY <1>6
  <2>2. CASE i \in 1 .. n
    BY <2>2, <1>6 DEF Travel, n
  <2>3. CASE i \in n + 1 .. n + Len(t)
    BY <2>3, <1>6, <1>9
  <2> QED BY <2>1, <2>2, <2>3
<1>11. Adds(u, s, m)
  BY <1>6, <1>9 DEF Adds, n
<1>12. Travel(u, End(at, ms))
  BY <1>6, <1>7, <1>8, <1>10 DEF Travel
<1>13. Len(t) \in Nat /\ Len(u) = Len(s) + Len(t)
  BY <1>6 DEF n
<1> QED BY <1>11, <1>12, <1>13 DEF u, t

(* Moves of no cycle.                                                        *)
LEMMA PlainOn ==
  ASSUME NEW s, NEW at, Travel(s, at), NEW m, IsModal(m), NEW ms \in Seq(Aimed),
         m.f = None => \A j \in 1 .. Len(ms) : ms[j].kind = "rapid",
         \A j \in 1 .. Len(ms) : ms[j].step = None
  PROVE  /\ Travel(s \o Emitted(m, at, ms), End(at, ms))
         /\ Adds(s \o Emitted(m, at, ms), s, m)
         /\ Len(s \o Emitted(m, at, ms)) = Len(s) + Len(Emitted(m, at, ms))
<1> DEFINE t == Emitted(m, at, ms)
<1>1. PICK B : t \in Seq(B)
  BY EmittedPicks
<1>2. PICK idx : Picks(idx, t, Len(ms), m, at, ms)
  BY EmittedPicks
<1>3. Len(t) \in Nat
  BY <1>1, LenProperties
<1> HIDE DEF t
<1>4. \A j \in 1 .. Len(t) : t[j].step = None
  <2> SUFFICES ASSUME NEW j \in 1 .. Len(t) PROVE t[j].step = None
    OBVIOUS
  <2> DEFINE i == idx[j]
  <2>1. i \in 1 .. Len(ms) /\ t[j] = segment(m, at, ms, i)
    BY <1>2 DEF Picks
  <2> HIDE DEF i
  <2>2. t[j].step = ms[i].step
    BY <2>1 DEF segment
  <2> QED BY <2>1, <2>2
<1>5. Reenters(t) /\ Tagged(t) /\ Opening(t)
  BY <1>3, <1>4, PlainReenters
<1> QED BY <1>5, TravelOn DEF t

(* One firing of a cycle.                                                    *)
LEMMA FiringOn ==
  ASSUME NEW s, NEW at, Travel(s, at), NEW m, IsModal(m), NEW r, IsRequest(r),
         m.f = None => ~Feeds(r)
  PROVE  LET ms == provenance_for(expand(r))
             u == s \o Emitted(m, at, ms)
         IN  /\ Travel(u, End(at, ms)) /\ Adds(u, s, m)
             /\ Len(Emitted(m, at, ms)) \in Nat /\ Len(u) = Len(s) + Len(Emitted(m, at, ms))
<1> DEFINE e == expand(r)
           ms == provenance_for(e)
<1>1. e \in Seq(CycleMove) /\ (Feeds(r) <=> \E j \in 1 .. Len(e) : e[j].kind # "rapid")
  BY ExpandShape
<1> HIDE DEF e
<1>2. /\ ms \in Seq(Aimed) /\ Len(ms) = Len(e)
      /\ \A j \in 1 .. Len(e) : ms[j].kind = e[j].kind
  BY <1>1, ProvenanceTyped
<1>3. Reenters(Emitted(m, at, ms)) /\ Tagged(Emitted(m, at, ms)) /\ Opening(Emitted(m, at, ms))
  BY FiringReenters DEF e
<1> HIDE DEF ms
<1>4. m.f = None => \A j \in 1 .. Len(ms) : ms[j].kind = "rapid"
  BY <1>1, <1>2
<1> QED BY <1>2, <1>3, <1>4, TravelOn DEF ms, e
-----------------------------------------------------------------------------
(* A whole cycle block: what its first n firings add.                        *)

(* No moves, no segments.                                                    *)
LEMMA NothingEmitted ==
  ASSUME NEW m, NEW at
  PROVE  Emitted(m, at, <<>>) = <<>>
<1> DEFINE t == Emitted(m, at, <<>>)
<1>1. <<>> \in Seq(Aimed) /\ Len(<<>>) = 0
  OBVIOUS
<1>2. PICK B : t \in Seq(B)
  BY <1>1, EmittedPicks
<1>3. PICK idx : Picks(idx, t, Len(<<>>), m, at, <<>>)
  BY <1>1, EmittedPicks
<1> HIDE DEF t
<1>4. \A i \in 1 .. Len(t) : idx[i] \in 1 .. 0
  BY <1>1, <1>3 DEF Picks
<1>5. Len(t) = 0
  <2>1. Len(t) \in Nat
    BY <1>2, LenProperties
  <2>2. 1 \notin 1 .. Len(t)
    BY <1>4
  <2> QED BY <2>1, <2>2
<1> QED BY <1>2, <1>5, EmptySeq DEF t

\* What the first k firings of a block b under m make of the segments so far.
Fired(m, b, k) ==
  LET moves == CycleMoves(m, b)[k]
      done == Emitted(m, position, moves)
  IN  /\ Travel(segments \o done, End(position, moves))
      /\ Adds(segments \o done, segments, m)
      /\ Len(done) \in Nat /\ Len(segments \o done) = Len(segments) + Len(done)

(* Where two lists of moves end.                                            *)
LEMMA EndOn ==
  ASSUME NEW at, NEW s \in Seq(Aimed), NEW t \in Seq(Aimed)
  PROVE  End(at, s \o t) = End(End(at, s), t)
<1> DEFINE u == s \o t
<1>1. /\ u \in Seq(Aimed) /\ Len(u) = Len(s) + Len(t)
      /\ \A i \in 1 .. Len(s) + Len(t) : u[i] = IF i <= Len(s) THEN s[i] ELSE t[i - Len(s)]
  BY ConcatProperties
<1>2. Len(s) \in Nat /\ Len(t) \in Nat
  BY LenProperties
<1>3. CASE t = <<>>
  <2>1. u = s
    BY <1>3
  <2> HIDE DEF u
  <2> QED BY <1>3, <2>1 DEF End, u
<1>4. CASE t # <<>>
  <2>1. Len(t) > 0
    BY <1>2, <1>4, EmptySeq
  <2>2. Len(u) \in 1 .. Len(s) + Len(t) /\ ~(Len(u) <= Len(s)) /\ Len(u) - Len(s) = Len(t)
    BY <1>1, <1>2, <2>1
  <2>3. u[Len(u)] = t[Len(t)]
    <3> HIDE DEF u
    <3> QED BY <1>1, <2>2
  <2>4. u # <<>>
    <3> HIDE DEF u
    <3> QED BY <1>1, <1>2, <2>1
  <2> HIDE DEF u
  <2>5. Last(u) = Last(t)
    BY <2>3 DEF Last
  <2> QED BY <1>4, <2>4, <2>5 DEF End, u
<1> QED BY <1>3, <1>4

(* Each number of firings leaves a valid travel, and more of them are no    *)
(* shorter.                                                                 *)
LEMMA CycleOn ==
  ASSUME NEW m, IsModal(m), NEW b, IsBlock(b), Located, Travel(segments, position),
         Repeats(b) > 0 /\ m.f = None => ~Feeds(Request(m, b, position))
  PROVE  /\ \A k \in 0 .. Repeats(b) : Fired(m, b, k)
         /\ \A k \in 0 .. Repeats(b) : \A j \in 0 .. k :
              Len(Emitted(m, position, CycleMoves(m, b)[j])) <= Len(Emitted(m, position, CycleMoves(m, b)[k]))
<1> DEFINE M == CycleMoves(m, b)
           l == Repeats(b)
           Done(k) == Emitted(m, position, M[k])
<1>1. Firings(M, m, b) /\ l \in Nat
  BY CycleMovesSteps, RepeatsIsNat
<1>2. M[0] = <<>> /\ \A k \in 0 .. l : M[k] \in Seq(Aimed) /\ End(position, M[k]) \in Point
  BY <1>1 DEF Firings
<1> HIDE DEF M
<1> DEFINE I == {k \in 0 .. l : Fired(m, b, k) /\ \A j \in 0 .. k : Len(Done(j)) <= Len(Done(k))}
<1>3. 0 \in I
  <2>1. Done(0) = <<>> /\ End(position, M[0]) = position
    BY <1>2, NothingEmitted DEF End
  <2>2. PICK S : segments \in Seq(S)
    BY DEF Travel
  <2>3. segments \o <<>> = segments /\ Len(<<>>) = 0 /\ Len(segments) \in Nat
    BY <2>2, ConcatEmptySeq, LenProperties
  <2>4. Adds(segments, segments, m)
    BY <2>3 DEF Adds
  <2>5. Fired(m, b, 0)
    <3> HIDE DEF Done
    <3>1. /\ Travel(segments \o Done(0), End(position, M[0])) /\ Adds(segments \o Done(0), segments, m)
          /\ Len(Done(0)) \in Nat /\ Len(segments \o Done(0)) = Len(segments) + Len(Done(0))
      <4> DEFINE v == segments \o Done(0)
      <4>1. v = segments
        BY <2>1, <2>3
      <4>2. Len(v) = Len(segments) + Len(Done(0))
        BY <2>1, <2>3, <4>1
      <4> HIDE DEF v
      <4>3. Travel(v, End(position, M[0])) /\ Adds(v, segments, m)
        BY <2>1, <2>4, <4>1
      <4>4. Len(Done(0)) \in Nat
        BY <2>1, <2>3
      <4> QED BY <4>2, <4>3, <4>4 DEF v
    <3> QED BY <3>1 DEF Fired, M, Done
  <2>6. 0 \in 0 .. l /\ \A j \in 0 .. 0 : j = 0
    BY <1>1
  <2>7. Len(Done(0)) <= Len(Done(0))
    BY <2>1, <2>3
  <2> HIDE DEF Done, l
  <2> QED BY <2>5, <2>6, <2>7
<1>4. ASSUME NEW k \in 0 .. l - 1, k \in I PROVE k + 1 \in I
  <2> DEFINE at == End(position, M[k])
             r == Request(m, b, at)
             new == provenance_for(expand(r))
             add == Emitted(m, at, new)
             s == segments \o Done(k)
  <2>1. k + 1 \in 1 .. l /\ (k + 1) - 1 = k /\ k + 1 \in 0 .. l /\ l > 0 /\ k \in 0 .. l /\ k \in Nat
    BY <1>1
  <2>2. M[k + 1] = M[k] \o new
    <3> HIDE DEF l, new
    <3>1. M[k + 1] = M[k] \o provenance_for(expand(Request(m, b, End(position, M[k]))))
      BY <1>1, <2>1 DEF Firings, l
    <3> QED BY <3>1 DEF new
  <2>3. at \in Point /\ M[k] \in Seq(Aimed)
    BY <1>2, <2>1
  <2>4. IsRequest(r)
    <3> HIDE DEF at
    <3> QED BY <2>3, RequestTyped
  <2>5. m.f = None => ~Feeds(r)
    <3> HIDE DEF at
    <3> QED BY <2>1, FeedsAnywhere
  <2>6. /\ Travel(s, at) /\ Adds(s, segments, m) /\ Len(Done(k)) \in Nat
        /\ Len(s) = Len(segments) + Len(Done(k))
    <3>1. Fired(m, b, k)
      BY <1>4
    <3> QED BY <3>1 DEF Fired, M
  <2>7. new \in Seq(Aimed)
    <3> HIDE DEF r
    <3>1. expand(r) \in Seq(CycleMove)
      BY <2>4, ExpandShape
    <3> QED BY <3>1, ProvenanceTyped
  <2> HIDE DEF at, s, r
  <2>8. /\ Travel(s \o add, End(at, new)) /\ Adds(s \o add, s, m)
        /\ Len(add) \in Nat /\ Len(s \o add) = Len(s) + Len(add)
    BY <2>4, <2>5, <2>6, FiringOn
  <2> HIDE DEF new
  <2>9. Done(k + 1) = Done(k) \o add
    <3>1. M[k + 1] = Joined(M[k], new)
      BY <2>2 DEF Joined
    <3>2. Done(k + 1) = Joined(Done(k), add)
      BY <3>1, <2>3, <2>7, EmittedOn DEF at
    <3> HIDE DEF Done, add
    <3> QED BY <3>2 DEF Joined
  <2>10. End(position, M[k + 1]) = End(at, new)
    BY <2>2, <2>3, <2>7, EndOn DEF at
  <2> DEFINE t == Done(k)
             u == Done(k + 1)
  <2>11. PICK A : t \in Seq(A)
    BY <2>3, EmittedPicks
  <2>12. PICK B : add \in Seq(B)
    BY <2>7, EmittedPicks
  <2>13. PICK C : segments \in Seq(C)
    BY DEF Travel
  <2>14. u = t \o add /\ s = segments \o t
    BY <2>9 DEF s
  <2> HIDE DEF t, add, u
  <2>15. segments \o u = s \o add /\ Len(u) = Len(t) + Len(add) /\ Len(segments) \in Nat
    <3> DEFINE D == A \cup B \cup C
    <3>1. segments \in Seq(D) /\ t \in Seq(D) /\ add \in Seq(D)
      BY <2>11, <2>12, <2>13
    <3> HIDE DEF D
    <3>2. segments \o (t \o add) = (segments \o t) \o add
      BY <3>1, ConcatAssociative
    <3>3. Len(t \o add) = Len(t) + Len(add)
      BY <3>1, ConcatProperties
    <3>4. Len(segments) \in Nat
      BY <3>1, LenProperties
    <3> QED BY <3>2, <3>3, <3>4, <2>14
  <2>16. Len(t) \in Nat /\ Len(s) = Len(segments) + Len(t)
    BY <2>6 DEF t
  <2>17. Adds(segments \o u, segments, m)
    <3> DEFINE v == s \o add
    <3>1. Adds(v, s, m) /\ Adds(s, segments, m) /\ Len(v) = Len(s) + Len(add)
      BY <2>6, <2>8
    <3> HIDE DEF v
    <3>2. Adds(v, segments, m)
      <4>1. /\ Len(s) <= Len(v) /\ \A i \in 1 .. Len(s) : v[i] = s[i]
            /\ \A i \in Len(s) + 1 .. Len(v) : v[i].offset = active_offset(m)
            /\ Len(segments) <= Len(s) /\ \A i \in 1 .. Len(segments) : s[i] = segments[i]
            /\ \A i \in Len(segments) + 1 .. Len(s) : s[i].offset = active_offset(m)
        BY <3>1 DEF Adds
      <4>2. Len(segments) \in Nat /\ Len(s) \in Nat /\ Len(v) \in Nat
        BY <2>8, <2>15, <2>16, <3>1
      <4>3. Len(segments) <= Len(v)
        BY <4>1, <4>2
      <4>4. ASSUME NEW i \in 1 .. Len(segments) PROVE v[i] = segments[i]
        <5>1. i \in 1 .. Len(s)
          BY <4>1, <4>2
        <5> QED BY <4>1, <5>1
      <4>5. ASSUME NEW i \in Len(segments) + 1 .. Len(v) PROVE v[i].offset = active_offset(m)
        <5>1. i \in Len(s) + 1 .. Len(v) \/ (i \in 1 .. Len(s) /\ i \in Len(segments) + 1 .. Len(s))
          BY <4>2
        <5> QED BY <4>1, <5>1
      <4> QED BY <4>3, <4>4, <4>5 DEF Adds
    <3> QED BY <3>2, <2>15 DEF v
  <2>18. /\ Len(u) \in Nat /\ Len(segments \o u) = Len(segments) + Len(u)
    <3>1. Len(segments \o u) = Len(s) + Len(add)
      BY <2>8, <2>15
    <3> QED BY <3>1, <2>15, <2>16, <2>8
  <2>19. Travel(segments \o u, End(position, M[k + 1]))
    BY <2>8, <2>10, <2>15
  <2>20. Fired(m, b, k + 1)
    BY <2>17, <2>18, <2>19 DEF Fired, M, u
  <2>21. ASSUME NEW j \in 0 .. k + 1 PROVE Len(Done(j)) <= Len(Done(k + 1))
    <3>1. j = k + 1 \/ j \in 0 .. k
      BY <2>1
    <3>2. CASE j = k + 1
      <4>1. Done(j) = u
        BY <3>2 DEF u
      <4>2. Len(u) <= Len(u)
        BY <2>18
      <4> HIDE DEF Done
      <4> QED BY <4>1, <4>2 DEF u
    <3>3. CASE j \in 0 .. k
      <4>1. Len(Done(j)) <= Len(t)
        BY <3>3, <1>4 DEF t
      <4>2. j \in 0 .. l
        <5> HIDE DEF I, M
        <5> QED BY <3>3, <2>1, <1>1
      <4>3. M[j] \in Seq(Aimed)
        BY <4>2, <1>2
      <4>4. \E X : Done(j) \in Seq(X)
        BY <4>3, EmittedPicks
      <4>5. Len(Done(j)) \in Nat
        <5> HIDE DEF Done
        <5> QED BY <4>4, LenProperties
      <4> DEFINE d == Len(Done(j))
      <4> HIDE DEF d
      <4>6. d <= Len(u)
        BY <4>1, <4>5, <2>15, <2>16, <2>8 DEF d
      <4> QED BY <4>6 DEF d, u
    <3> QED BY <3>1, <3>2, <3>3
  <2> HIDE DEF Done, l
  <2> QED BY <2>1, <2>20, <2>21
<1> HIDE DEF I, l
<1>5. \A k \in 0 .. l : k \in I
  BY <1>1, <1>3, <1>4, Induction
<1> QED BY <1>5 DEF I, l, M
-----------------------------------------------------------------------------
(* Events: in order, and which of them selects the work offset.              *)

\* Events in order, at segments lo to hi.
Timed(s, lo, hi) ==
  /\ \E E : s \in Seq(E)
  /\ \A k \in 1 .. Len(s) : s[k].at \in lo .. hi
  /\ \A k \in 1 .. Len(s) - 1 : s[k].at <= s[k + 1].at

Selects(e) == e.kind = "WorkOffsetChanged"

\* OffsetSelected of any events.
SelectedIn(s, i) ==
  LET selections == {k \in DOMAIN s : Selects(s[k]) /\ s[k].at <= i}
  IN  IF selections = {} THEN 1 ELSE s[Max(selections)].value

\* u is s and then t.
Concatenates(u, s, t) ==
  /\ \E E : u \in Seq(E)
  /\ Len(s) \in Nat /\ Len(t) \in Nat /\ Len(u) = Len(s) + Len(t)
  /\ DOMAIN u = 1 .. Len(u) /\ DOMAIN s = 1 .. Len(s)
  /\ \A i \in 1 .. Len(s) : u[i] = s[i]
  /\ \A i \in Len(s) + 1 .. Len(u) : i - Len(s) \in 1 .. Len(t) /\ u[i] = t[i - Len(s)]

(* Two sequences, each over a set.                                           *)
LEMMA JoinedProperties ==
  ASSUME NEW A, NEW s \in Seq(A), NEW B, NEW t \in Seq(B), NEW u, u = Joined(s, t)
  PROVE  Concatenates(u, s, t)
<1> DEFINE E == A \cup B
<1>1. s \in Seq(E) /\ t \in Seq(E)
  OBVIOUS
<1> HIDE DEF E
<1>2. u = s \o t
  BY DEF Joined
<1>3. /\ u \in Seq(E) /\ Len(u) = Len(s) + Len(t)
      /\ \A i \in 1 .. Len(s) + Len(t) : u[i] = IF i <= Len(s) THEN s[i] ELSE t[i - Len(s)]
  BY <1>1, <1>2, ConcatProperties
<1>4. Len(s) \in Nat /\ Len(t) \in Nat /\ DOMAIN u = 1 .. Len(u) /\ DOMAIN s = 1 .. Len(s)
  BY <1>1, <1>3, LenProperties
<1> QED BY <1>3, <1>4 DEF Concatenates

(* Events after events, all of them in order.                               *)
LEMMA TimedOn ==
  ASSUME NEW lo \in Nat, NEW mid \in Nat, NEW hi \in Nat, lo <= mid, mid <= hi,
         NEW s, Timed(s, lo, mid), NEW t, Timed(t, mid, hi), NEW u, u = Joined(s, t)
  PROVE  Timed(u, lo, hi)
<1>1. PICK A : s \in Seq(A)
  BY DEF Timed
<1>2. PICK B : t \in Seq(B)
  BY DEF Timed
<1>0. Concatenates(u, s, t)
  BY <1>1, <1>2, JoinedProperties
<1>3. /\ \E E : u \in Seq(E)
      /\ Len(s) \in Nat /\ Len(t) \in Nat /\ Len(u) = Len(s) + Len(t)
      /\ \A i \in 1 .. Len(s) : u[i] = s[i]
      /\ \A i \in Len(s) + 1 .. Len(u) : i - Len(s) \in 1 .. Len(t) /\ u[i] = t[i - Len(s)]
  BY <1>0 DEF Concatenates
<1>4. /\ \A k \in 1 .. Len(s) : u[k].at \in lo .. mid
      /\ \A k \in Len(s) + 1 .. Len(u) : u[k].at \in mid .. hi
  BY <1>3 DEF Timed
<1>5. \A k \in 1 .. Len(u) : u[k].at \in lo .. hi
  BY <1>3, <1>4
<1>6. ASSUME NEW k \in 1 .. Len(u) - 1 PROVE u[k].at <= u[k + 1].at
  <2>1. CASE k + 1 <= Len(s)
    <3>1. k \in 1 .. Len(s) - 1 /\ k \in 1 .. Len(s) /\ k + 1 \in 1 .. Len(s)
      BY <1>3, <2>1
    <3> QED BY <3>1, <1>3 DEF Timed
  <2>2. CASE k = Len(s)
    <3>1. k \in 1 .. Len(s) /\ k + 1 \in Len(s) + 1 .. Len(u)
      BY <1>3, <2>2
    <3> QED BY <3>1, <1>4
  <2>3. CASE k > Len(s)
    <3> DEFINE j == k - Len(s)
    <3>1. /\ j \in 1 .. Len(t) - 1 /\ (k + 1) - Len(s) = j + 1
          /\ k \in Len(s) + 1 .. Len(u) /\ k + 1 \in Len(s) + 1 .. Len(u)
      BY <1>3, <2>3
    <3>2. u[k] = t[j] /\ u[k + 1] = t[j + 1]
      BY <3>1, <1>3
    <3> HIDE DEF j
    <3> QED BY <3>1, <3>2 DEF Timed
  <2> QED BY <2>1, <2>2, <2>3, <1>3
<1> QED BY <1>3, <1>5, <1>6 DEF Timed

(* The greatest index of some of a sequence.                                 *)
LEMMA MaxOfIndices ==
  ASSUME NEW n \in Nat, NEW T \in SUBSET (1 .. n), T # {}
  PROVE  Max(T) \in T /\ \A y \in T : y <= Max(T)
<1>1. T \in SUBSET (0 .. n)
  OBVIOUS
<1>2. PICK x \in T : \A y \in T : y <= x
  BY <1>1, NatMax
<1>3. \A y \in T : x >= y
  BY <1>2
<1>4. Max(T) \in T /\ \A y \in T : Max(T) >= y
  BY <1>2, <1>3 DEF Max
<1> QED BY <1>4

(* Events that select nothing by i leave the selection at i alone.           *)
LEMMA SelectionStays ==
  ASSUME NEW s, NEW u, NEW i \in Int, Len(s) \in Nat, Len(u) \in Nat, Len(s) <= Len(u),
         DOMAIN s = 1 .. Len(s), DOMAIN u = 1 .. Len(u),
         \A k \in 1 .. Len(s) : u[k] = s[k],
         \A k \in Len(s) + 1 .. Len(u) : ~(Selects(u[k]) /\ u[k].at <= i)
  PROVE  SelectedIn(u, i) = SelectedIn(s, i)
<1> DEFINE A == {k \in DOMAIN s : Selects(s[k]) /\ s[k].at <= i}
           B == {k \in DOMAIN u : Selects(u[k]) /\ u[k].at <= i}
<1>1. ASSUME NEW k \in A PROVE k \in B
  BY <1>1
<1>2. ASSUME NEW k \in B PROVE k \in A
  <2>1. k \in 1 .. Len(s)
    BY <1>2
  <2> QED BY <1>2, <2>1
<1>3. A = B /\ A \in SUBSET (1 .. Len(s))
  BY <1>1, <1>2
<1> HIDE DEF A, B
<1>4. CASE A = {}
  BY <1>3, <1>4 DEF SelectedIn, A, B
<1>5. CASE A # {}
  <2>1. Max(A) \in 1 .. Len(s)
    BY <1>3, <1>5, MaxOfIndices
  <2>2. u[Max(A)] = s[Max(A)]
    BY <2>1
  <2>3. SelectedIn(s, i) = s[Max(A)].value
    BY <1>5 DEF SelectedIn, A
  <2>4. SelectedIn(u, i) = u[Max(B)].value
    BY <1>3, <1>5 DEF SelectedIn, B
  <2> QED BY <1>3, <2>2, <2>3, <2>4
<1> QED BY <1>4, <1>5

(* The last selection by i is the one in force.                              *)
LEMMA SelectionMade ==
  ASSUME NEW u, NEW i \in Int, Len(u) \in Nat, DOMAIN u = 1 .. Len(u),
         NEW k \in 1 .. Len(u), Selects(u[k]), u[k].at <= i,
         \A j \in k + 1 .. Len(u) : ~Selects(u[j])
  PROVE  SelectedIn(u, i) = u[k].value
<1> DEFINE B == {j \in DOMAIN u : Selects(u[j]) /\ u[j].at <= i}
<1>1. k \in B /\ B \in SUBSET (1 .. Len(u))
  OBVIOUS
<1>2. \A j \in B : j \notin k + 1 .. Len(u)
  OBVIOUS
<1>3. SelectedIn(u, i) = u[Max(B)].value
  <2>1. B # {}
    BY <1>1
  <2> QED BY <2>1 DEF SelectedIn
<1> HIDE DEF B
<1>4. Max(B) \in B /\ k <= Max(B)
  BY <1>1, MaxOfIndices
<1>5. Max(B) = k
  <2>1. Max(B) \in 1 .. Len(u) /\ Max(B) \notin k + 1 .. Len(u)
    BY <1>1, <1>2, <1>4
  <2> QED BY <2>1, <1>4
<1> QED BY <1>3, <1>5
-----------------------------------------------------------------------------
(* What a block records.                                                     *)

(* A finite set can be listed.                                              *)
LEMMA SetToSeqTyped ==
  ASSUME NEW S, IsFiniteSet(S)
  PROVE  SetToSeq(S) \in Seq(S)
<1> DEFINE n == Cardinality(S)
<1>1. n \in Nat /\ ExistsBijection(1 .. n, S)
  BY FS_CardinalityType
<1> HIDE DEF n
<1>2. PICK f \in [1 .. n -> S] : \A i, j \in 1 .. n : f[i] = f[j] => i = j
  BY <1>1 DEF ExistsBijection, Bijection, Injection, IsInjective
<1>3. IsInjective(f)
  BY <1>2 DEF IsInjective
<1>4. SetToSeq(S) \in [1 .. n -> S]
  BY <1>2, <1>3 DEF SetToSeq, n
<1> QED BY <1>1, <1>4, SeqDef

\* Events at segment n, the first of which may be the selection that b makes.
Opened(s, n, b) ==
  /\ \E E : s \in Seq(E)
  /\ \A k \in 1 .. Len(s) : s[k].at = n
  /\ \A k \in 1 .. Len(s) : Selects(s[k]) => k = 1 /\ Has(b, "work_offset")
  /\ Has(b, "work_offset")
       => Len(s) >= 1 /\ Selects(s[1]) /\ s[1].value = b.work_offset

\* Events at segment n that select nothing.
Quiet(s, n) ==
  /\ \E E : s \in Seq(E)
  /\ \A k \in 1 .. Len(s) : s[k].at = n /\ ~Selects(s[k])

(* Appending events that select nothing.                                    *)
LEMMA OpenedOn ==
  ASSUME NEW b, NEW n, NEW s, Opened(s, n, b), NEW t, Quiet(t, n), NEW u, u = Joined(s, t)
  PROVE  Opened(u, n, b)
<1>1. PICK A : s \in Seq(A)
  BY DEF Opened
<1>2. PICK B : t \in Seq(B)
  BY DEF Quiet
<1>3. Concatenates(u, s, t)
  BY <1>1, <1>2, JoinedProperties
<1>4. /\ \E E : u \in Seq(E)
      /\ Len(s) \in Nat /\ Len(t) \in Nat /\ Len(u) = Len(s) + Len(t)
      /\ \A i \in 1 .. Len(s) : u[i] = s[i]
      /\ \A i \in Len(s) + 1 .. Len(u) : i - Len(s) \in 1 .. Len(t) /\ u[i] = t[i - Len(s)]
  BY <1>3 DEF Concatenates
<1>5. ASSUME NEW k \in 1 .. Len(u)
      PROVE  u[k].at = n /\ (Selects(u[k]) => k = 1 /\ Has(b, "work_offset"))
  <2>1. CASE k <= Len(s)
    <3>1. k \in 1 .. Len(s)
      BY <1>4, <2>1
    <3> QED BY <1>4, <3>1 DEF Opened
  <2>2. CASE k > Len(s)
    <3>1. k \in Len(s) + 1 .. Len(u)
      BY <1>4, <2>2
    <3> QED BY <1>4, <3>1 DEF Quiet
  <2> QED BY <1>4, <2>1, <2>2
<1>6. ASSUME Has(b, "work_offset")
      PROVE  Len(u) >= 1 /\ Selects(u[1]) /\ u[1].value = b.work_offset
  <2>1. Len(s) >= 1 /\ Selects(s[1]) /\ s[1].value = b.work_offset
    BY <1>6 DEF Opened
  <2>2. u[1] = s[1] /\ Len(u) >= 1
    BY <2>1, <1>4
  <2> QED BY <2>1, <2>2
<1> QED BY <1>4, <1>5, <1>6 DEF Opened

(* The events of a block's words.                                            *)
LEMMA WordEventsOpen ==
  ASSUME NEW b, IsBlock(b)
  PROVE  Opened(WordEvents(b), Len(segments), b)
<1> DEFINE n == Len(segments)
           ms == SetToSeq(Word(b, "m", {}))
           p == IF Has(b, "work_offset") THEN <<Event(n, "WorkOffsetChanged", b.work_offset)>> ELSE <<>>
           q == IF Has(b, "tool_length")
                THEN <<Event(n, "ToolLengthOffset", Number(Words(b).tool_length))>> ELSE <<>>
           r == [i \in DOMAIN ms |-> Event(n, ms[i], None)]
           v == IF Word(b, "nonmodal", None) = "G4" THEN <<Event(n, "Dwell", None)>> ELSE <<>>
<1>1. WordEvents(b) = Joined(Joined(Joined(p, q), r), v)
  BY DEF WordEvents, Joined
<1> HIDE DEF n
<1>one. ASSUME NEW e PROVE <<e>> \in Seq({e}) /\ Len(<<e>>) = 1 /\ <<e>>[1] = e /\ 1 .. 1 = {1}
  OBVIOUS
<1>none. <<>> \in Seq({}) /\ Len(<<>>) = 0 /\ 1 .. 0 = {}
  OBVIOUS
<1>2. Opened(p, n, b)
  <2>1. CASE Has(b, "work_offset")
    <3> DEFINE e == Event(n, "WorkOffsetChanged", b.work_offset)
    <3>1. e.at = n /\ Selects(e) /\ e.value = b.work_offset
      BY DEF Event, Selects
    <3>2. p = <<e>>
      BY <2>1
    <3> HIDE DEF e, p
    <3>3. \E E : p \in Seq(E)
      BY <3>2, <1>one
    <3>4. Len(p) = 1 /\ p[1] = e /\ \A k \in 1 .. Len(p) : k = 1
      BY <3>2, <1>one
    <3>5. /\ \A k \in 1 .. Len(p) : p[k].at = n
          /\ \A k \in 1 .. Len(p) : Selects(p[k]) => k = 1 /\ Has(b, "work_offset")
          /\ Len(p) >= 1 /\ Selects(p[1]) /\ p[1].value = b.work_offset
      BY <2>1, <3>1, <3>4
    <3> QED BY <3>3, <3>5 DEF Opened
  <2>2. CASE ~Has(b, "work_offset")
    <3>1. p = <<>>
      BY <2>2
    <3> HIDE DEF p
    <3>2. (\E E : p \in Seq(E)) /\ \A k \in 1 .. Len(p) : FALSE
      BY <3>1, <1>none
    <3> QED BY <2>2, <3>2 DEF Opened
  <2> QED BY <2>1, <2>2
<1>quiet. ASSUME NEW e, e.at = n, ~Selects(e) PROVE Quiet(<<e>>, n) /\ Quiet(<<>>, n)
  BY <1>one, <1>none, <1>quiet DEF Quiet
<1>3. Quiet(q, n)
  <2> DEFINE e == Event(n, "ToolLengthOffset", Number(Words(b).tool_length))
  <2>1. e.at = n /\ ~Selects(e)
    BY DEF Event, Selects
  <2>2. q = <<e>> \/ q = <<>>
    OBVIOUS
  <2> HIDE DEF e, q
  <2> QED BY <2>1, <2>2, <1>quiet
<1>4. Quiet(v, n)
  <2> DEFINE e == Event(n, "Dwell", None)
  <2>1. e.at = n /\ ~Selects(e)
    BY DEF Event, Selects
  <2>2. v = <<e>> \/ v = <<>>
    OBVIOUS
  <2> HIDE DEF e, v
  <2> QED BY <2>1, <2>2, <1>quiet
<1>5. Quiet(r, n)
  <2> DEFINE S == Word(b, "m", {})
             E == {Event(n, code, None) : code \in S}
  <2>1. IsFiniteSet(S) /\ "WorkOffsetChanged" \notin S
    BY FS_EmptySet DEF Word, IsBlock
  <2> HIDE DEF S
  <2>2. ms \in Seq(S)
    BY <2>1, SetToSeqTyped DEF S
  <2> HIDE DEF ms
  <2>3. Len(ms) \in Nat /\ DOMAIN ms = 1 .. Len(ms) /\ \A i \in 1 .. Len(ms) : ms[i] \in S
    BY <2>2, ElementOfSeq, LenProperties
  <2>4. r \in [1 .. Len(ms) -> E] /\ \A i \in 1 .. Len(ms) : r[i] = Event(n, ms[i], None)
    BY <2>3
  <2> HIDE DEF r, E
  <2>5. r \in Seq(E) /\ Len(r) = Len(ms)
    BY <2>3, <2>4, SeqDef, LenProperties
  <2>6. \A i \in 1 .. Len(r) : r[i].at = n /\ r[i].kind = ms[i]
    BY <2>4, <2>5 DEF Event
  <2>7. \A i \in 1 .. Len(r) : ~Selects(r[i])
    BY <2>1, <2>3, <2>5, <2>6 DEF Selects
  <2> QED BY <2>5, <2>6, <2>7 DEF Quiet
<1> HIDE DEF p, q, r, v
<1>6. Opened(Joined(p, q), n, b)
  BY <1>2, <1>3, OpenedOn
<1>7. Opened(Joined(Joined(p, q), r), n, b)
  BY <1>6, <1>5, OpenedOn
<1>8. Opened(WordEvents(b), n, b)
  BY <1>1, <1>7, <1>4, OpenedOn
<1> QED BY <1>8 DEF n
-----------------------------------------------------------------------------
(* What a recorded block makes of the selection, and what the epochs hold.   *)

(* With nothing later to read, a later reader finds the same selection.      *)
LEMMA SelectionSettled ==
  ASSUME NEW n \in Nat, NEW s, Timed(s, 0, n), NEW i \in Nat, i >= n
  PROVE  SelectedIn(s, i) = SelectedIn(s, n)
<1>1. PICK E : s \in Seq(E)
  BY DEF Timed
<1>2. DOMAIN s = 1 .. Len(s)
  BY <1>1, LenProperties
<1>3. \A k \in DOMAIN s : s[k].at <= i /\ s[k].at <= n
  BY <1>2 DEF Timed
<1>4. {k \in DOMAIN s : Selects(s[k]) /\ s[k].at <= i} = {k \in DOMAIN s : Selects(s[k]) /\ s[k].at <= n}
  BY <1>3
<1> QED BY <1>4 DEF SelectedIn

\* What u selects, if s selects the same up to segment n and `last` from then on.
SelectsOn(u, s, n, last) ==
  /\ \A i \in 0 .. n - 1 : SelectedIn(u, i) = SelectedIn(s, i)
  /\ \A i \in Nat : i >= n => SelectedIn(u, i) = last

(* Recording a block keeps the events in order; what a reader finds         *)
(* selected changes from the present segment on, and only if the block      *)
(* selects.                                                                 *)
LEMMA Recorded ==
  ASSUME NEW b, IsBlock(b), Len(segments) \in Nat, Timed(events, 0, Len(segments)),
         NEW N \in Nat, Len(segments) <= N,
         NEW more, Timed(more, Len(segments), N), \A k \in 1 .. Len(more) : ~Selects(more[k]),
         NEW u, u = Joined(Joined(events, WordEvents(b)), more)
  PROVE  /\ Timed(u, 0, N)
         /\ SelectsOn(u, events, Len(segments),
                      Word(b, "work_offset", SelectedIn(events, Len(segments))))
<1> DEFINE n == Len(segments)
           W == WordEvents(b)
           v == Joined(events, W)
<1>1. Opened(W, n, b)
  BY WordEventsOpen
<1> HIDE DEF W, n
<1>2. Timed(W, n, n)
  <2>1. \A k \in 1 .. Len(W) : W[k].at = n
    BY <1>1 DEF Opened
  <2>2. PICK E : W \in Seq(E)
    BY <1>1 DEF Opened
  <2>3. Len(W) \in Nat /\ n \in n .. n /\ n <= n
    BY <2>2, LenProperties DEF n
  <2>4. \A k \in 1 .. Len(W) - 1 : k \in 1 .. Len(W) /\ k + 1 \in 1 .. Len(W)
    BY <2>3
  <2>5. \A k \in 1 .. Len(W) - 1 : W[k].at = n /\ W[k + 1].at = n
    BY <2>1, <2>4
  <2> QED BY <2>1, <2>2, <2>3, <2>5 DEF Timed
<1>3. n \in Nat /\ 0 <= n /\ n <= n /\ n <= N /\ Timed(events, 0, n) /\ Timed(more, n, N)
  BY DEF n
<1>4. Timed(v, 0, n)
  <2> HIDE DEF v
  <2> QED BY <1>2, <1>3, TimedOn DEF v
<1>5. Timed(u, 0, N)
  <2>1. u = Joined(v, more)
    BY DEF W
  <2> HIDE DEF v
  <2> QED BY <1>3, <1>4, <2>1, TimedOn
<1>6. Concatenates(v, events, W)
  <2>1. PICK A : events \in Seq(A)
    BY DEF Timed
  <2>2. PICK B : W \in Seq(B)
    BY <1>2 DEF Timed
  <2> HIDE DEF v
  <2> QED BY <2>1, <2>2, JoinedProperties DEF v
<1>7. Concatenates(u, v, more)
  <2>0. u = Joined(v, more)
    BY DEF W
  <2> HIDE DEF v
  <2>1. PICK A : v \in Seq(A)
    BY <1>4 DEF Timed
  <2>2. PICK B : more \in Seq(B)
    BY DEF Timed
  <2> QED BY <2>0, <2>1, <2>2, JoinedProperties
<1> HIDE DEF v
<1> DEFINE l == Len(events)
           c == Len(v)
<1>8. /\ l \in Nat /\ c \in Nat /\ c = l + Len(W) /\ Len(W) \in Nat
      /\ Len(more) \in Nat /\ Len(u) = c + Len(more)
      /\ DOMAIN u = 1 .. Len(u) /\ DOMAIN events = 1 .. l
      /\ \A i \in 1 .. l : v[i] = events[i]
      /\ \A i \in l + 1 .. c : i - l \in 1 .. Len(W) /\ v[i] = W[i - l]
      /\ \A i \in 1 .. c : u[i] = v[i]
      /\ \A i \in c + 1 .. Len(u) : i - c \in 1 .. Len(more) /\ u[i] = more[i - c]
  <2>1. /\ \E E : u \in Seq(E)
        /\ Len(v) \in Nat /\ Len(more) \in Nat /\ Len(u) = Len(v) + Len(more)
        /\ DOMAIN u = 1 .. Len(u)
        /\ \A i \in 1 .. Len(v) : u[i] = v[i]
        /\ \A i \in Len(v) + 1 .. Len(u) : i - Len(v) \in 1 .. Len(more) /\ u[i] = more[i - Len(v)]
    BY <1>7 DEF Concatenates
  <2>2. /\ Len(events) \in Nat /\ Len(W) \in Nat /\ Len(v) = Len(events) + Len(W)
        /\ DOMAIN events = 1 .. Len(events)
        /\ \A i \in 1 .. Len(events) : v[i] = events[i]
        /\ \A i \in Len(events) + 1 .. Len(v) : i - Len(events) \in 1 .. Len(W) /\ v[i] = W[i - Len(events)]
    BY <1>6 DEF Concatenates
  <2> QED BY <2>1, <2>2
<1> HIDE DEF l, c
<1>9. \A i \in 1 .. l : u[i] = events[i]
  <2>1. \A i \in 1 .. l : i \in 1 .. c
    BY <1>8
  <2> QED BY <2>1, <1>8
<1>10. ASSUME NEW k \in l + 1 .. Len(u)
       PROVE  u[k].at >= n /\ (Selects(u[k]) => k = l + 1 /\ Has(b, "work_offset"))
  <2>1. CASE k <= c
    <3> DEFINE j == k - l
    <3>1. k \in l + 1 .. c /\ k \in 1 .. c
      BY <1>8, <2>1
    <3>2. u[k] = W[j] /\ j \in 1 .. Len(W)
      BY <3>1, <1>8
    <3>3. j = 1 => k = l + 1
      BY <1>8
    <3> HIDE DEF j
    <3>4. W[j].at = n /\ (Selects(W[j]) => j = 1 /\ Has(b, "work_offset"))
      BY <3>2, <1>1 DEF Opened
    <3> QED BY <3>2, <3>3, <3>4, <1>3
  <2>2. CASE k > c
    <3>1. k \in c + 1 .. Len(u)
      BY <1>8, <2>2
    <3> DEFINE j == k - c
    <3>2. u[k] = more[j] /\ j \in 1 .. Len(more)
      BY <3>1, <1>8
    <3> HIDE DEF j
    <3>3. more[j].at \in n .. N /\ ~Selects(more[j])
      BY <3>2, <1>3 DEF Timed
    <3> QED BY <3>2, <3>3, <1>3
  <2> QED BY <2>1, <2>2, <1>8
<1>11. l <= Len(u) /\ Len(u) \in Nat
  BY <1>8
<1>12. ASSUME NEW i \in 0 .. n - 1 PROVE SelectedIn(u, i) = SelectedIn(events, i)
  <2>1. \A k \in l + 1 .. Len(u) : ~(Selects(u[k]) /\ u[k].at <= i)
    <3> SUFFICES ASSUME NEW k \in l + 1 .. Len(u), u[k].at <= i, Selects(u[k]) PROVE FALSE
      OBVIOUS
    <3>1. u[k].at >= n /\ i < n /\ i \in Int
      BY <1>3, <1>10
    <3>2. u[k].at \in Int
      <4>1. k \in 1 .. Len(u)
        BY <1>8
      <4> QED BY <4>1, <1>5 DEF Timed
    <3> QED BY <3>1, <3>2, <1>3
  <2>2. i \in Int
    OBVIOUS
  <2> QED BY <2>1, <2>2, <1>8, <1>9, <1>11, SelectionStays DEF l
<1>13. ASSUME NEW i \in Nat, i >= n
       PROVE  SelectedIn(u, i) = Word(b, "work_offset", SelectedIn(events, n))
  <2>1. CASE Has(b, "work_offset")
    <3> DEFINE k == l + 1
    <3>1. Len(W) >= 1 /\ Selects(W[1]) /\ W[1].value = b.work_offset /\ W[1].at = n
      <4>1. Len(W) >= 1 /\ Selects(W[1]) /\ W[1].value = b.work_offset
        BY <1>1, <2>1 DEF Opened
      <4>2. 1 \in 1 .. Len(W)
        BY <4>1, <1>8
      <4> QED BY <4>1, <4>2, <1>1 DEF Opened
    <3>2. k \in l + 1 .. c /\ k \in 1 .. c /\ k - l = 1 /\ k \in 1 .. Len(u)
      BY <3>1, <1>8
    <3>3. u[k] = W[1]
      <4> HIDE DEF k
      <4> QED BY <3>2, <1>8
    <3>4. \A j \in k + 1 .. Len(u) : ~Selects(u[j])
      <4> SUFFICES ASSUME NEW j \in k + 1 .. Len(u) PROVE ~Selects(u[j])
        OBVIOUS
      <4>1. j \in l + 1 .. Len(u) /\ j # l + 1
        BY <1>8
      <4> QED BY <4>1, <1>10
    <3> HIDE DEF k
    <3>5. i \in Int /\ u[k].at <= i /\ Selects(u[k]) /\ u[k].value = b.work_offset
      BY <3>1, <3>3, <1>3, <1>13
    <3>6. SelectedIn(u, i) = u[k].value
      <4>1. DOMAIN u = 1 .. Len(u) /\ k \in 1 .. Len(u)
        BY <3>2, <1>8
      <4> QED BY <3>4, <3>5, <4>1, <1>11, SelectionMade
    <3> QED BY <2>1, <3>5, <3>6 DEF Word
  <2>2. CASE ~Has(b, "work_offset")
    <3>1. \A k \in l + 1 .. Len(u) : ~(Selects(u[k]) /\ u[k].at <= i)
      BY <2>2, <1>10
    <3>2. SelectedIn(u, i) = SelectedIn(events, i)
      <4>1. i \in Int
        OBVIOUS
      <4> QED BY <3>1, <4>1, <1>8, <1>9, <1>11, SelectionStays DEF l
    <3>3. SelectedIn(events, i) = SelectedIn(events, n)
      BY <1>3, <1>13, SelectionSettled
    <3> QED BY <2>2, <3>2, <3>3 DEF Word
  <2> QED BY <2>1, <2>2
<1> QED BY <1>5, <1>12, <1>13 DEF SelectsOn, n
-----------------------------------------------------------------------------
\* OffsetRead of the epochs of one offset.
ReadIn(h, i) ==
  LET past == {k \in DOMAIN h : h[k].from_segment <= i}
  IN  IF past = {} THEN Origin ELSE h[Max(past)].value

\* The epochs of an offset that is v now, before segment n is emitted.
History(h, n, v) ==
  /\ \E E : h \in Seq(E)
  /\ Len(h) > 0 /\ h[Len(h)].value = v
  /\ \A k \in 1 .. Len(h) : h[k].from_segment \in 0 .. n

(* From the last epoch on, the value is the last one.                       *)
LEMMA ReadLast ==
  ASSUME NEW n \in Nat, NEW h, NEW v, History(h, n, v), NEW i \in Nat, i >= n
  PROVE  ReadIn(h, i) = v
<1>1. PICK E : h \in Seq(E)
  BY DEF History
<1>2. DOMAIN h = 1 .. Len(h) /\ Len(h) \in Nat /\ Len(h) > 0
  BY <1>1, LenProperties DEF History
<1> DEFINE P == {k \in DOMAIN h : h[k].from_segment <= i}
<1>3. P = 1 .. Len(h)
  <2>1. \A k \in 1 .. Len(h) : h[k].from_segment <= i
    BY DEF History
  <2> QED BY <1>2, <2>1
<1>4. ReadIn(h, i) = h[Max(P)].value
  <2>1. P # {}
    <3> HIDE DEF P
    <3> QED BY <1>2, <1>3
  <2> QED BY <2>1 DEF ReadIn
<1> HIDE DEF P
<1>5. P \in SUBSET (1 .. Len(h)) /\ P # {} /\ Len(h) \in P
  BY <1>2, <1>3
<1>6. Max(P) \in 1 .. Len(h) /\ Len(h) <= Max(P)
  BY <1>2, <1>5, MaxOfIndices
<1>7. Max(P) = Len(h)
  BY <1>2, <1>6
<1> QED BY <1>4, <1>7 DEF History

(* An epoch that begins later does not change what is read.                 *)
LEMMA ReadStays ==
  ASSUME NEW E, NEW h \in Seq(E), NEW x, NEW i \in Int, x.from_segment \in Int, x.from_segment > i
  PROVE  ReadIn(Append(h, x), i) = ReadIn(h, i)
<1> DEFINE S == E \cup {x}
           g == Append(h, x)
<1>1. h \in Seq(S) /\ x \in S
  OBVIOUS
<1> HIDE DEF S
<1>2. /\ Len(h) \in Nat /\ DOMAIN h = 1 .. Len(h) /\ g \in Seq(S) /\ Len(g) = Len(h) + 1
      /\ \A k \in 1 .. Len(h) : g[k] = h[k]
      /\ g[Len(h) + 1] = x
  BY <1>1, AppendProperties, LenProperties
<1> HIDE DEF g
<1>3. DOMAIN g = 1 .. Len(h) + 1
  BY <1>2, LenProperties
<1> DEFINE P == {k \in DOMAIN g : g[k].from_segment <= i}
           Q == {k \in DOMAIN h : h[k].from_segment <= i}
<1>4. P = Q /\ Q \in SUBSET (1 .. Len(h))
  <2>1. Len(h) + 1 \notin P
    BY <1>2
  <2>2. ASSUME NEW k \in P PROVE k \in Q
    <3>1. k \in 1 .. Len(h)
      BY <1>2, <1>3, <2>1, <2>2
    <3> QED BY <3>1, <1>2, <2>2
  <2>3. ASSUME NEW k \in Q PROVE k \in P
    <3>1. k \in 1 .. Len(h) /\ k \in 1 .. Len(h) + 1
      BY <1>2
    <3> QED BY <3>1, <1>2, <1>3, <2>3
  <2> QED BY <1>2, <2>2, <2>3
<1> HIDE DEF P, Q
<1>5. CASE Q = {}
  BY <1>4, <1>5 DEF ReadIn, P, Q, g
<1>6. CASE Q # {}
  <2>1. Max(Q) \in 1 .. Len(h)
    BY <1>2, <1>4, <1>6, MaxOfIndices
  <2>2. ReadIn(h, i) = h[Max(Q)].value
    BY <1>6 DEF ReadIn, Q
  <2>3. ReadIn(g, i) = g[Max(P)].value
    BY <1>4, <1>6 DEF ReadIn, P
  <2> QED BY <2>1, <2>2, <2>3, <1>2, <1>4 DEF g
<1> QED BY <1>5, <1>6

(* A history remains one as segments are added.                             *)
LEMMA HistoryLater ==
  ASSUME NEW n \in Nat, NEW N \in Nat, n <= N, NEW h, NEW v, History(h, n, v)
  PROVE  History(h, N, v)
<1>1. \A k \in 1 .. Len(h) : h[k].from_segment \in 0 .. n
  BY DEF History
<1>2. \A k \in 1 .. Len(h) : h[k].from_segment \in 0 .. N
  BY <1>1
<1> QED BY <1>2 DEF History

(* A new value makes a new epoch, from the present segment on.              *)
LEMMA HistoryOn ==
  ASSUME NEW n \in Nat, NEW E, NEW h \in Seq(E),
         \A k \in 1 .. Len(h) : h[k].from_segment \in 0 .. n, NEW v
  PROVE  History(Append(h, [value |-> v, from_segment |-> n]), n, v)
<1> DEFINE x == [value |-> v, from_segment |-> n]
           S == E \cup {x}
           g == Append(h, x)
<1>1. h \in Seq(S) /\ x \in S /\ x.value = v /\ x.from_segment = n
  OBVIOUS
<1> HIDE DEF S, x
<1>2. /\ Len(h) \in Nat /\ g \in Seq(S) /\ Len(g) = Len(h) + 1
      /\ \A k \in 1 .. Len(h) : g[k] = h[k]
      /\ g[Len(h) + 1] = x
  BY <1>1, AppendProperties, LenProperties
<1> HIDE DEF g
<1>3. \A k \in 1 .. Len(g) : k \in 1 .. Len(h) \/ k = Len(h) + 1
  BY <1>2
<1>4. \A k \in 1 .. Len(g) : g[k].from_segment \in 0 .. n
  BY <1>1, <1>2, <1>3
<1>5. Len(g) > 0 /\ g[Len(g)].value = v
  BY <1>1, <1>2
<1> QED BY <1>2, <1>4, <1>5 DEF History, g, x
-----------------------------------------------------------------------------
(* The invariant of the interpreter, and what a block must do to keep it.    *)

EpochsIn(e, id) == IF id \in DOMAIN e THEN e[id] ELSE <<>>

\* Every offset's epochs say how it came to its value.
Known ==
  /\ DOMAIN epochs = DOMAIN offsets
  /\ \A id \in DOMAIN epochs : History(epochs[id], Len(segments), offsets[id])

ParseInv ==
  /\ IsModal(state) /\ Located
  /\ Travel(segments, position)
  /\ Timed(events, 0, Len(segments))
  /\ SelectedIn(events, Len(segments)) = state.work_offset
  /\ Known
  /\ OffsetsRecoverable

(* What a reader of events and epochs finds, in the terms above.            *)
LEMMA OffsetReadIs ==
  ASSUME NEW i
  PROVE  OffsetRead(i) = ReadIn(EpochsIn(epochs, SelectedIn(events, i)), i)
<1>1. OffsetSelected(i) = SelectedIn(events, i)
  BY DEF OffsetSelected, SelectedIn, Selects
<1>2. EpochsOf(OffsetSelected(i)) = EpochsIn(epochs, SelectedIn(events, i))
  BY <1>1 DEF EpochsOf, EpochsIn
<1> HIDE DEF OffsetSelected
<1>3. OffsetRead(i) = ReadIn(EpochsOf(OffsetSelected(i)), i)
  BY DEF OffsetRead, ReadIn
<1> QED BY <1>2, <1>3

(* The offset in force is the one a reader finds from now on.                *)
LEMMA OffsetKnown ==
  ASSUME Known, Len(segments) \in Nat, NEW m, NEW i \in Nat, i >= Len(segments)
  PROVE  ReadIn(EpochsIn(epochs, m.work_offset), i) = active_offset(m)
<1> DEFINE id == m.work_offset
<1>1. CASE id \in DOMAIN epochs
  <2>1. History(epochs[id], Len(segments), offsets[id])
    BY <1>1 DEF Known
  <2>2. ReadIn(epochs[id], i) = offsets[id]
    <3> HIDE DEF id
    <3> QED BY <2>1, ReadLast
  <2> QED BY <1>1, <2>2 DEF EpochsIn, active_offset, Known
<1>2. CASE id \notin DOMAIN epochs
  <2>1. EpochsIn(epochs, id) = <<>> /\ active_offset(m) = Origin
    BY <1>2 DEF EpochsIn, active_offset, Known
  <2>2. ReadIn(<<>>, i) = Origin
    <3>1. DOMAIN <<>> = {}
      OBVIOUS
    <3>2. {k \in DOMAIN <<>> : <<>>[k].from_segment <= i} = {}
      BY <3>1
    <3> QED BY <3>2 DEF ReadIn
  <2> QED BY <2>1, <2>2
<1> QED BY <1>1, <1>2

\* What a block that is executed does to everything but the modal state and the places.
Parses(b, more) ==
  /\ Record(b, more)
  /\ Timed(more, Len(segments), Len(segments'))
  /\ \A k \in 1 .. Len(more) : ~Selects(more[k])
  /\ Travel(segments', position')
  /\ Adds(segments', segments, state')
  /\ Known'
  /\ \A i \in 0 .. Len(segments) - 1 : \A id :
       ReadIn(EpochsIn(epochs', id), i) = ReadIn(EpochsIn(epochs, id), i)
  /\ Len(segments') > Len(segments) => epochs' = epochs /\ offsets' = offsets

(* A block that parses keeps the invariant: old segments are read as        *)
(* before, and the new ones as the offset in force.                         *)
LEMMA Parsed ==
  ASSUME ParseInv, NEW b, IsBlock(b), NEW more, Parses(b, more), IsModal(state'), Located',
         state'.work_offset = Word(b, "work_offset", state.work_offset)
  PROVE  ParseInv'
<1> DEFINE n == Len(segments)
           N == Len(segments')
<1>1. n \in Nat /\ N \in Nat /\ n <= N
  <2>1. PICK S : segments \in Seq(S)
    BY DEF ParseInv, Travel
  <2>2. PICK SP : segments' \in Seq(SP)
    BY DEF Parses, Travel
  <2> QED BY <2>1, <2>2, LenProperties DEF Parses, Adds
<1>2. events' = Joined(Joined(events, WordEvents(b)), more)
  BY DEF Parses, Record, Joined
<1>3. /\ Timed(events', 0, N)
      /\ SelectsOn(events', events, n, Word(b, "work_offset", SelectedIn(events, n)))
  <2>1. /\ Timed(events, 0, n) /\ Timed(more, n, N)
        /\ \A k \in 1 .. Len(more) : ~Selects(more[k])
    BY DEF ParseInv, Parses
  <2> QED BY <1>1, <1>2, <2>1, Recorded
<1>4. Word(b, "work_offset", SelectedIn(events, n)) = state'.work_offset
  BY DEF ParseInv
<1>5. /\ \A i \in 0 .. n - 1 : SelectedIn(events', i) = SelectedIn(events, i)
      /\ \A i \in Nat : i >= n => SelectedIn(events', i) = state'.work_offset
  BY <1>3, <1>4 DEF SelectsOn
<1>6. SelectedIn(events', N) = state'.work_offset
  BY <1>1, <1>5
<1>7. ASSUME NEW i \in 1 .. N PROVE OffsetRead(i - 1)' = segments'[i].offset
  <2> DEFINE j == i - 1
  <2>1. OffsetRead(i - 1)' = ReadIn(EpochsIn(epochs', SelectedIn(events', j)), j)
    <3>1. OffsetSelected(i - 1)' = SelectedIn(events', j)
      BY DEF OffsetSelected, SelectedIn, Selects
    <3>2. EpochsOf(OffsetSelected(i - 1))' = EpochsIn(epochs', OffsetSelected(i - 1)')
      BY DEF EpochsOf, EpochsIn
    <3> HIDE DEF OffsetSelected
    <3>3. OffsetRead(i - 1)' = ReadIn(EpochsOf(OffsetSelected(i - 1))', j)
      BY DEF OffsetRead, ReadIn, Origin, Axis
    <3> QED BY <3>1, <3>2, <3>3
  <2>2. CASE i <= n
    <3>1. i \in 1 .. n /\ j \in 0 .. n - 1 /\ j = i - 1
      BY <1>1, <2>2
    <3> HIDE DEF j
    <3>2. ReadIn(EpochsIn(epochs', SelectedIn(events', j)), j) = ReadIn(EpochsIn(epochs, SelectedIn(events, j)), j)
      BY <3>1, <1>5 DEF Parses
    <3>3. OffsetRead(i - 1) = ReadIn(EpochsIn(epochs, SelectedIn(events, j)), j)
      BY <3>1, OffsetReadIs
    <3>4. OffsetRead(i - 1) = segments[i].offset
      BY <3>1 DEF ParseInv, OffsetsRecoverable
    <3>5. segments'[i] = segments[i]
      BY <3>1 DEF Parses, Adds
    <3> QED BY <2>1, <3>2, <3>3, <3>4, <3>5
  <2>3. CASE i > n
    <3>1. j \in Nat /\ j >= n /\ i \in n + 1 .. N /\ N > n
      BY <1>1, <2>3
    <3> HIDE DEF j
    <3>2. SelectedIn(events', j) = state'.work_offset
      BY <3>1, <1>5
    <3>3. epochs' = epochs
      BY <3>1 DEF Parses
    <3>4. ReadIn(EpochsIn(epochs, state'.work_offset), j) = active_offset(state')
      <4>1. Known
        BY DEF ParseInv
      <4> DEFINE m == state'
      <4> HIDE DEF m
      <4>2. ReadIn(EpochsIn(epochs, m.work_offset), j) = active_offset(m)
        BY <1>1, <3>1, <4>1, OffsetKnown
      <4> QED BY <4>2 DEF m
    <3>5. segments'[i].offset = active_offset(state')
      BY <3>1 DEF Parses, Adds
    <3> QED BY <2>1, <3>2, <3>3, <3>4, <3>5
  <2> QED BY <1>1, <2>2, <2>3
<1>8. OffsetsRecoverable'
  <2> HIDE DEF OffsetRead
  <2> QED BY <1>7 DEF OffsetsRecoverable
<1>9. Travel(segments', position') /\ Known'
  BY DEF Parses
<1> QED BY <1>3, <1>6, <1>8, <1>9 DEF ParseInv
-----------------------------------------------------------------------------
(* The ways through execute keep the invariant.                              *)

(* No event.                                                                *)
LEMMA NothingNoted ==
  ASSUME NEW lo, NEW hi
  PROVE  Timed(<<>>, lo, hi) /\ \A k \in 1 .. Len(<<>>) : ~Selects(<<>>[k])
<1>1. <<>> \in Seq({}) /\ 1 .. Len(<<>>) = {} /\ 1 .. Len(<<>>) - 1 = {}
  OBVIOUS
<1> QED BY <1>1 DEF Timed

(* One event.                                                               *)
LEMMA OneNoted ==
  ASSUME NEW n \in Nat, NEW e, e.at = n, ~Selects(e)
  PROVE  Timed(<<e>>, n, n) /\ \A k \in 1 .. Len(<<e>>) : ~Selects(<<e>>[k])
<1> DEFINE s == <<e>>
<1>1. s \in Seq({e}) /\ Len(s) = 1 /\ s[1] = e /\ 1 .. 1 = {1} /\ 1 .. 1 - 1 = {} /\ n \in n .. n
  OBVIOUS
<1> HIDE DEF s
<1>2. /\ \A k \in 1 .. Len(s) : s[k].at \in n .. n /\ ~Selects(s[k])
      /\ \A k \in 1 .. Len(s) - 1 : s[k].at <= s[k + 1].at
  BY <1>1
<1> QED BY <1>1, <1>2 DEF Timed, s

(* The modal state a block moves under, and the one it leaves if it does not.*)
LEMMA ModalState ==
  ASSUME ParseInv, NEW b, IsBlock(b), Executed(b)
  PROVE  /\ IsModal(Words(b)) /\ IsModal(Moving(b))
         /\ Words(b).work_offset = Word(b, "work_offset", state.work_offset)
         /\ Moving(b).work_offset = Word(b, "work_offset", state.work_offset)
<1>1. ~(Has(b, "tool_length") /\ UnknownOffset(Words(b)))
  BY DEF Executed, Refused
<1>2. IsModal(state)
  BY DEF ParseInv
<1>3. IsModal(Words(b)) /\ Words(b).work_offset = Word(b, "work_offset", state.work_offset)
  BY <1>1, <1>2, WordsModal
<1> DEFINE w == Words(b)
<1> HIDE DEF w
<1>4. IsModal(w)
  BY <1>3 DEF w
<1>5. IsModal(Motion(b, w)) /\ Motion(b, w).work_offset = w.work_offset
  BY <1>4, MotionModal
<1> QED BY <1>3, <1>5 DEF Moving, w

(* The number of segments.                                                  *)
LEMMA LengthIsNat ==
  ASSUME ParseInv
  PROVE  Len(segments) \in Nat
<1>1. PICK S : segments \in Seq(S)
  BY DEF ParseInv, Travel
<1> QED BY <1>1, LenProperties

(* A block that moves nothing and sets no offset.                            *)
LEMMA StillParses ==
  ASSUME ParseInv, NEW b, NEW more, Record(b, more),
         Timed(more, Len(segments), Len(segments)), \A k \in 1 .. Len(more) : ~Selects(more[k]),
         position' = position, segments' = segments, epochs' = epochs, offsets' = offsets
  PROVE  Parses(b, more)
<1>1. Len(segments) \in Nat
  BY LengthIsNat
<1>2. Len(segments) <= Len(segments) /\ Len(segments) + 1 .. Len(segments) = {}
  BY <1>1
<1>3. Adds(segments', segments, state')
  BY <1>2 DEF Adds
<1>4. Known'
  BY DEF ParseInv, Known
<1>5. Travel(segments', position')
  BY DEF ParseInv
<1>6. ~(Len(segments') > Len(segments))
  BY <1>1
<1> QED BY <1>3, <1>4, <1>5, <1>6 DEF Parses

(* G10.                                                                     *)
LEMMA SetOffsetParses ==
  ASSUME ParseInv, NEW b, IsBlock(b), apply_g10(b)
  PROVE  ParseInv'
<1>1. IsModal(state') /\ state'.work_offset = Word(b, "work_offset", state.work_offset)
  BY ModalState DEF apply_g10
<1>2. /\ position' = position /\ g92' = g92 /\ segments' = segments
  BY DEF apply_g10
<1>3. Located /\ Len(segments) \in Nat
  BY LengthIsNat DEF ParseInv
<1>4. CASE ~NamesOffset(b)
  <2>1. Record(b, <<>>) /\ offsets' = offsets /\ epochs' = epochs
    BY <1>4 DEF apply_g10
  <2>2. Parses(b, <<>>)
    BY <1>2, <2>1, NothingNoted, StillParses
  <2>3. Located'
    BY <1>2, <1>3, <2>1 DEF Located
  <2> QED BY <1>1, <2>2, <2>3, Parsed
<1>5. CASE NamesOffset(b)
  <2> DEFINE n == Len(segments)
             id == b.p
             value == NewOffset(state', b)
             h == EpochsIn(epochs, id)
             x == [value |-> value, from_segment |-> n]
             more == <<Event(n, "WorkOffsetRedefined", id)>>
  <2>1. /\ offsets' = Put(offsets, id, value)
        /\ epochs' = Put(epochs, id, Append(h, x))
        /\ Record(b, more)
    BY <1>5 DEF apply_g10, set_offset, EpochsOf, EpochsIn
  <2>2. value \in Point
    <3>1. (IF id \in DOMAIN offsets THEN offsets[id] ELSE Origin) \in Point
      BY <1>3, OriginIsPoint DEF Located
    <3> DEFINE before == IF id \in DOMAIN offsets THEN offsets[id] ELSE Origin
               v(a) == IF ~Has(b, a) THEN before[a]
                       ELSE IF Word(b, "l", 2) = 20 THEN position[a] - axis_value(state', b, a)
                       ELSE axis_value(state', b, a)
    <3>2. ASSUME NEW a \in Axis PROVE v(a) \in Int
      <4>1. before[a] \in Int /\ position[a] \in Int
        BY <3>1, <1>3 DEF Point, Located
      <4>2. Has(b, a) => axis_value(state', b, a) \in Int
        <5> DEFINE m == state'
        <5> HIDE DEF m
        <5>1. Has(b, a) => axis_value(m, b, a) \in Int
          BY AxisValueIsInt
        <5> QED BY <5>1 DEF m
      <4> HIDE DEF before
      <4> QED BY <4>1, <4>2
    <3>3. value = [a \in Axis |-> v(a)]
      BY DEF NewOffset
    <3> HIDE DEF v, value
    <3>4. [a \in Axis |-> v(a)] \in [Axis -> Int]
      BY <3>2
    <3> QED BY <3>3, <3>4 DEF Point
  <2>3. Timed(more, n, n) /\ \A k \in 1 .. Len(more) : ~Selects(more[k])
    <3> DEFINE e == Event(n, "WorkOffsetRedefined", id)
    <3>1. e.at = n /\ ~Selects(e)
      BY DEF Event, Selects
    <3> HIDE DEF e
    <3> QED BY <1>3, <3>1, OneNoted DEF e
  <2>4. (\E E : h \in Seq(E)) /\ \A k \in 1 .. Len(h) : h[k].from_segment \in 0 .. n
    <3>1. CASE id \in DOMAIN epochs
      BY <3>1 DEF EpochsIn, ParseInv, Known, History
    <3>2. CASE id \notin DOMAIN epochs
      <4>1. h = <<>>
        BY <3>2 DEF EpochsIn
      <4> HIDE DEF h
      <4>2. <<>> \in Seq({}) /\ 1 .. Len(<<>>) = {}
        OBVIOUS
      <4> QED BY <4>1, <4>2
    <3> QED BY <3>1, <3>2
  <2>5. PICK E : h \in Seq(E)
    BY <2>4
  <2> HIDE DEF id, value, more, n
  <2>6. History(Append(h, x), n, value)
    <3> HIDE DEF h
    <3> QED BY <1>3, <2>4, <2>5, HistoryOn DEF n
  <2>7. /\ DOMAIN offsets' = DOMAIN offsets \cup {id} /\ DOMAIN epochs' = DOMAIN epochs \cup {id}
        /\ offsets'[id] = value /\ epochs'[id] = Append(h, x)
        /\ \A i \in DOMAIN offsets \ {id} : offsets'[i] = offsets[i]
        /\ \A i \in DOMAIN epochs \ {id} : epochs'[i] = epochs[i]
    <3> HIDE DEF h, x
    <3> QED BY <2>1 DEF Put
  <2> HIDE DEF h, x
  <2>8. Known /\ DOMAIN epochs = DOMAIN offsets
    BY DEF ParseInv, Known
  <2>9. Known'
    <3> SUFFICES ASSUME NEW i \in DOMAIN epochs'
                 PROVE  History(epochs'[i], Len(segments'), offsets'[i])
      BY <2>7, <2>8 DEF Known
    <3>1. CASE i = id
      BY <3>1, <1>2, <2>6, <2>7 DEF n
    <3>2. CASE i # id
      <4>1. i \in DOMAIN epochs /\ epochs'[i] = epochs[i] /\ offsets'[i] = offsets[i]
        BY <3>2, <2>7, <2>8
      <4> QED BY <4>1, <1>2, <2>8 DEF Known
    <3> QED BY <3>1, <3>2
  <2>10. Located'
    <3>1. \A i \in DOMAIN offsets' : offsets'[i] \in Point
      BY <2>2, <2>7, <1>3 DEF Located
    <3> QED BY <1>2, <1>3, <3>1 DEF Located
  <2>11. ASSUME NEW i \in 0 .. n - 1, NEW j
         PROVE  ReadIn(EpochsIn(epochs', j), i) = ReadIn(EpochsIn(epochs, j), i)
    <3>1. CASE j = id
      <4>1. EpochsIn(epochs', j) = Append(h, x)
        BY <3>1, <2>7 DEF EpochsIn
      <4>2. EpochsIn(epochs, j) = h
        BY <3>1 DEF h
      <4>3. i \in Int /\ x.from_segment \in Int /\ x.from_segment > i
        BY <1>3 DEF x, n
      <4> QED BY <4>1, <4>2, <4>3, <2>5, ReadStays
    <3>2. CASE j # id
      <4>1. EpochsIn(epochs', j) = EpochsIn(epochs, j)
        BY <3>2, <2>7 DEF EpochsIn
      <4> QED BY <4>1
    <3> QED BY <3>1, <3>2
  <2>12. Parses(b, more)
    <3>1. Len(segments) <= Len(segments) /\ Len(segments) + 1 .. Len(segments) = {}
      BY <1>3
    <3>2. Adds(segments', segments, state')
      BY <1>2, <3>1 DEF Adds
    <3>3. Travel(segments', position')
      BY <1>2 DEF ParseInv
    <3>4. ~(Len(segments') > Len(segments))
      BY <1>2, <1>3
    <3>5. Timed(more, Len(segments), Len(segments'))
      BY <1>2, <2>3 DEF n
    <3> QED BY <2>1, <2>3, <2>9, <2>11, <3>2, <3>3, <3>4, <3>5 DEF Parses, n
  <2> QED BY <1>1, <2>10, <2>12, Parsed
<1> QED BY <1>4, <1>5
-----------------------------------------------------------------------------
(* G92 and its cancellations.                                               *)
LEMMA ShiftParses ==
  ASSUME ParseInv, NEW b, IsBlock(b), apply_g92(b)
  PROVE  ParseInv'
<1> DEFINE n == Len(segments)
           kind == IF Word(b, "nonmodal", None) = "G92" THEN "ShiftSet" ELSE "ShiftCleared"
           e == Event(n, kind, None)
           more == IF Word(b, "nonmodal", None) = "G92.3" THEN <<>> ELSE <<e>>
<1>1. IsModal(state') /\ state'.work_offset = Word(b, "work_offset", state.work_offset)
  BY ModalState DEF apply_g92
<1>2. /\ position' = position /\ segments' = segments /\ epochs' = epochs /\ offsets' = offsets
      /\ Record(b, more)
  BY DEF apply_g92
<1>3. Located /\ n \in Nat
  BY LengthIsNat DEF ParseInv
<1>4. e.at = n /\ ~Selects(e)
  BY DEF Event, Selects
<1>5. Timed(more, n, n) /\ \A k \in 1 .. Len(more) : ~Selects(more[k])
  <2> HIDE DEF e, n
  <2>1. more = <<>> \/ more = <<e>>
    OBVIOUS
  <2> HIDE DEF more
  <2> QED BY <2>1, <1>3, <1>4, NothingNoted, OneNoted
<1>6. Shift(state', b) \in Point
  <2> DEFINE m == state'
             v(a) == IF Has(b, a) THEN position[a] - active_offset(m)[a] - axis_value(m, b, a) ELSE g92[a]
  <2>1. Shift(m, b) = [a \in Axis |-> v(a)]
    BY DEF Shift
  <2> HIDE DEF m
  <2>2. active_offset(m) \in Point
    BY <1>3, OffsetIsPoint
  <2>3. ASSUME NEW a \in Axis PROVE v(a) \in Int
    <3>1. active_offset(m)[a] \in Int /\ position[a] \in Int /\ g92[a] \in Int
      BY <2>2, <1>3 DEF Point, Located
    <3>2. Has(b, a) => axis_value(m, b, a) \in Int
      BY AxisValueIsInt
    <3> QED BY <3>1, <3>2
  <2> HIDE DEF v
  <2>4. [a \in Axis |-> v(a)] \in [Axis -> Int]
    BY <2>3
  <2> QED BY <2>1, <2>4 DEF Point, m
<1>7. g92' \in Point
  <2>1. g92' = Shift(state', b) \/ g92' = Origin \/ g92' = g92
    BY DEF apply_g92
  <2> QED BY <2>1, <1>3, <1>6, OriginIsPoint DEF Located
<1>8. Located'
  BY <1>2, <1>3, <1>7 DEF Located
<1> HIDE DEF more, n
<1>9. Parses(b, more)
  BY <1>2, <1>5, StillParses DEF n
<1> QED BY <1>1, <1>8, <1>9, Parsed

(* A block without motion.                                                  *)
LEMMA NoMotionParses ==
  ASSUME ParseInv, NEW b, IsBlock(b), NoMotion(b)
  PROVE  ParseInv'
<1>1. IsModal(state') /\ state'.work_offset = Word(b, "work_offset", state.work_offset)
  BY ModalState DEF NoMotion
<1>2. /\ position' = position /\ segments' = segments /\ epochs' = epochs /\ offsets' = offsets
      /\ Record(b, <<>>) /\ g92' = g92
  BY DEF NoMotion
<1>3. Parses(b, <<>>)
  BY <1>2, NothingNoted, StillParses
<1>4. Located'
  BY <1>2 DEF ParseInv, Located
<1> QED BY <1>1, <1>3, <1>4, Parsed

(* A block that moves and sets no offset.                                    *)
LEMMA MovingParses ==
  ASSUME ParseInv, NEW b, NEW more, Record(b, more),
         Travel(segments', position'), Adds(segments', segments, state'),
         Timed(more, Len(segments), Len(segments')), \A k \in 1 .. Len(more) : ~Selects(more[k]),
         epochs' = epochs, offsets' = offsets
  PROVE  Parses(b, more)
<1> DEFINE n == Len(segments)
           N == Len(segments')
<1>1. n \in Nat /\ N \in Nat /\ n <= N
  <2>1. PICK S : segments' \in Seq(S)
    BY DEF Travel
  <2> QED BY <2>1, LengthIsNat, LenProperties DEF Adds
<1>2. Known
  BY DEF ParseInv
<1>3. Known'
  <2>1. ASSUME NEW id \in DOMAIN epochs PROVE History(epochs[id], N, offsets[id])
    <3>1. History(epochs[id], n, offsets[id])
      BY <1>2 DEF Known
    <3> HIDE DEF n, N
    <3> QED BY <1>1, <3>1, HistoryLater
  <2> QED BY <1>2, <2>1 DEF Known
<1> QED BY <1>3 DEF Parses

(* A move of no cycle.                                                      *)
LEMMA SingleAimed ==
  ASSUME NEW kind \in {"rapid", "linear", "arc"}, NEW to \in Point
  PROVE  Single(kind, to) \in Aimed /\ Single(kind, to).step = None /\ Single(kind, to).kind = kind
         /\ Single(kind, to).to = to
BY DEF Single, Aimed

(* G28 and G30.                                                             *)
LEMMA ReturnParses ==
  ASSUME ParseInv, NEW b, IsBlock(b), ReturnToReference(b)
  PROVE  ParseInv'
<1>1. IsModal(state') /\ state'.work_offset = Word(b, "work_offset", state.work_offset)
  BY ModalState DEF ReturnToReference
<1> DEFINE m == state'
           via == target(m, b, position)
           p == Single("rapid", via)
           q == Single("rapid", Origin)
           ms == <<p, q>>
<1>2. /\ segments' = segments \o Emitted(m, position, ms) /\ position' = Origin
      /\ Record(b, <<>>) /\ g92' = g92 /\ epochs' = epochs /\ offsets' = offsets
  BY DEF ReturnToReference
<1>3. Located /\ Travel(segments, position)
  BY DEF ParseInv
<1> HIDE DEF m
<1>4. via \in Point
  BY <1>1, <1>3, TargetIsPoint, OffsetIsPoint DEF target, m, Located
<1> HIDE DEF via
<1>5. /\ p \in Aimed /\ p.step = None /\ p.kind = "rapid"
      /\ q \in Aimed /\ q.step = None /\ q.kind = "rapid" /\ q.to = Origin
  BY <1>4, SingleAimed, OriginIsPoint
<1> HIDE DEF p, q
<1>6. /\ ms \in Seq(Aimed) /\ Len(ms) = 2 /\ ms[1] = p /\ ms[2] = q
      /\ \A j \in 1 .. Len(ms) : ms[j].kind = "rapid" /\ ms[j].step = None
  <2>1. ms \in Seq(Aimed) /\ Len(ms) = 2 /\ ms[1] = p /\ ms[2] = q
    BY <1>5
  <2>2. 1 .. 2 = {1, 2}
    OBVIOUS
  <2> HIDE DEF ms
  <2> QED BY <2>1, <2>2, <1>5
<1> HIDE DEF ms
<1>7. End(position, ms) = Origin
  <2>1. ms # <<>>
    BY <1>6, EmptySeq
  <2> QED BY <2>1, <1>5, <1>6 DEF End, Last
<1>8. Travel(segments', position') /\ Adds(segments', segments, m)
  <2>1. IsModal(m)
    BY <1>1 DEF m
  <2> QED BY <2>1, <1>2, <1>3, <1>6, <1>7, PlainOn
<1>9. Parses(b, <<>>)
  BY <1>2, <1>8, NothingNoted, MovingParses DEF m
<1>10. Located'
  BY <1>2, <1>3, OriginIsPoint DEF Located
<1> QED BY <1>1, <1>9, <1>10, Parsed

(* G0 to G3.                                                                *)
LEMMA MoveParses ==
  ASSUME ParseInv, NEW b, IsBlock(b), Move(b)
  PROVE  ParseInv'
<1>1. IsModal(state') /\ state'.work_offset = Word(b, "work_offset", state.work_offset)
  BY ModalState DEF Move
<1> DEFINE m == state'
           to == Destination(m, b)
           kind == MoveKind(m.motion)
           p == Single(kind, to)
           ms == <<p>>
<1>2. /\ segments' = segments \o Emitted(m, position, <<Single(kind, position')>>) /\ position' = to
      /\ Record(b, <<>>) /\ g92' = g92 /\ epochs' = epochs /\ offsets' = offsets
  BY DEF Move
<1>3. Located /\ Travel(segments, position)
  BY DEF ParseInv
<1>4. m.f = None => m.motion = "G0"
  BY DEF Move, Executed, Refused
<1> HIDE DEF m
<1>5. to \in Point
  <2>1. position \in Point /\ frame_offset(m) \in Point /\ Origin \in Point
    BY <1>3, OffsetIsPoint, OriginIsPoint DEF Located
  <2>2. IsModal(m)
    BY <1>1 DEF m
  <2>3. TargetFrom(m, b, position, Origin) \in Point /\ TargetFrom(m, b, position, frame_offset(m)) \in Point
    BY <2>1, <2>2, TargetIsPoint
  <2> QED BY <2>3 DEF Destination, target
<1> HIDE DEF to
<1>6. kind \in {"rapid", "linear", "arc"} /\ (m.motion = "G0" => kind = "rapid")
  BY DEF MoveKind
<1> HIDE DEF kind
<1>7. p \in Aimed /\ p.step = None /\ p.kind = kind /\ p.to = to
  BY <1>5, <1>6, SingleAimed
<1>8. segments' = segments \o Emitted(m, position, ms)
  BY <1>2
<1> HIDE DEF p
<1>9. ms \in Seq(Aimed) /\ Len(ms) = 1 /\ ms[1] = p /\ \A j \in 1 .. Len(ms) : j = 1
  BY <1>7
<1> HIDE DEF ms
<1>10. End(position, ms) = to
  <2>1. ms # <<>>
    <3>1. Len(<<>>) = 0
      OBVIOUS
    <3> QED BY <3>1, <1>9
  <2> QED BY <2>1, <1>7, <1>9 DEF End, Last
<1>11. Travel(segments', position') /\ Adds(segments', segments, m)
  <2>1. IsModal(m)
    BY <1>1 DEF m
  <2>2. /\ m.f = None => \A j \in 1 .. Len(ms) : ms[j].kind = "rapid"
        /\ \A j \in 1 .. Len(ms) : ms[j].step = None
    BY <1>4, <1>6, <1>7, <1>9
  <2> QED BY <2>1, <2>2, <1>2, <1>3, <1>8, <1>9, <1>10, PlainOn
<1>12. Parses(b, <<>>)
  BY <1>2, <1>11, NothingNoted, MovingParses DEF m
<1>13. Located'
  BY <1>2, <1>3, <1>5 DEF Located
<1> QED BY <1>1, <1>12, <1>13, Parsed

(* A cycle block, whatever its repeats.                                     *)
LEMMA CycleParses ==
  ASSUME ParseInv, NEW b, IsBlock(b), fire_cycle(b)
  PROVE  ParseInv'
<1> DEFINE m == Moving(b)
           last == Repeats(b)
           M == CycleMoves(m, b)
           Done(k) == Emitted(m, position, M[k])
           n == Len(segments)
           dwells == [k \in 1 .. last |-> Event(n + Len(Done(k)), "Dwell", None)]
           more == IF m.motion = "G82" /\ state'.cycle.p # None THEN dwells ELSE <<>>
<1>1. IsModal(m) /\ m.work_offset = Word(b, "work_offset", state.work_offset)
  BY ModalState DEF fire_cycle
<1>2. /\ state' = [m EXCEPT !.cycle = cycle_params(m, b)]
      /\ segments' = segments \o Done(last) /\ position' = End(position, M[last])
      /\ Record(b, more) /\ g92' = g92 /\ epochs' = epochs /\ offsets' = offsets
  BY DEF fire_cycle
<1>3. ~CycleRefused(m, b)
  <2>1. Moves(b) /\ m.motion \in CycleKinds /\ ~Refused(b)
    BY DEF fire_cycle, Executed
  <2>2. m.motion \notin {"G0", "G1", "G2", "G3", "G80"}
    <3> HIDE DEF m
    <3> QED BY <2>1 DEF CycleKinds, Drills, Bores, Pecks
  <2> QED BY <2>1, <2>2 DEF Refused
<1> HIDE DEF m
<1>4. Located /\ Travel(segments, position) /\ n \in Nat /\ last \in Nat
  BY LengthIsNat, RepeatsIsNat DEF ParseInv
<1>5. IsModal(state') /\ state'.work_offset = m.work_offset
  <2>1. IsParameters(cycle_params(m, b))
    BY <1>1, <1>4, ParametersTyped
  <2> DEFINE c == cycle_params(m, b)
             w == [m EXCEPT !.cycle = c]
  <2> HIDE DEF c
  <2>2. /\ DOMAIN w = DOMAIN m /\ w.f = m.f /\ w.tool_length = m.tool_length
        /\ w.work_offset = m.work_offset /\ w.cycle = c
    BY <1>1 DEF IsModal
  <2> HIDE DEF w
  <2>3. IsModal(w)
    BY <2>1, <2>2, <1>1 DEF IsModal, c
  <2> QED BY <1>2, <2>2, <2>3 DEF w, c
<1>6. last > 0 /\ m.f = None => ~Feeds(Request(m, b, position))
  <2> DEFINE r == Request(m, b, position)
             e == expand(r)
  <2> SUFFICES ASSUME last > 0, m.f = None PROVE ~Feeds(r)
    OBVIOUS
  <2>1. ~\E move \in ToSet(e) : move.kind # "rapid"
    BY <1>3 DEF CycleRefused
  <2>2. IsRequest(r)
    BY <1>1, <1>4, RequestTyped DEF Located
  <2> HIDE DEF r
  <2>3. e \in Seq(CycleMove) /\ (Feeds(r) <=> \E j \in 1 .. Len(e) : e[j].kind # "rapid")
    BY <2>2, ExpandShape
  <2> HIDE DEF e
  <2>4. DOMAIN e = 1 .. Len(e)
    BY <2>3, LenProperties
  <2>5. \A j \in 1 .. Len(e) : e[j] \in ToSet(e)
    BY <2>4 DEF ToSet
  <2> QED BY <2>1, <2>3, <2>5
<1>7. /\ \A k \in 0 .. last : Fired(m, b, k)
      /\ \A k \in 0 .. last : \A j \in 0 .. k : Len(Done(j)) <= Len(Done(k))
  BY <1>1, <1>4, <1>6, CycleOn
<1>8. \A k \in 0 .. last : Len(Done(k)) \in Nat
  BY <1>7 DEF Fired
<1>9. /\ Travel(segments', position') /\ Adds(segments', segments, m)
      /\ Len(segments') = n + Len(Done(last))
  <2>1. last \in 0 .. last
    BY <1>4
  <2>2. Fired(m, b, last)
    BY <2>1, <1>7
  <2> QED BY <2>2, <1>2 DEF Fired
<1> DEFINE l(k) == Len(Done(k))
<1> HIDE DEF M, Done
<1>10. Adds(segments', segments, state')
  <2>1. active_offset(state') = active_offset(m)
    BY <1>5 DEF active_offset
  <2> QED BY <2>1, <1>9 DEF Adds
<1>11. Timed(dwells, n, Len(segments')) /\ \A k \in 1 .. Len(dwells) : ~Selects(dwells[k])
  <2> DEFINE E == {Event(n + l(k), "Dwell", None) : k \in 1 .. last}
  <2>1. dwells \in [1 .. last -> E] /\ \A k \in 1 .. last : dwells[k] = Event(n + l(k), "Dwell", None)
    OBVIOUS
  <2> HIDE DEF dwells, E, last
  <2>2. dwells \in Seq(E) /\ Len(dwells) = last
    BY <1>4, <2>1, SeqDef, LenProperties
  <2>3. \A k \in 1 .. last : dwells[k].at = n + l(k) /\ ~Selects(dwells[k])
    <3> HIDE DEF l
    <3> QED BY <2>1 DEF Event, Selects
  <2>4. \A k \in 0 .. last : l(k) \in Nat /\ l(k) <= l(last)
    <3>1. \A k \in 0 .. last : k \in 0 .. last /\ last \in 0 .. last
      BY <1>4
    <3> QED BY <3>1, <1>7, <1>8 DEF last
  <2>5. \A k \in 1 .. last - 1 : l(k) <= l(k + 1)
    <3> SUFFICES ASSUME NEW k \in 1 .. last - 1 PROVE l(k) <= l(k + 1)
      OBVIOUS
    <3>1. k + 1 \in 0 .. last /\ k \in 0 .. k + 1
      BY <1>4
    <3> QED BY <3>1, <1>7 DEF last
  <2> DEFINE N == Len(segments')
  <2>6. N = n + l(last)
    BY <1>9 DEF last
  <2> HIDE DEF l, n, N
  <2>7. \A k \in 1 .. last : dwells[k].at \in n .. N
    <3> SUFFICES ASSUME NEW k \in 1 .. last PROVE dwells[k].at \in n .. N
      OBVIOUS
    <3>1. k \in 0 .. last /\ last \in 0 .. last
      BY <1>4
    <3>2. l(k) \in Nat /\ l(k) <= l(last) /\ l(last) \in Nat
      BY <3>1, <2>4
    <3> QED BY <3>2, <2>3, <2>6, <1>4
  <2>8. \A k \in 1 .. last - 1 : dwells[k].at <= dwells[k + 1].at
    <3> SUFFICES ASSUME NEW k \in 1 .. last - 1 PROVE dwells[k].at <= dwells[k + 1].at
      OBVIOUS
    <3>1. k \in 1 .. last /\ k + 1 \in 1 .. last /\ k \in 0 .. last /\ k + 1 \in 0 .. last
      BY <1>4
    <3>2. l(k) \in Nat /\ l(k + 1) \in Nat /\ l(k) <= l(k + 1)
      BY <3>1, <2>4, <2>5
    <3> QED BY <3>1, <3>2, <2>3, <1>4
  <2> QED BY <2>2, <2>3, <2>7, <2>8 DEF Timed, N
<1>12. Timed(more, n, Len(segments')) /\ \A k \in 1 .. Len(more) : ~Selects(more[k])
  <2> HIDE DEF dwells
  <2>1. more = dwells \/ more = <<>>
    OBVIOUS
  <2> HIDE DEF more
  <2> QED BY <2>1, <1>11, NothingNoted
<1> HIDE DEF more, n
<1>13. Parses(b, more)
  BY <1>2, <1>9, <1>10, <1>12, MovingParses DEF n
<1>14. position' \in Point
  <2>1. Firings(M, m, b)
    BY <1>1, <1>4, CycleMovesSteps DEF M
  <2>2. last \in 0 .. last
    BY <1>4
  <2> QED BY <2>1, <2>2, <1>2 DEF Firings
<1>15. Located'
  BY <1>2, <1>4, <1>14 DEF Located
<1> QED BY <1>1, <1>5, <1>13, <1>15, Parsed

(* Whatever a block is.                                                      *)
LEMMA ExecuteParses ==
  ASSUME ParseInv, NEW b, IsBlock(b), execute(b)
  PROVE  ParseInv'
<1>1. ASSUME UNCHANGED <<state, position, g92, offsets, epochs, segments, events>> PROVE ParseInv'
  <2>1. \A i : OffsetRead(i)' = OffsetRead(i)
    BY <1>1 DEF OffsetRead, OffsetSelected, EpochsOf, Origin, Axis
  <2>2. OffsetsRecoverable'
    <3> HIDE DEF OffsetRead
    <3> QED BY <1>1, <2>1 DEF ParseInv, OffsetsRecoverable
  <2>3. Located' /\ Known'
    BY <1>1 DEF ParseInv, Located, Known
  <2> QED BY <1>1, <2>2, <2>3 DEF ParseInv
<1>2. SkipBlock(b) \/ Fail(b) => ParseInv'
  BY <1>1 DEF SkipBlock, Fail
<1> QED BY <1>2, SetOffsetParses, ShiftParses, ReturnParses, NoMotionParses, MoveParses, CycleParses DEF execute
-----------------------------------------------------------------------------
(* The whole parse: the calls stay inside the program, so that every block   *)
(* executed is one of its blocks.                                            *)

FrameType == [index : Nat \ {0}, last : Int, repeats : Nat]

\* A range of the program; if it waits for a call, it is at one that names a body.
IsFrame(f) ==
  /\ f \in FrameType
  /\ f.last <= Len(program)
  /\ f.repeats > 0 => /\ f.index \in DOMAIN program
                      /\ program[f.index].p \in DOMAIN subprogram_table

IsRanges(s) ==
  /\ s \in Seq(FrameType)
  /\ \A k \in 1 .. Len(s) : IsFrame(s[k])

ProgramInv ==
  /\ program \in Programs
  /\ IsRanges(stack)
  /\ ParseInv

(* A program is a list of blocks.                                           *)
LEMMA ProgramTyped ==
  ASSUME program \in Programs
  PROVE  /\ Len(program) \in Nat /\ DOMAIN program = 1 .. Len(program)
         /\ \A i \in DOMAIN program : IsBlock(program[i])
BY ProgramAssumption DEF ProgramAssumption

(* A body lies within the program.                                          *)
LEMMA BodyTyped ==
  ASSUME program \in Programs, NEW n \in DOMAIN subprogram_table
  PROVE  /\ subprogram_table[n].first \in Nat \ {0} /\ subprogram_table[n].last \in Int
         /\ subprogram_table[n].last <= Len(program)
<1> DEFINE Returned(i) == HasM(program[i], "M99")
           Labels(i) == {j \in 1 .. i : Has(program[j], "o") /\ \A k \in j .. i - 1 : ~Returned(k)}
           Ends == {i \in DOMAIN program : Returned(i) /\ Labels(i) # {}}
           Label(i) == program[Max(Labels(i))].o
           Labelled == {i \in Ends : Label(i) = n}
           end == Max(Labelled)
           first == Max(Labels(end))
<1>1. /\ DOMAIN subprogram_table = {Label(i) : i \in Ends}
      /\ n \in {Label(i) : i \in Ends} =>
           subprogram_table[n] = [first |-> Max(Labels(Max({i \in Ends : Label(i) = n}))) + 1,
                                  last |-> Max({i \in Ends : Label(i) = n}) - 1]
  BY DEF subprogram_table
<1>2. subprogram_table[n].first = first + 1 /\ subprogram_table[n].last = end - 1
  <2>1. n \in {Label(i) : i \in Ends}
    BY <1>1
  <2>2. subprogram_table[n] = [first |-> first + 1, last |-> end - 1]
    BY <1>1, <2>1
  <2> HIDE DEF first, end
  <2> QED BY <2>2
<1>3. Labelled # {}
  BY <1>1
<1>4. Len(program) \in Nat /\ Labelled \in SUBSET (1 .. Len(program))
  BY ProgramTyped
<1>5. end \in Labelled
  <2> HIDE DEF Labelled
  <2> QED BY <1>3, <1>4, MaxOfIndices
<1>6. Labels(end) # {} /\ Labels(end) \in SUBSET (1 .. end)
  BY <1>5
<1>7. end \in 1 .. Len(program)
  BY <1>4, <1>5
<1> HIDE DEF end
<1>8. end \in Nat
  BY <1>4, <1>7
<1>9. first \in 1 .. end
  <2> DEFINE L == Labels(end)
  <2> HIDE DEF L, Labels
  <2>1. L # {} /\ L \in SUBSET (1 .. end)
    BY <1>6 DEF L
  <2>2. Max(L) \in L
    BY <1>8, <2>1, MaxOfIndices
  <2> QED BY <2>1, <2>2 DEF L
<1> HIDE DEF first
<1> QED BY <1>2, <1>4, <1>7, <1>9

(* The innermost call.                                                       *)
LEMMA TopTyped ==
  ASSUME ProgramInv, stack # <<>>
  PROVE  Len(stack) \in Nat /\ Len(stack) > 0 /\ Top = stack[Len(stack)] /\ IsFrame(Top)
<1>1. stack \in Seq(FrameType)
  BY DEF ProgramInv, IsRanges
<1>2. Len(stack) \in Nat /\ Len(stack) > 0
  BY <1>1, EmptySeq, LenProperties
<1>3. Top = stack[Len(stack)] /\ Len(stack) \in 1 .. Len(stack)
  BY <1>2 DEF Top, Last
<1>4. \A k \in 1 .. Len(stack) : IsFrame(stack[k])
  BY DEF ProgramInv, IsRanges
<1> QED BY <1>2, <1>3, <1>4

(* The block a call is at is a block of the program.                        *)
LEMMA CurrentIsBlock ==
  ASSUME ProgramInv, AtBlock
  PROVE  Top.index \in DOMAIN program /\ IsBlock(Current)
<1>1. IsFrame(Top) /\ Top.index <= Top.last
  BY TopTyped DEF AtBlock, Running
<1>2. Top.index \in Nat \ {0} /\ Top.last \in Int /\ Top.last <= Len(program)
  BY <1>1 DEF IsFrame, FrameType
<1>3. Len(program) \in Nat /\ DOMAIN program = 1 .. Len(program) /\ \A i \in DOMAIN program : IsBlock(program[i])
  BY ProgramTyped DEF ProgramInv
<1> HIDE DEF Top
<1>4. Top.index \in DOMAIN program
  BY <1>1, <1>2, <1>3
<1> QED BY <1>3, <1>4 DEF Current
-----------------------------------------------------------------------------
(* Leaving a range.                                                         *)
LEMMA FrontRanges ==
  ASSUME NEW s, IsRanges(s), s # <<>>
  PROVE  /\ IsRanges(Front(s)) /\ Len(Front(s)) = Len(s) - 1
<1>1. s \in Seq(FrameType) /\ \A k \in 1 .. Len(s) : IsFrame(s[k])
  BY DEF IsRanges
<1>2. Front(s) \in Seq(FrameType) /\ Len(Front(s)) = Len(s) - 1
  BY <1>1, FrontOfStack
<1>3. Len(s) \in Nat /\ Len(s) > 0
  BY <1>1, EmptySeq, LenProperties
<1>4. \A k \in 1 .. Len(s) - 1 : Front(s)[k] = s[k] /\ k \in 1 .. Len(s)
  BY <1>1, <1>3 DEF Front
<1>5. \A k \in 1 .. Len(Front(s)) : IsFrame(Front(s)[k])
  BY <1>1, <1>2, <1>4
<1> QED BY <1>2, <1>5 DEF IsRanges

(* Changing the innermost range.                                            *)
LEMMA ChangedRanges ==
  ASSUME NEW s, IsRanges(s), NEW f, IsFrame(f)
  PROVE  IsRanges([s EXCEPT ![Len(s)] = f])
<1> DEFINE t == [s EXCEPT ![Len(s)] = f]
<1>1. s \in Seq(FrameType) /\ (\A k \in 1 .. Len(s) : IsFrame(s[k])) /\ f \in FrameType
  BY DEF IsRanges, IsFrame
<1>2. s \in [1 .. Len(s) -> FrameType] /\ Len(s) \in Nat
  BY <1>1, LenProperties
<1>3. t \in [1 .. Len(s) -> FrameType]
  BY <1>1, <1>2
<1>4. t \in Seq(FrameType) /\ Len(t) = Len(s)
  BY <1>2, <1>3, SeqDef, LenProperties
<1>5. \A k \in 1 .. Len(s) : t[k] = IF k = Len(s) THEN f ELSE s[k]
  BY <1>2
<1> HIDE DEF t
<1>6. \A k \in 1 .. Len(t) : IsFrame(t[k])
  BY <1>1, <1>4, <1>5
<1> QED BY <1>4, <1>6 DEF IsRanges, t

(* Entering a range.                                                        *)
LEMMA AppendedRanges ==
  ASSUME NEW s, IsRanges(s), NEW f, IsFrame(f)
  PROVE  IsRanges(Append(s, f))
<1> DEFINE t == Append(s, f)
<1>1. s \in Seq(FrameType) /\ (\A k \in 1 .. Len(s) : IsFrame(s[k])) /\ f \in FrameType
  BY DEF IsRanges, IsFrame
<1>2. /\ t \in Seq(FrameType) /\ Len(t) = Len(s) + 1 /\ Len(s) \in Nat
      /\ \A k \in 1 .. Len(s) : t[k] = s[k]
      /\ t[Len(s) + 1] = f
  BY <1>1, AppendProperties, LenProperties
<1> HIDE DEF t
<1>3. \A k \in 1 .. Len(t) : k \in 1 .. Len(s) \/ k = Len(s) + 1
  BY <1>2
<1>4. \A k \in 1 .. Len(t) : IsFrame(t[k])
  BY <1>1, <1>2, <1>3
<1> QED BY <1>2, <1>4 DEF IsRanges, t

(* A program that stays the same keeps its ranges.                           *)
LEMMA RangesStay ==
  ASSUME program' = program, IsRanges(stack')
  PROVE  IsRanges(stack)'
<1>1. subprogram_table' = subprogram_table
  BY DEF subprogram_table
<1> HIDE DEF subprogram_table
<1> QED BY <1>1 DEF IsRanges, IsFrame, FrameType

(* Going on to the next block.                                              *)
LEMMA AdvancedRanges ==
  ASSUME ProgramInv, stack # <<>>, Top.repeats = 0
  PROVE  IsRanges(Advanced)
<1> DEFINE f == [Top EXCEPT !.index = @ + 1]
<1>1. Top = stack[Len(stack)] /\ IsFrame(Top) /\ IsRanges(stack)
  BY TopTyped DEF ProgramInv
<1>2. IsFrame(f)
  BY <1>1 DEF IsFrame, FrameType
<1>3. Advanced = [stack EXCEPT ![Len(stack)] = f]
  BY <1>1 DEF Advanced
<1> HIDE DEF f
<1> QED BY <1>1, <1>2, <1>3, ChangedRanges
-----------------------------------------------------------------------------
(* The invariant holds of a machine that has just been switched on.          *)
LEMMA PowerUpParses ==
  ASSUME PowerUp, program \in Programs, IsRanges(stack)
  PROVE  ProgramInv
<1>4. IsModal(state)
  <2>1. /\ DOMAIN state = {"plane", "distance", "arc_distance", "feed_mode", "units", "cycle_return",
                           "path_control", "work_offset", "tool_length", "motion", "f", "s", "t", "cycle"}
        /\ state.f = None /\ state.tool_length = None /\ state.cycle = None
    BY DEF PowerUp
  <2> QED BY <2>1 DEF IsModal
<1>5. Located
  BY OriginIsPoint DEF PowerUp, Located
<1>6. segments = <<>> /\ events = <<>> /\ position = Origin /\ state.work_offset = 1
  BY DEF PowerUp
<1>7. <<>> \in Seq({}) /\ Len(<<>>) = 0 /\ DOMAIN <<>> = {} /\ 1 .. 0 = {} /\ 1 .. 0 - 1 = {} /\ 3 .. 0 = {}
  OBVIOUS
<1>8. Travel(segments, position)
  <2>1. Leads(segments, Origin, position)
    BY <1>6, <1>7 DEF Leads
  <2>2. Reenters(segments) /\ Tagged(segments)
    BY <1>6, <1>7 DEF Reenters, Tagged
  <2> QED BY <1>6, <1>7, <2>1, <2>2 DEF Travel
<1>9. Timed(events, 0, Len(segments))
  BY <1>6, <1>7 DEF Timed
<1>10. SelectedIn(events, Len(segments)) = state.work_offset
  <2>1. {k \in DOMAIN events : Selects(events[k]) /\ events[k].at <= Len(segments)} = {}
    BY <1>6, <1>7
  <2> QED BY <1>6, <2>1 DEF SelectedIn
<1>11. Known
  <2> DEFINE x == [value |-> Origin, from_segment |-> 0]
  <2>1. /\ epochs = [id \in {1} |-> <<x>>] /\ offsets = [id \in {1} |-> Origin]
    BY DEF PowerUp
  <2>2. x.value = Origin /\ x.from_segment = 0
    OBVIOUS
  <2> HIDE DEF x
  <2>3. <<x>> \in Seq({x}) /\ Len(<<x>>) = 1 /\ <<x>>[1] = x /\ 1 .. 1 = {1} /\ 0 \in 0 .. 0
    OBVIOUS
  <2>4. History(<<x>>, Len(segments), Origin)
    <3> DEFINE h == <<x>>
    <3>1. h \in Seq({x}) /\ Len(h) = 1 /\ h[1] = x
      BY <2>3
    <3> HIDE DEF h
    <3>2. \A k \in 1 .. Len(h) : k = 1
      BY <3>1
    <3>3. Len(segments) = 0
      BY <1>6, <1>7
    <3>4. /\ Len(h) > 0 /\ h[Len(h)].value = Origin
          /\ \A k \in 1 .. Len(h) : h[k].from_segment \in 0 .. Len(segments)
      BY <2>2, <2>3, <3>1, <3>2, <3>3
    <3> QED BY <3>1, <3>4 DEF History, h
  <2> QED BY <2>1, <2>4 DEF Known
<1>12. OffsetsRecoverable
  BY <1>6, <1>7 DEF OffsetsRecoverable
<1> QED BY <1>4, <1>5, <1>8, <1>9, <1>10, <1>11, <1>12 DEF ProgramInv, ParseInv

(* So it holds at first, also of a text that is refused and never interpreted.*)
LEMMA InitParses == ProgramInit \/ ParseInit => ProgramInv
<1>1. ASSUME PowerUp, program \in Programs, stack = <<Frame(1, Len(program))>> PROVE ProgramInv
  <2>1. program \in Programs /\ PowerUp /\ stack = <<Frame(1, Len(program))>>
    BY <1>1
  <2>2. Len(program) \in Nat
    BY <2>1, ProgramTyped
  <2> DEFINE f == Frame(1, Len(program))
  <2>3. IsFrame(f)
    BY <2>2 DEF IsFrame, FrameType, Frame
  <2>4. f \in FrameType
    BY <2>3 DEF IsFrame
  <2> HIDE DEF f
  <2>5. <<f>> \in Seq(FrameType) /\ Len(<<f>>) = 1 /\ <<f>>[1] = f /\ 1 .. 1 = {1}
    BY <2>4
  <2>6. stack = <<f>>
    BY <2>1 DEF f
  <2>7. IsRanges(stack)
    BY <2>3, <2>5, <2>6 DEF IsRanges
  <2> QED BY <2>1, <2>7, PowerUpParses
<1>2. ASSUME PowerUp, program \in Programs, stack = <<>> PROVE ProgramInv
  <2>2. <<>> \in Seq(FrameType) /\ Len(<<>>) = 0 /\ 1 .. 0 = {}
    OBVIOUS
  <2>3. IsRanges(stack)
    BY <1>2, <2>2 DEF IsRanges
  <2> QED BY <1>2, <2>3, PowerUpParses
<1>3. ASSUME text \in Texts, program = parse(text).blocks PROVE program \in Programs
  BY <1>3, ParseAssumption DEF ParseAssumption
<1> QED BY <1>1, <1>2, <1>3 DEF ParseInit, ProgramInit, Init

(* A step that interprets no block.                                          *)
LEMMA NothingParsed ==
  ASSUME ParseInv, UNCHANGED <<state, position, g92, offsets, epochs, segments, events>>
  PROVE  ParseInv'
<1>1. \A i : OffsetRead(i)' = OffsetRead(i)
  BY DEF OffsetRead, OffsetSelected, EpochsOf, Origin, Axis
<1>2. OffsetsRecoverable'
  <2> HIDE DEF OffsetRead
  <2> QED BY <1>1 DEF ParseInv, OffsetsRecoverable
<1>3. Located' /\ Known'
  BY DEF ParseInv, Located, Known
<1> QED BY <1>2, <1>3 DEF ParseInv

(* Every step of the parse keeps it.                                        *)
LEMMA NextParses == ProgramInv /\ [ProgramNext]_programVars => ProgramInv'
<1> SUFFICES ASSUME ProgramInv, [ProgramNext]_programVars
             PROVE  ProgramInv'
  OBVIOUS
<1>1. ParseInv /\ IsRanges(stack) /\ program \in Programs
  BY DEF ProgramInv
<1>keep. ASSUME program' = program, IsRanges(stack'), ParseInv' PROVE ProgramInv'
  BY <1>1, <1>keep, RangesStay DEF ProgramInv
<1>still. ASSUME UNCHANGED vars PROVE ParseInv'
  BY <1>1, <1>still, NothingParsed DEF vars
<1>2. CASE ExecuteBlock
  <2>1. IsBlock(Current) /\ execute(Current) /\ stack' = Advanced /\ program' = program
    BY <1>2, CurrentIsBlock DEF ExecuteBlock
  <2>2. stack # <<>> /\ Top.repeats = 0
    BY <1>2 DEF ExecuteBlock, AtBlock, Running
  <2> HIDE DEF Current, Top
  <2>3. ParseInv'
    BY <1>1, <2>1, ExecuteParses
  <2>4. IsRanges(stack')
    BY <2>1, <2>2, AdvancedRanges
  <2> QED BY <2>1, <2>3, <2>4, <1>keep
<1>3. CASE Stop
  <2>1. IsBlock(Current) /\ execute(Current) /\ stack' = Front(stack) /\ program' = program
    BY <1>3, CurrentIsBlock DEF Stop
  <2>2. stack # <<>>
    BY <1>3 DEF Stop, AtBlock, Running
  <2> HIDE DEF Current
  <2>3. ParseInv'
    BY <1>1, <2>1, ExecuteParses
  <2>4. IsRanges(stack')
    BY <1>1, <2>1, <2>2, FrontRanges
  <2> QED BY <2>1, <2>3, <2>4, <1>keep
<1>4. CASE Return
  <2>1. stack # <<>> /\ stack' = Front(stack) /\ program' = program /\ UNCHANGED vars
    BY <1>4 DEF Return, Running
  <2>2. IsRanges(stack')
    BY <1>1, <2>1, FrontRanges
  <2> QED BY <2>1, <2>2, <1>keep, <1>still
<1>5. CASE BeginCall
  <2>1. program' = program /\ UNCHANGED vars /\ stack # <<>> /\ Top.repeats = 0
    BY <1>5 DEF BeginCall, AtBlock, Running
  <2>2. Top.index \in DOMAIN program /\ IsBlock(Current)
    BY <1>5, CurrentIsBlock DEF BeginCall
  <2>3. CASE Has(Current, "p") /\ Word(Current, "l", 1) > 0
    <3> DEFINE l == Word(Current, "l", 1)
               f == [Top EXCEPT !.repeats = l]
    <3>1. stack' = [stack EXCEPT ![Len(stack)].repeats = l] /\ Current.p \in DOMAIN subprogram_table
      BY <1>5, <2>3 DEF BeginCall
    <3>2. l \in Nat
      BY <2>2 DEF Word, IsBlock
    <3>3. Top = stack[Len(stack)] /\ IsFrame(Top)
      BY <2>1, TopTyped
    <3>4. program[Top.index].p \in DOMAIN subprogram_table
      BY <3>1 DEF Current
    <3> HIDE DEF l
    <3>5. stack' = [stack EXCEPT ![Len(stack)] = f]
      BY <3>1, <3>3
    <3>6. IsFrame(f)
      <4> DEFINE t == Top
      <4>1. t \in FrameType /\ t.last <= Len(program) /\ t.index \in DOMAIN program
            /\ program[t.index].p \in DOMAIN subprogram_table
        BY <3>3, <3>4, <2>2 DEF IsFrame
      <4> HIDE DEF t
      <4>2. [t EXCEPT !.repeats = l] \in FrameType /\ [t EXCEPT !.repeats = l].last = t.last
            /\ [t EXCEPT !.repeats = l].index = t.index
        BY <4>1, <3>2 DEF FrameType
      <4> DEFINE g == [t EXCEPT !.repeats = l]
      <4> HIDE DEF g
      <4>3. IsFrame(g)
        BY <4>1, <4>2 DEF IsFrame, g
      <4> QED BY <4>3 DEF g, t
    <3> HIDE DEF f
    <3>7. IsRanges(stack')
      BY <3>5, <3>6, <1>1, ChangedRanges
    <3> QED BY <3>7, <2>1, <1>keep, <1>still
  <2>4. CASE ~(Has(Current, "p") /\ Word(Current, "l", 1) > 0)
    <3>1. stack' = Advanced
      BY <1>5, <2>4 DEF BeginCall
    <3>2. IsRanges(stack')
      BY <3>1, <2>1, AdvancedRanges
    <3> QED BY <3>2, <2>1, <1>keep, <1>still
  <2> QED BY <2>3, <2>4
<1>6. CASE EnterBody
  <2> DEFINE body == subprogram_table[Current.p]
             t == Top
             left == t.repeats - 1
             caller == [t EXCEPT !.repeats = left, !.index = IF left = 0 THEN @ + 1 ELSE @]
             f == Frame(body.first, body.last)
  <2>1. /\ program' = program /\ UNCHANGED vars /\ stack # <<>> /\ t.repeats > 0
        /\ stack' = Append(Append(Front(stack), caller), f)
    BY <1>6 DEF EnterBody, Running, RepeatsLeft
  <2>2. IsFrame(t)
    BY <2>1, TopTyped
  <2>3. t \in FrameType /\ t.last <= Len(program) /\ t.index \in DOMAIN program
        /\ program[t.index].p \in DOMAIN subprogram_table
    BY <2>1, <2>2 DEF IsFrame
  <2>4. Current.p \in DOMAIN subprogram_table
    BY <2>3 DEF Current
  <2>5. body.first \in Nat \ {0} /\ body.last \in Int /\ body.last <= Len(program)
    BY <2>4, <1>1, BodyTyped
  <2> HIDE DEF body, t
  <2>6. IsFrame(f)
    BY <2>5 DEF IsFrame, FrameType, Frame
  <2>7. IsFrame(caller)
    <3>1. left \in Nat
      BY <2>1, <2>3 DEF FrameType
    <3> HIDE DEF left
    <3>2. caller = [index |-> IF left = 0 THEN t.index + 1 ELSE t.index, last |-> t.last, repeats |-> left]
      <4>1. t = [index |-> t.index, last |-> t.last, repeats |-> t.repeats]
        BY <2>3 DEF FrameType
      <4> DEFINE i == t.index
                 j == t.last
                 r == t.repeats
                 u == [index |-> i, last |-> j, repeats |-> r]
      <4> HIDE DEF i, j, r
      <4>2. [u EXCEPT !.repeats = left, !.index = IF left = 0 THEN @ + 1 ELSE @]
              = [index |-> IF left = 0 THEN i + 1 ELSE i, last |-> j, repeats |-> left]
        <5>1. u.index = i
          OBVIOUS
        <5> DEFINE v == IF left = 0 THEN i + 1 ELSE i
        <5> HIDE DEF v
        <5>2. [u EXCEPT !.repeats = left, !.index = v] = [index |-> v, last |-> j, repeats |-> left]
          <6>1. [u EXCEPT !.repeats = left] = [index |-> i, last |-> j, repeats |-> left]
            OBVIOUS
          <6>2. [[index |-> i, last |-> j, repeats |-> left] EXCEPT !.index = v]
                  = [index |-> v, last |-> j, repeats |-> left]
            OBVIOUS
          <6> QED BY <6>1, <6>2
        <5> HIDE DEF u
        <5> QED BY <5>1, <5>2 DEF v
      <4> HIDE DEF u
      <4>3. t = u
        BY <4>1 DEF u, i, j, r
      <4> QED BY <4>2, <4>3 DEF i, j
    <3>3. t.index \in Nat \ {0} /\ t.last \in Int
      BY <2>3 DEF FrameType
    <3> HIDE DEF caller
    <3>4. caller \in FrameType /\ caller.last = t.last /\ caller.repeats = left
          /\ (left > 0 => caller.index = t.index)
      BY <3>1, <3>2, <3>3 DEF FrameType
    <3> QED BY <2>3, <3>4 DEF IsFrame
  <2> HIDE DEF caller, f
  <2>8. IsRanges(stack')
    BY <1>1, <2>1, <2>6, <2>7, FrontRanges, AppendedRanges
  <2> QED BY <2>1, <2>8, <1>keep, <1>still
<1>7. CASE CallFails
  <2>1. UNCHANGED <<state, position, g92, offsets, epochs, segments, events, program, stack>>
    BY <1>7 DEF CallFails
  <2> QED BY <2>1, <1>1, <1>keep, NothingParsed
<1>8. CASE UNCHANGED programVars
  BY <1>8, <1>1, <1>keep, <1>still DEF programVars
<1> QED BY <1>2, <1>3, <1>4, <1>5, <1>6, <1>7, <1>8 DEF ProgramNext, Finished
-----------------------------------------------------------------------------
(* Whatever the program, every motion mode, offset and repeat count: what    *)
(* the parse has emitted at any moment is a toolpath that Toolpath::new      *)
(* accepts. Segments lead from the machine's origin to its position, every   *)
(* feed move has a rate, and the events stand in order within the segments.  *)
THEOREM ToolpathValidHolds == ProgramSpec \/ ParseSpec => []ToolpathValid
<1>1. ProgramInv => ToolpathValid
  <2> SUFFICES ASSUME ProgramInv PROVE ToolpathValid
    OBVIOUS
  <2>1. Travel(segments, position) /\ Timed(events, 0, Len(segments))
    BY DEF ProgramInv, ParseInv
  <2>2. /\ Leads(segments, Origin, position)
        /\ \A i \in 1 .. Len(segments) : segments[i].kind # "rapid" => segments[i].feed # None
    BY <2>1 DEF Travel
  <2> QED BY <2>1, <2>2 DEF ToolpathValid, Leads, Timed
<1> QED BY InitParses, NextParses, StepsOfProgram, <1>1, PTL DEF ProgramSpec, ParseSpec

(* Whatever the program and however it redefines and selects its work        *)
(* offsets: from the epochs and the events alone a reader finds, for every   *)
(* segment, the offset that was in force when it was made.                   *)
THEOREM OffsetsRecoverableHolds == ProgramSpec \/ ParseSpec => []OffsetsRecoverable
<1>1. ProgramInv => OffsetsRecoverable
  BY DEF ProgramInv, ParseInv
<1> QED BY InitParses, NextParses, StepsOfProgram, <1>1, PTL DEF ProgramSpec, ParseSpec

(* Whatever the program, its pecks, repeats and clearances: no re-entry of a *)
(* cycle rapids below what the feed before it has cut.                       *)
THEOREM ReentryThroughAirHolds == ProgramSpec \/ ParseSpec => []ReentryThroughAir
<1>1. ProgramInv => ReentryThroughAir
  BY DEF ProgramInv, ParseInv, Travel, Reenters, ReentryThroughAir
<1> QED BY InitParses, NextParses, StepsOfProgram, <1>1, PTL DEF ProgramSpec, ParseSpec

(* After G92 an absolute move to the same words goes nowhere, for every      *)
(* program and whatever units, offset and earlier shift are in force.        *)
THEOREM G92ReadsAsProgrammedHolds == ProgramSpec \/ ParseSpec => G92ReadsAsProgrammed
<1> DEFINE Reads == AtBlock /\ apply_g92(Current) /\ Word(Current, "nonmodal", None) = "G92"
                      /\ tool_length_correction(state') = 0
                    => \A a \in DOMAIN Current \cap Axis :
                         axis_value(state', Current, a) + active_offset(state')[a] + g92'[a] = position[a]
<1>1. ProgramInv => Reads
  <2> SUFFICES ASSUME ProgramInv, AtBlock, apply_g92(Current), Word(Current, "nonmodal", None) = "G92",
                      NEW a \in DOMAIN Current \cap Axis
               PROVE  axis_value(state', Current, a) + active_offset(state')[a] + g92'[a] = position[a]
    OBVIOUS
  <2> DEFINE b == Current
             m == state'
  <2>1. IsBlock(b) /\ Located
    BY CurrentIsBlock DEF ProgramInv, ParseInv
  <2>2. g92' = Shift(m, b)
    BY DEF apply_g92
  <2>3. a \in Axis /\ Has(b, a)
    BY DEF Has
  <2> HIDE DEF b, m
  <2>4. g92'[a] = position[a] - active_offset(m)[a] - axis_value(m, b, a)
    BY <2>2, <2>3 DEF Shift
  <2>5. active_offset(m) \in Point /\ position \in Point /\ axis_value(m, b, a) \in Int
    BY <2>1, <2>3, OffsetIsPoint, AxisValueIsInt DEF Located
  <2>6. active_offset(m)[a] \in Int /\ position[a] \in Int
    BY <2>3, <2>5 DEF Point
  <2>7. axis_value(m, b, a) + active_offset(m)[a] + g92'[a] = position[a]
    BY <2>4, <2>5, <2>6
  <2> QED BY <2>7 DEF b, m
<1>2. ProgramInv /\ [ProgramNext]_programVars => [Reads]_programVars
  <2> HIDE DEF Reads
  <2> QED BY <1>1
<1> QED BY InitParses, NextParses, StepsOfProgram, <1>2, PTL DEF ProgramSpec, ParseSpec, G92ReadsAsProgrammed
=============================================================================
