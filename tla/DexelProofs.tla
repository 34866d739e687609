---------------------------- MODULE DexelProofs -----------------------------
(***************************************************************************)
(* Theorems about the span algebra, for every threshold and every task, and *)
(* about the arena that stores the spans of a bundle.                       *)
(*                                                                         *)
(* That the result is a set of spans (StructurallyValid), that the merge    *)
(* reads before it overwrites and that all is in range rest on IInv, and    *)
(* need nothing of the operands: the merge makes its result a set whatever  *)
(* the scan hands it. That the result is the right set (ResultIsTheSet)     *)
(* rests on CellsInv, which says of every stage what cells the list stands  *)
(* for; that its bounds face out (FacesOutward), on FacesInv. These two     *)
(* take the operands to be sets with faces of their own.                    *)
(***************************************************************************)
EXTENDS Spans, Arena, SequenceTheorems, FiniteSetTheorems, TLAPS

\* What the scan knows of its indices, and of the span it has open.
ScanInv ==
  /\ task \in Tasks
  /\ ia \in 1 .. Len(task.a) + 1 /\ in_a \in BOOLEAN
  /\ ib \in 1 .. Len(task.b) + 1 /\ in_b \in BOOLEAN
  /\ open = None \/ (open.t \in Int /\ open.n \in Normal)

\* The kept spans are valid, long enough and apart, and so is the current one
\* from the last of them.
KeptInv ==
  /\ write \in Nat \ {0}
  /\ \A i \in 1 .. write - 1 : is_valid(out[i]) /\ length(out[i]) >= Eps
  /\ \A i \in 1 .. write - 2 : out[i + 1].t0 - out[i].t1 > Eps
  /\ write > 1 => current.t0 - out[write - 1].t1 > Eps

\* The spans still to be read are valid and in order, none before the current.
UnreadInv ==
  /\ write < read
  /\ \A i \in read .. Len(out) : is_valid(out[i]) /\ out[i].t0 >= current.t0
  /\ \A i, j \in read .. Len(out) : i < j => out[i].t0 <= out[j].t0

MergeInv ==
  stage = "merge" =>
    /\ current \in Span /\ is_valid(current)
    /\ read \in 2 .. Len(out) + 1
    /\ KeptInv
    /\ UnreadInv

IInv ==
  /\ stage \in {"scan", "sort", "merge", "push", "done"}
  /\ stage = "push" => task.op = "push"
  /\ out \in Seq(Span)
  /\ pushed \in 0 .. Len(task.a)
  /\ ScanInv
  /\ MergeInv
  /\ StructurallyValid
-----------------------------------------------------------------------------
(* What the assumptions say of one task.                                   *)
LEMMA TaskType ==
  ASSUME NEW t \in Tasks
  PROVE  /\ t.op \in SetOps \cup {"collect", "push"}
         /\ t.a \in Seq(Span) /\ Len(t.a) \in Nat
         /\ t.b \in Seq(Span) /\ Len(t.b) \in Nat
  BY SpansAssumption, LenProperties DEF SpansAssumption

(* Extending a span leaves where it starts and makes it no shorter.         *)
LEMMA ExtendedProperties ==
  ASSUME NEW s \in Span, NEW n \in Span, is_valid(s)
  PROVE  /\ Extended(s, n) \in Span
         /\ is_valid(Extended(s, n))
         /\ Extended(s, n).t0 = s.t0
<1>1. CASE n.t1 > s.t1
  <2>1. Extended(s, n) = [s EXCEPT !.t1 = n.t1, !.n1 = n.n1]
    BY <1>1 DEF Extended
  <2>2. Extended(s, n) = [t0 |-> s.t0, t1 |-> n.t1, n0 |-> s.n0, n1 |-> n.n1]
    BY <2>1 DEF Span
  <2>3. QED
    BY <1>1, <2>2 DEF Span, is_valid
<1>2. CASE ~(n.t1 > s.t1)
  BY <1>2 DEF Extended
<1>3. QED
  BY <1>1, <1>2

(* A call begins in order.                                                 *)
LEMMA InitInv == Init => IInv
<1> SUFFICES ASSUME Init PROVE IInv
  OBVIOUS
<1>1. task \in Tasks
  BY DEF Init
<1>2. /\ task.op \in SetOps \cup {"collect", "push"}
      /\ task.a \in Seq(Span) /\ Len(task.a) \in Nat
      /\ task.b \in Seq(Span) /\ Len(task.b) \in Nat
  BY <1>1, TaskType
<1>3. ScanInv
  <2>1. ia \in 1 .. Len(task.a) + 1 /\ ib \in 1 .. Len(task.b) + 1
    BY <1>2 DEF Init
  <2>2. in_a \in BOOLEAN /\ in_b \in BOOLEAN /\ open = None
    BY Zenon DEF Init
  <2>3. QED
    BY <1>1, <2>1, <2>2 DEF ScanInv
<1>4. out \in Seq(Span) /\ pushed \in 0 .. Len(task.a)
  BY <1>2 DEF Init
<1>5. stage \in {"scan", "sort", "push"} /\ (stage = "push" <=> task.op = "push")
  BY <1>2 DEF Init, SetOps
<1>6. MergeInv
  BY <1>5 DEF MergeInv
<1>7. StructurallyValid
  <2>1. stage = "push" => out = <<>>
    BY <1>5 DEF Init
  <2>2. QED
    BY <1>5, <2>1 DEF StructurallyValid
<1>8. QED
  BY <1>3, <1>4, <1>5, <1>6, <1>7 DEF IInv
-----------------------------------------------------------------------------
(* The scan *)

(* While the scan is not spent there is an endpoint to take, and a surface. *)
LEMMA NextEndpoint ==
  ASSUME IInv, ~ScanSpent
  PROVE  /\ At \in Int
         /\ normal_here \in Normal
         /\ ea = At => ia <= Len(task.a)
         /\ eb = At => ib <= Len(task.b)
<1>1. /\ task.op \in SetOps \cup {"collect", "push"}
      /\ task.a \in Seq(Span) /\ Len(task.a) \in Nat
      /\ task.b \in Seq(Span) /\ Len(task.b) \in Nat
  BY TaskType DEF IInv, ScanInv
<1>2. ASSUME ia <= Len(task.a) PROVE task.a[ia] \in Span
  BY <1>1, <1>2, ElementOfSeq DEF IInv, ScanInv
<1>3. ASSUME ib <= Len(task.b) PROVE task.b[ib] \in Span
  BY <1>1, <1>3, ElementOfSeq DEF IInv, ScanInv
<1>4. ea = None \/ (ia <= Len(task.a) /\ ea \in Int)
  <2>1. ia \in Int /\ Len(task.a) \in Int
    BY <1>1 DEF IInv, ScanInv
  <2>2. CASE ia <= Len(task.a)
    <3>1. task.a[ia].t0 \in Int /\ task.a[ia].t1 \in Int
      BY <1>2, <2>2 DEF Span
    <3>2. QED
      BY <2>1, <2>2, <3>1 DEF ea, Endpoint
  <2>3. CASE ia > Len(task.a)
    BY <2>3 DEF ea, Endpoint
  <2>4. QED
    BY <2>1, <2>2, <2>3
<1>5. eb = None \/ (ib <= Len(task.b) /\ eb \in Int)
  <2>1. ib \in Int /\ Len(task.b) \in Int
    BY <1>1 DEF IInv, ScanInv
  <2>2. CASE ib <= Len(task.b)
    <3>1. task.b[ib].t0 \in Int /\ task.b[ib].t1 \in Int
      BY <1>3, <2>2 DEF Span
    <3>2. QED
      BY <2>1, <2>2, <3>1 DEF eb, Endpoint
  <2>3. CASE ib > Len(task.b)
    BY <2>3 DEF eb, Endpoint
  <2>4. QED
    BY <2>1, <2>2, <2>3
<1>6. ~(ea = None /\ eb = None)
  BY DEF ScanSpent
<1>7. At # None /\ (At = ea \/ At = eb)
  BY <1>6 DEF At
<1>8. /\ ea = At => ia <= Len(task.a) /\ ea \in Int
      /\ eb = At => ib <= Len(task.b) /\ eb \in Int
  BY <1>4, <1>5, <1>7
<1>9. ea = At => Surface(task.a, ia, in_a) \in Normal
  BY <1>2, <1>8 DEF Surface, Span
<1>10. eb = At => Surface(task.b, ib, in_b) \in Normal
  BY <1>3, <1>8 DEF Surface, Span
<1>11. \A n \in Normal : negated(n) \in Normal
  BY DEF negated, Normal
<1>12. normal_here \in Normal
  BY <1>7, <1>9, <1>10, <1>11 DEF normal_here
<1>13. QED
  BY <1>7, <1>8, <1>12

(* An iteration of the scan keeps what the scan knows.                     *)
LEMMA ScanEndpointInv == IInv /\ ScanEndpoint => IInv'
<1> SUFFICES ASSUME IInv, ScanEndpoint PROVE IInv'
  OBVIOUS
<1>1. /\ At \in Int
      /\ normal_here \in Normal
      /\ ea = At => ia <= Len(task.a)
      /\ eb = At => ib <= Len(task.b)
  BY NextEndpoint DEF ScanEndpoint
<1>2. /\ stage = "scan" /\ stage' = "scan" /\ task' = task /\ pushed' = pushed
      /\ Len(task.a) \in Nat /\ Len(task.b) \in Nat
  BY TaskType DEF ScanEndpoint, IInv, ScanInv
<1>3. ia' \in 1 .. Len(task.a) + 1 /\ in_a' \in BOOLEAN
  <2>1. in_a' \in BOOLEAN /\ (ia' = ia \/ (ea = At /\ ia' = ia + 1))
    BY Zenon DEF ScanEndpoint
  <2>2. ia \in 1 .. Len(task.a) + 1
    BY DEF IInv, ScanInv
  <2>3. ia' \in 1 .. Len(task.a) + 1
    BY <1>1, <1>2, <2>1, <2>2
  <2>4. QED
    BY <2>1, <2>3
<1>4. ib' \in 1 .. Len(task.b) + 1 /\ in_b' \in BOOLEAN
  <2>1. in_b' \in BOOLEAN /\ (ib' = ib \/ (eb = At /\ ib' = ib + 1))
    BY Zenon DEF ScanEndpoint
  <2>2. ib \in 1 .. Len(task.b) + 1
    BY DEF IInv, ScanInv
  <2>3. ib' \in 1 .. Len(task.b) + 1
    BY <1>1, <1>2, <2>1, <2>2
  <2>4. QED
    BY <2>1, <2>3
<1>5. open' = None \/ (open'.t \in Int /\ open'.n \in Normal)
  BY <1>1 DEF ScanEndpoint, IInv, ScanInv
<1>6. out' \in Seq(Span)
  <2>1. CASE out' = out
    BY <2>1 DEF IInv
  <2>2. CASE /\ open # None
             /\ out' = Append(out, [t0 |-> open.t, t1 |-> At, n0 |-> open.n, n1 |-> normal_here])
    <3> DEFINE s == [t0 |-> open.t, t1 |-> At, n0 |-> open.n, n1 |-> normal_here]
    <3>1. s \in Span
      BY <1>1, <2>2 DEF IInv, ScanInv, Span
    <3>2. QED
      BY <2>2, <3>1, AppendProperties DEF IInv
  <2>3. QED
    BY <2>1, <2>2 DEF ScanEndpoint
<1>7. ScanInv'
  BY <1>2, <1>3, <1>4, <1>5 DEF ScanInv, IInv
<1>8. QED
  BY <1>2, <1>6, <1>7 DEF IInv, MergeInv, StructurallyValid

(* The spent scan hands its list on.                                       *)
LEMMA ScanEndInv == IInv /\ ScanEnd => IInv'
<1> SUFFICES ASSUME IInv, ScanEnd PROVE IInv'
  OBVIOUS
<1>1. /\ stage' = "sort" /\ task' = task /\ pushed' = pushed /\ out' = out
      /\ UNCHANGED <<ia, ib, in_a, in_b, open>>
  BY DEF ScanEnd, scanVars
<1>2. ScanInv'
  BY <1>1 DEF ScanInv, IInv
<1>3. QED
  BY <1>1, <1>2 DEF IInv, MergeInv, StructurallyValid
-----------------------------------------------------------------------------
(* The merge *)

(* Steps of the merge and of pushing leave what the scan knows alone.       *)
LEMMA ScanInvKept ==
  ASSUME IInv, UNCHANGED <<task, scanVars>>
  PROVE  ScanInv'
  BY DEF IInv, ScanInv, scanVars

(* Taken in order, the valid spans of a list are a list of valid spans that *)
(* ascends.                                                                 *)
LEMMA OrdersProperties ==
  ASSUME NEW s \in Seq(Span), NEW order \in Orders(s)
  PROVE  LET t == [i \in DOMAIN order |-> s[order[i]]]
         IN  /\ t \in Seq(Span)
             /\ \A i \in 1 .. Len(t) : is_valid(t[i])
             /\ \A i, j \in 1 .. Len(t) : i < j => t[i].t0 <= t[j].t0
<1> DEFINE valid == {i \in DOMAIN s : is_valid(s[i])}
           n == Cardinality(valid)
           t == [i \in DOMAIN order |-> s[order[i]]]
<1>1. DOMAIN s = 1 .. Len(s) /\ Len(s) \in Nat
  BY LenProperties
<1>2. n \in Nat
  <2>1. IsFiniteSet(1 .. Len(s))
    BY <1>1, FS_Interval
  <2>2. valid \subseteq 1 .. Len(s)
    BY <1>1
  <2>3. QED
    BY <2>1, <2>2, FS_Subset, FS_CardinalityType
<1>3. order \in [1 .. n -> valid]
  BY DEF Orders
<1>4. \A i, j \in 1 .. n : i < j => s[order[i]].t0 <= s[order[j]].t0
  <2> SUFFICES ASSUME NEW i \in 1 .. n, NEW j \in 1 .. n, i < j
               PROVE  s[order[i]].t0 <= s[order[j]].t0
    OBVIOUS
  <2>1. s[order[i]].t0 < s[order[j]].t0 \/ s[order[i]].t0 = s[order[j]].t0
    BY <1>3 DEF Orders
  <2>2. s[order[i]] \in Span /\ s[order[j]] \in Span
    BY <1>1, <1>3, ElementOfSeq
  <2>3. QED
    BY <2>1, <2>2 DEF Span
<1>5. \A i \in 1 .. n : s[order[i]] \in Span /\ is_valid(s[order[i]])
  BY <1>1, <1>3, ElementOfSeq
<1> HIDE DEF n, valid
<1>6. t \in [1 .. n -> Span]
  BY <1>3, <1>5
<1>7. t \in Seq(Span) /\ Len(t) = n
  BY <1>2, <1>6, SeqDef, LenProperties
<1>8. \A i \in 1 .. n : t[i] = s[order[i]]
  BY <1>3
<1>9. QED
  BY <1>4, <1>5, <1>7, <1>8

(* The sorted list has its first span current and the rest in order.       *)
LEMMA SortInv == IInv /\ Sort => IInv'
<1> SUFFICES ASSUME IInv, Sort PROVE IInv'
  OBVIOUS
<1>1. PICK order \in Orders(out) : out' = [i \in DOMAIN order |-> out[order[i]]]
  BY DEF Sort
<1>2. /\ out' \in Seq(Span)
      /\ \A i \in 1 .. Len(out') : is_valid(out'[i])
      /\ \A i, j \in 1 .. Len(out') : i < j => out'[i].t0 <= out'[j].t0
  BY <1>1, OrdersProperties DEF IInv
<1>3. /\ task' = task /\ pushed' = pushed /\ read' = 2 /\ write' = 1
      /\ UNCHANGED scanVars
  BY DEF Sort
<1>4. ScanInv'
  BY <1>3, ScanInvKept
<1>5. CASE out' = <<>>
  <2>1. stage' \in {"push", "done"} /\ (stage' = "push" => task.op = "push")
    BY <1>5 DEF Sort, Normalized
  <2>2. StructurallyValid'
    BY <1>5 DEF StructurallyValid
  <2>3. QED
    BY <1>2, <1>3, <1>4, <2>1, <2>2 DEF IInv, MergeInv
<1>6. CASE out' # <<>>
  <2>1. stage' = "merge" /\ current' = out'[1]
    BY <1>6 DEF Sort
  <2>2. Len(out') \in Nat /\ Len(out') >= 1
    BY <1>2, <1>6, EmptySeq, LenProperties
  <2>3. current' \in Span /\ is_valid(current')
    BY <1>2, <2>1, <2>2, ElementOfSeq
  <2>4. KeptInv'
    BY <1>3 DEF KeptInv
  <2>5. UnreadInv'
    <3> SUFFICES ASSUME NEW i \in 2 .. Len(out') PROVE out'[i].t0 >= current'.t0
      BY <1>2, <1>3, <2>2 DEF UnreadInv, is_valid
    <3>1. out'[1].t0 <= out'[i].t0
      BY <1>2, <2>2
    <3>2. out'[1] \in Span /\ out'[i] \in Span
      BY <1>2, <2>2, ElementOfSeq
    <3>3. QED
      BY <2>1, <3>1, <3>2 DEF Span
  <2>6. MergeInv'
    BY <1>3, <2>2, <2>3, <2>4, <2>5 DEF MergeInv
  <2>7. QED
    BY <1>2, <1>3, <1>4, <2>1, <2>6 DEF IInv, StructurallyValid
<1>7. QED
  BY <1>5, <1>6

(* What a span written into a list of spans leaves there.                   *)
LEMMA SpanWritten ==
  ASSUME NEW s \in Seq(Span), NEW n \in 1 .. Len(s), NEW v \in Span
  PROVE  LET t == [s EXCEPT ![n] = v]
         IN  /\ t \in Seq(Span) /\ Len(t) = Len(s)
             /\ t[n] = v
             /\ \A i \in 1 .. Len(s) : i # n => t[i] = s[i]
<1> DEFINE t == [s EXCEPT ![n] = v]
<1>1. s \in [1 .. Len(s) -> Span] /\ Len(s) \in Nat
  BY LenProperties
<1>2. t \in [1 .. Len(s) -> Span]
  BY <1>1
<1>3. t \in Seq(Span)
  BY <1>1, <1>2, SeqDef
<1>4. Len(t) = Len(s)
  BY <1>1, <1>2, <1>3, LenProperties
<1>5. QED
  BY <1>1, <1>3, <1>4

(* The finished current span is written behind the reader, if it is long    *)
(* enough: what is kept stays valid and apart, and what is unread stays.    *)
LEMMA CurrentWritten ==
  ASSUME IInv, stage = "merge"
  PROVE  /\ Written \in Seq(Span) /\ Len(Written) = Len(out)
         /\ WriteNext \in {write, write + 1}
         /\ \A i \in 1 .. WriteNext - 1 : is_valid(Written[i]) /\ length(Written[i]) >= Eps
         /\ \A i \in 1 .. WriteNext - 2 : Written[i + 1].t0 - Written[i].t1 > Eps
         /\ \A i \in read .. Len(out) : Written[i] = out[i]
         /\ WriteNext > 1 =>
              \/ WriteNext - 1 < write /\ Written[WriteNext - 1] = out[write - 1]
              \/ Written[WriteNext - 1] = current
<1>1. /\ out \in Seq(Span) /\ Len(out) \in Nat
      /\ current \in Span /\ is_valid(current)
      /\ read \in 2 .. Len(out) + 1
      /\ write \in Nat \ {0} /\ write < read
      /\ KeptInv
  BY LenProperties DEF IInv, MergeInv, KeptInv, UnreadInv
<1>2. CASE ~Survives(current)
  <2>1. Written = out /\ WriteNext = write
    BY <1>2 DEF Written, WriteNext
  <2>2. QED
    BY <1>1, <2>1 DEF KeptInv
<1>3. CASE Survives(current)
  <2>1. Written = [out EXCEPT ![write] = current] /\ WriteNext = write + 1
    BY <1>3 DEF Written, WriteNext
  <2>2. write \in 1 .. Len(out)
    BY <1>1
  <2>3. /\ Written \in Seq(Span) /\ Len(Written) = Len(out)
        /\ Written[write] = current
        /\ \A i \in 1 .. Len(out) : i # write => Written[i] = out[i]
    BY <1>1, <2>1, <2>2, SpanWritten
  <2>4. \A i \in 1 .. write : is_valid(Written[i]) /\ length(Written[i]) >= Eps
    <3> SUFFICES ASSUME NEW i \in 1 .. write
                 PROVE  is_valid(Written[i]) /\ length(Written[i]) >= Eps
      OBVIOUS
    <3>1. CASE i = write
      BY <1>1, <1>3, <2>3, <3>1 DEF Survives
    <3>2. CASE i # write
      BY <1>1, <2>2, <2>3, <3>2 DEF KeptInv
    <3>3. QED
      BY <3>1, <3>2
  <2>5. \A i \in 1 .. write - 1 : Written[i + 1].t0 - Written[i].t1 > Eps
    <3> SUFFICES ASSUME NEW i \in 1 .. write - 1
                 PROVE  Written[i + 1].t0 - Written[i].t1 > Eps
      OBVIOUS
    <3>1. Written[i] = out[i]
      BY <1>1, <2>2, <2>3
    <3>2. CASE i = write - 1
      BY <1>1, <2>3, <3>1, <3>2 DEF KeptInv
    <3>3. CASE i # write - 1
      <4>1. Written[i + 1] = out[i + 1] /\ i \in 1 .. write - 2
        BY <1>1, <2>2, <2>3, <3>3
      <4>2. QED
        BY <1>1, <3>1, <4>1 DEF KeptInv
    <3>4. QED
      BY <3>2, <3>3
  <2>6. \A i \in read .. Len(out) : Written[i] = out[i]
    BY <1>1, <2>3
  <2>7. WriteNext - 1 = write /\ WriteNext - 2 = write - 1
    BY <1>1, <2>1
  <2>8. QED
    BY <2>1, <2>3, <2>4, <2>5, <2>6, <2>7
<1>4. QED
  BY <1>2, <1>3

(* The merge reads one span on, fusing it or writing what it has.          *)
LEMMA MergeNextInv == IInv /\ MergeNext => IInv'
<1> SUFFICES ASSUME IInv, MergeNext PROVE IInv'
  OBVIOUS
<1> DEFINE next == out[read]
<1>1. /\ stage = "merge" /\ stage' = "merge" /\ task' = task /\ pushed' = pushed
      /\ read' = read + 1 /\ read <= Len(out)
      /\ UNCHANGED scanVars
  BY DEF MergeNext
<1>2. /\ out \in Seq(Span) /\ Len(out) \in Nat
      /\ current \in Span /\ is_valid(current)
      /\ read \in 2 .. Len(out) + 1
      /\ KeptInv /\ UnreadInv
      /\ write \in Nat \ {0} /\ write < read
  BY <1>1, LenProperties DEF IInv, MergeInv, KeptInv, UnreadInv
<1>3. next \in Span /\ is_valid(next) /\ next.t0 >= current.t0
  BY <1>1, <1>2, ElementOfSeq DEF UnreadInv
<1>4. ScanInv'
  BY <1>1, ScanInvKept
<1>5. SUFFICES /\ out' \in Seq(Span) /\ Len(out') = Len(out)
               /\ current' \in Span /\ is_valid(current')
               /\ KeptInv'
               /\ UnreadInv'
  BY <1>1, <1>2, <1>4 DEF IInv, MergeInv, StructurallyValid
<1>6. CASE Close(next.t0 - current.t1)
  <2>1. current' = Extended(current, next) /\ out' = out /\ write' = write
    BY <1>6 DEF MergeNext
  <2>2. current' \in Span /\ is_valid(current') /\ current'.t0 = current.t0
    BY <1>2, <1>3, <2>1, ExtendedProperties
  <2>3. KeptInv'
    BY <1>2, <2>1, <2>2 DEF KeptInv
  <2>4. UnreadInv'
    BY <1>1, <1>2, <2>1, <2>2 DEF UnreadInv
  <2>5. QED
    BY <1>2, <2>1, <2>2, <2>3, <2>4
<1>7. CASE ~Close(next.t0 - current.t1)
  <2>1. current' = next /\ out' = Written /\ write' = WriteNext
    BY <1>7 DEF MergeNext
  <2>2. next.t0 - current.t1 > Eps
    BY <1>2, <1>3, <1>7, SpansAssumption DEF Close, Span, SpansAssumption
  <2>3. /\ Written \in Seq(Span) /\ Len(Written) = Len(out)
        /\ WriteNext \in {write, write + 1}
        /\ \A i \in 1 .. WriteNext - 1 : is_valid(Written[i]) /\ length(Written[i]) >= Eps
        /\ \A i \in 1 .. WriteNext - 2 : Written[i + 1].t0 - Written[i].t1 > Eps
        /\ \A i \in read .. Len(out) : Written[i] = out[i]
        /\ WriteNext > 1 =>
             \/ WriteNext - 1 < write /\ Written[WriteNext - 1] = out[write - 1]
             \/ Written[WriteNext - 1] = current
    BY <1>1, CurrentWritten
  <2>4. WriteNext > 1 => next.t0 - Written[WriteNext - 1].t1 > Eps
    <3> SUFFICES ASSUME WriteNext > 1 PROVE next.t0 - Written[WriteNext - 1].t1 > Eps
      OBVIOUS
    <3>1. CASE Written[WriteNext - 1] = current
      BY <2>2, <3>1
    <3>2. CASE WriteNext - 1 < write /\ Written[WriteNext - 1] = out[write - 1]
      <4>1. write > 1
        BY <1>2, <2>3, <3>2
      <4>2. out[write - 1] \in Span /\ current.t0 - out[write - 1].t1 > Eps
        BY <1>2, <4>1, ElementOfSeq DEF KeptInv
      <4>3. \A c, d, e, f \in Int : c >= d /\ d - e > f => c - e > f
        OBVIOUS
      <4>4. next.t0 \in Int /\ current.t0 \in Int /\ out[write - 1].t1 \in Int /\ Eps \in Int
        BY <1>2, <1>3, <4>2, SpansAssumption DEF Span, SpansAssumption
      <4>5. next.t0 - out[write - 1].t1 > Eps
        BY <1>3, <4>2, <4>3, <4>4
      <4>6. QED
        BY <3>2, <4>5
    <3>3. QED
      BY <2>3, <3>1, <3>2
  <2>5. KeptInv'
    BY <1>2, <2>1, <2>3, <2>4 DEF KeptInv
  <2>6. UnreadInv'
    <3>1. write' < read'
      BY <1>1, <1>2, <2>1, <2>3
    <3>2. \A i \in read' .. Len(out') : i \in read .. Len(out) /\ i > read /\ out'[i] = out[i]
      BY <1>1, <1>2, <2>1, <2>3
    <3>3. \A i \in read' .. Len(out') : is_valid(out'[i]) /\ out'[i].t0 >= current'.t0
      BY <1>1, <1>2, <2>1, <3>2 DEF UnreadInv
    <3>4. \A i, j \in read' .. Len(out') : i < j => out'[i].t0 <= out'[j].t0
      BY <1>2, <3>2 DEF UnreadInv
    <3>5. QED
      BY <3>1, <3>3, <3>4 DEF UnreadInv
  <2>7. QED
    BY <1>3, <2>1, <2>3, <2>5, <2>6
<1>8. QED
  BY <1>6, <1>7

(* The first n spans of a list.                                             *)
LEMMA PrefixOfSpans ==
  ASSUME NEW s \in Seq(Span), NEW n \in Nat, n <= Len(s)
  PROVE  LET t == SubSeq(s, 1, n)
         IN  t \in Seq(Span) /\ Len(t) = n /\ \A i \in 1 .. n : t[i] = s[i]
<1>1. Len(s) \in Nat /\ DOMAIN s = 1 .. Len(s)
  BY LenProperties
<1>2. DOMAIN SubSeq(s, 1, n) = 1 .. n /\ SubSeq(s, 1, n) \in Seq(Span)
  BY <1>1
<1>3. \A i \in 1 .. n : SubSeq(s, 1, n)[i] = s[i]
  BY <1>1
<1>4. QED
  BY <1>2, <1>3, LenProperties

(* What the merge leaves is a set.                                         *)
LEMMA MergeEndInv == IInv /\ MergeEnd => IInv'
<1> SUFFICES ASSUME IInv, MergeEnd PROVE IInv'
  OBVIOUS
<1>1. /\ stage = "merge" /\ task' = task /\ pushed' = pushed
      /\ out' = SubSeq(Written, 1, WriteNext - 1)
      /\ UNCHANGED scanVars
  BY DEF MergeEnd
<1>2. stage' \in {"push", "done"} /\ (stage' = "push" => task.op = "push")
  BY DEF MergeEnd, Normalized
<1>3. ScanInv'
  BY <1>1, ScanInvKept
<1>4. /\ Len(out) \in Nat /\ write \in Nat \ {0} /\ write <= Len(out)
  BY <1>1, LenProperties DEF IInv, MergeInv, KeptInv, UnreadInv
<1>5. /\ Written \in Seq(Span) /\ Len(Written) = Len(out)
      /\ WriteNext \in {write, write + 1}
      /\ \A i \in 1 .. WriteNext - 1 : is_valid(Written[i]) /\ length(Written[i]) >= Eps
      /\ \A i \in 1 .. WriteNext - 2 : Written[i + 1].t0 - Written[i].t1 > Eps
  BY <1>1, CurrentWritten
<1> DEFINE n == WriteNext - 1
<1>6. n \in Nat /\ n <= Len(Written)
  BY <1>4, <1>5
<1>7. /\ out' \in Seq(Span) /\ Len(out') = n
      /\ \A i \in 1 .. n : out'[i] = Written[i]
  BY <1>1, <1>5, <1>6, PrefixOfSpans
<1>8. StructurallyValid'
  <2>1. DOMAIN out' = 1 .. n
    BY <1>7, LenProperties
  <2>2. \A i \in 1 .. n : is_valid(out'[i]) /\ length(out'[i]) >= Eps
    BY <1>5, <1>7
  <2>3. \A i \in 1 .. n - 1 : out'[i + 1].t0 - out'[i].t1 > Eps
    <3> SUFFICES ASSUME NEW i \in 1 .. n - 1 PROVE out'[i + 1].t0 - out'[i].t1 > Eps
      OBVIOUS
    <3>1. i \in 1 .. n /\ i + 1 \in 1 .. n /\ i \in 1 .. WriteNext - 2
      BY <1>6, <1>4, <1>5
    <3>2. QED
      BY <1>5, <1>7, <3>1
  <2>4. QED
    BY <1>7, <2>1, <2>2, <2>3 DEF StructurallyValid
<1>9. QED
  BY <1>1, <1>2, <1>3, <1>7, <1>8 DEF IInv, MergeInv
-----------------------------------------------------------------------------
(* The pushes *)

(* What holds at a push of a valid span, and what it leaves to be shown.    *)
LEMMA PushStep ==
  ASSUME IInv, Pushing
  PROVE  /\ stage = "push" /\ task.op = "push"
         /\ out \in Seq(Span) /\ Len(out) \in Nat
         /\ pushed + 1 \in 0 .. Len(task.a)
         /\ Pushed \in Span
         /\ \A i \in 1 .. Len(out) : is_valid(out[i])
         /\ \A i \in 1 .. Len(out) - 1 : out[i + 1].t0 - out[i].t1 > Eps
<1>1. /\ stage = "push" /\ task.op = "push" /\ pushed < Len(task.a)
      /\ out \in Seq(Span) /\ Len(out) \in Nat /\ DOMAIN out = 1 .. Len(out)
      /\ pushed \in 0 .. Len(task.a)
      /\ task.a \in Seq(Span) /\ Len(task.a) \in Nat
  BY TaskType, LenProperties DEF Pushing, IInv, ScanInv
<1>2. Pushed \in Span
  BY <1>1, ElementOfSeq DEF Pushed
<1>3. QED
  BY <1>1, <1>2 DEF IInv, StructurallyValid

(* An invalid span changes nothing.                                        *)
LEMMA PushIgnoredInv == IInv /\ PushIgnored => IInv'
<1> SUFFICES ASSUME IInv, PushIgnored PROVE IInv'
  OBVIOUS
<1>1. /\ stage' = stage /\ task' = task /\ out' = out /\ pushed' = pushed + 1
      /\ UNCHANGED <<scanVars, mergeVars>>
  BY DEF PushIgnored
<1>2. stage = "push" /\ task.op = "push" /\ pushed + 1 \in 0 .. Len(task.a)
  BY PushStep DEF PushIgnored
<1>3. ScanInv'
  BY <1>1, ScanInvKept
<1>4. QED
  BY <1>1, <1>2, <1>3 DEF IInv, MergeInv, StructurallyValid

(* A span pushed in order is fused into the last one or put behind it.     *)
LEMMA PushInOrderInv == IInv /\ PushInOrder => IInv'
<1> SUFFICES ASSUME IInv, PushInOrder PROVE IInv'
  OBVIOUS
<1>1. /\ stage' = stage /\ task' = task /\ pushed' = pushed + 1
      /\ is_valid(Pushed)
      /\ UNCHANGED <<scanVars, mergeVars>>
  BY DEF PushInOrder
<1>2. /\ stage = "push" /\ task.op = "push"
      /\ out \in Seq(Span) /\ Len(out) \in Nat
      /\ pushed + 1 \in 0 .. Len(task.a)
      /\ Pushed \in Span
      /\ \A i \in 1 .. Len(out) : is_valid(out[i])
      /\ \A i \in 1 .. Len(out) - 1 : out[i + 1].t0 - out[i].t1 > Eps
  BY PushStep DEF PushInOrder
<1>3. ScanInv'
  BY <1>1, ScanInvKept
<1>4. SUFFICES /\ out' \in Seq(Span)
               /\ \A i \in 1 .. Len(out') : is_valid(out'[i])
               /\ \A i \in 1 .. Len(out') - 1 : out'[i + 1].t0 - out'[i].t1 > Eps
  <2>1. DOMAIN out' = 1 .. Len(out')
    BY <1>4, LenProperties
  <2>2. QED
    BY <1>1, <1>2, <1>3, <1>4, <2>1 DEF IInv, MergeInv, StructurallyValid
<1>5. CASE out # <<>> /\ Close(Pushed.t0 - Last(out).t1)
  <2> DEFINE n == Len(out)
             e == Extended(out[n], Pushed)
  <2>1. out' = [out EXCEPT ![n] = e]
    BY <1>5 DEF PushInOrder
  <2>2. n \in 1 .. Len(out)
    BY <1>2, <1>5, EmptySeq
  <2>3. out[n] \in Span /\ is_valid(out[n])
    BY <1>2, <2>2, ElementOfSeq
  <2>4. e \in Span /\ is_valid(e) /\ e.t0 = out[n].t0
    BY <1>2, <2>3, ExtendedProperties
  <2> HIDE DEF e
  <2>5. /\ out' \in Seq(Span) /\ Len(out') = n /\ out'[n] = e
        /\ \A i \in 1 .. n : i # n => out'[i] = out[i]
    BY <1>2, <2>1, <2>2, <2>4, SpanWritten
  <2>6. \A i \in 1 .. n : is_valid(out'[i])
    BY <1>2, <2>4, <2>5
  <2>7. \A i \in 1 .. n - 1 : out'[i + 1].t0 - out'[i].t1 > Eps
    <3> SUFFICES ASSUME NEW i \in 1 .. n - 1 PROVE out'[i + 1].t0 - out'[i].t1 > Eps
      OBVIOUS
    <3>1. out'[i] = out[i]
      BY <1>2, <2>5
    <3>2. out'[i + 1].t0 = out[i + 1].t0
      BY <1>2, <2>4, <2>5
    <3>3. QED
      BY <1>2, <3>1, <3>2
  <2>8. QED
    BY <2>5, <2>6, <2>7
<1>6. CASE ~(out # <<>> /\ Close(Pushed.t0 - Last(out).t1))
  <2> DEFINE n == Len(out)
  <2>1. out' = Append(out, Pushed)
    BY <1>6 DEF PushInOrder
  <2>2. /\ out' \in Seq(Span) /\ Len(out') = n + 1 /\ out'[n + 1] = Pushed
        /\ \A i \in 1 .. n : out'[i] = out[i]
    BY <1>2, <2>1, AppendProperties
  <2>3. \A i \in 1 .. n + 1 : is_valid(out'[i])
    BY <1>1, <1>2, <2>2
  <2>4. \A i \in 1 .. n : out'[i + 1].t0 - out'[i].t1 > Eps
    <3> SUFFICES ASSUME NEW i \in 1 .. n PROVE out'[i + 1].t0 - out'[i].t1 > Eps
      OBVIOUS
    <3>1. CASE i = n
      <4>1. out # <<>> /\ Last(out) = out[n] /\ out[n] \in Span
        BY <1>2, <3>1, EmptySeq, ElementOfSeq DEF Last
      <4>2. ~(Pushed.t0 - out[n].t1 <= Eps)
        BY <1>6, <4>1 DEF Close
      <4>3. Pushed.t0 - out[n].t1 > Eps
        BY <1>2, <4>1, <4>2, SpansAssumption DEF Span, SpansAssumption
      <4>4. QED
        BY <2>2, <3>1, <4>3
    <3>2. CASE i # n
      BY <1>2, <2>2, <3>2
    <3>3. QED
      BY <3>1, <3>2
  <2>5. QED
    BY <1>2, <2>2, <2>3, <2>4
<1>7. QED
  BY <1>5, <1>6

(* One pushed out of order sends the list through the merge.               *)
LEMMA PushOutOfOrderInv == IInv /\ PushOutOfOrder => IInv'
<1> SUFFICES ASSUME IInv, PushOutOfOrder PROVE IInv'
  OBVIOUS
<1>1. /\ stage' = "sort" /\ task' = task /\ out' = Append(out, Pushed)
      /\ pushed' = pushed + 1
      /\ UNCHANGED <<scanVars, mergeVars>>
  BY DEF PushOutOfOrder
<1>2. out \in Seq(Span) /\ pushed + 1 \in 0 .. Len(task.a) /\ Pushed \in Span
  BY PushStep DEF PushOutOfOrder
<1>3. ScanInv'
  BY <1>1, ScanInvKept
<1>4. out' \in Seq(Span)
  BY <1>1, <1>2, AppendProperties
<1>5. QED
  BY <1>1, <1>2, <1>3, <1>4 DEF IInv, MergeInv, StructurallyValid

(* The last push leaves a set.                                             *)
LEMMA PushEndInv == IInv /\ PushEnd => IInv'
<1> SUFFICES ASSUME IInv, PushEnd PROVE IInv'
  OBVIOUS
<1>1. /\ stage = "push" /\ stage' = "done"
      /\ task' = task /\ out' = out /\ pushed' = pushed
      /\ UNCHANGED <<scanVars, mergeVars>>
  BY DEF PushEnd
<1>2. ScanInv'
  BY <1>1, ScanInvKept
<1>3. QED
  BY <1>1, <1>2 DEF IInv, MergeInv, StructurallyValid
-----------------------------------------------------------------------------
(* Every step keeps the invariant.                                         *)
LEMMA NextInv == IInv /\ [Next]_vars => IInv'
<1> SUFFICES ASSUME IInv, [Next]_vars PROVE IInv'
  OBVIOUS
<1>1. CASE UNCHANGED vars
  BY <1>1 DEF vars, IInv, ScanInv, MergeInv, KeptInv, UnreadInv, StructurallyValid
<1>2. CASE ScanEndpoint
  BY <1>2, ScanEndpointInv
<1>3. CASE ScanEnd
  BY <1>3, ScanEndInv
<1>4. CASE Sort
  BY <1>4, SortInv
<1>5. CASE MergeNext
  BY <1>5, MergeNextInv
<1>6. CASE MergeEnd
  BY <1>6, MergeEndInv
<1>7. CASE PushIgnored
  BY <1>7, PushIgnoredInv
<1>8. CASE PushInOrder
  BY <1>8, PushInOrderInv
<1>9. CASE PushOutOfOrder
  BY <1>9, PushOutOfOrderInv
<1>10. CASE PushEnd
  BY <1>10, PushEndInv
<1>11. QED
  BY <1>1, <1>2, <1>3, <1>4, <1>5, <1>6, <1>7, <1>8, <1>9, <1>10 DEF Next

(* The inductive invariant of every call of the span algebra.               *)
THEOREM SpansInvariant == Spec => []IInv
<1>1. Init => IInv
  BY InitInv
<1>2. IInv /\ [Next]_vars => IInv'
  BY NextInv
<1>3. QED
  BY <1>1, <1>2, PTL DEF Spec

(* Every variable has its type: in particular the in-place merge only ever  *)
(* reads within the list.                                                   *)
THEOREM SpansTypeCorrect == Spec => []TypeOK
<1>1. IInv => TypeOK
  BY DEF IInv, ScanInv, MergeInv, TypeOK
<1>2. QED
  BY <1>1, SpansInvariant, PTL

(* boolean_scan, from_unsorted and push_merge leave a set of spans that are *)
(* of positive length, in order and further apart than the threshold, and   *)
(* where the call normalizes at its end, without slivers; whatever order    *)
(* the spans came in, and whatever the operands are.                        *)
THEOREM AlwaysStructurallyValid == Spec => []StructurallyValid
<1>1. IInv => StructurallyValid
  BY DEF IInv
<1>2. QED
  BY <1>1, SpansInvariant, PTL

(* normalize_in_place never overwrites a span it has still to read.         *)
THEOREM UnreadNeverOverwritten == Spec => []UnreadIntact
<1>1. IInv => UnreadIntact
  <2> SUFFICES ASSUME IInv, stage = "merge" PROVE UnreadIntact
    BY DEF UnreadIntact
  <2>1. Len(out) \in Nat /\ read \in 2 .. Len(out) + 1 /\ UnreadInv
    BY LenProperties DEF IInv, MergeInv
  <2>2. QED
    BY <2>1 DEF UnreadInv, UnreadIntact
<1>2. QED
  BY <1>1, SpansInvariant, PTL
-----------------------------------------------------------------------------
(* Streams and what they have passed *)

(* The cells a list of spans covers.                                        *)
Covers(s, c) == \E k \in 1 .. Len(s) : s[k].t0 <= c /\ c < s[k].t1

(* The endpoints a stream has passed when it stands at its i-th span.       *)
Passed(s, i, inside, e) ==
  \/ \E k \in 1 .. i - 1 : e = s[k].t0 \/ e = s[k].t1
  \/ inside /\ e = s[i].t0

(* A place in a list, or behind its end.                                    *)
Standing(s, i, inside) ==
  /\ s \in Seq(Span) /\ Len(s) \in Nat /\ i \in 1 .. Len(s) + 1
  /\ inside \in BOOLEAN /\ (inside => i <= Len(s))

(* Spans in order, read as numbers.                                         *)
LEMMA SpansInOrder ==
  ASSUME NEW s \in Seq(Span), IsSpans(s)
  PROVE  /\ \A k \in 1 .. Len(s) : s[k].t0 \in Int /\ s[k].t1 \in Int /\ s[k].t0 < s[k].t1
         /\ \A k, l \in 1 .. Len(s) : k < l => s[k].t1 < s[l].t0
<1>1. DOMAIN s = 1 .. Len(s) /\ Len(s) \in Nat
  BY LenProperties
<1>2. \A k \in 1 .. Len(s) : s[k] \in Span
  BY <1>1, ElementOfSeq
<1>3. QED
  BY <1>1, <1>2 DEF IsSpans, Span

(* What was passed lies before what comes.                                  *)
LEMMA EndpointRises ==
  ASSUME NEW s, NEW i, NEW inside, Standing(s, i, inside), IsSpans(s), i <= Len(s)
  PROVE  /\ Endpoint(s, i, inside) \in Int
         /\ \A x : Passed(s, i, inside, x) => x \in Int /\ x < Endpoint(s, i, inside)
<1>1. /\ \A k \in 1 .. Len(s) : s[k].t0 \in Int /\ s[k].t1 \in Int /\ s[k].t0 < s[k].t1
      /\ \A k, l \in 1 .. Len(s) : k < l => s[k].t1 < s[l].t0
      /\ Len(s) \in Nat /\ i \in 1 .. Len(s)
  BY SpansInOrder DEF Standing
<1>2. Endpoint(s, i, inside) = IF inside THEN s[i].t1 ELSE s[i].t0
  BY <1>1 DEF Endpoint
<1>3. ASSUME NEW k \in 1 .. i - 1
      PROVE  s[k].t0 < s[i].t0 /\ s[k].t1 < s[i].t0 /\ s[k].t0 \in Int /\ s[k].t1 \in Int
  <2>1. k \in 1 .. Len(s) /\ k < i
    BY <1>1
  <2>2. s[k].t0 < s[k].t1 /\ s[k].t1 < s[i].t0
    BY <1>1, <2>1
  <2>3. s[k].t0 \in Int /\ s[k].t1 \in Int /\ s[i].t0 \in Int
    BY <1>1, <2>1
  <2>4. QED
    BY <2>2, <2>3
<1>4. s[i].t0 \in Int /\ s[i].t1 \in Int /\ s[i].t0 < s[i].t1
  BY <1>1
<1>5. ASSUME NEW x, Passed(s, i, inside, x)
      PROVE  x \in Int /\ x <= s[i].t0 /\ (x = s[i].t0 => inside)
  <2>1. CASE \E k \in 1 .. i - 1 : x = s[k].t0 \/ x = s[k].t1
    BY <1>3, <1>4, <2>1
  <2>2. CASE inside /\ x = s[i].t0
    BY <1>4, <2>2
  <2>3. QED
    BY <1>5, <2>1, <2>2 DEF Passed
<1>6. CASE inside
  <2>1. Endpoint(s, i, inside) = s[i].t1
    BY <1>2, <1>6
  <2>2. ASSUME NEW x, Passed(s, i, inside, x) PROVE x \in Int /\ x < s[i].t1
    BY <1>4, <1>5, <2>2
  <2>3. QED
    BY <1>4, <2>1, <2>2
<1>7. CASE ~inside
  BY <1>2, <1>4, <1>5, <1>7
<1>8. QED
  BY <1>6, <1>7

(* A stream that goes on has passed its endpoint as well.                   *)
LEMMA PassedOn ==
  ASSUME NEW s, NEW i, NEW inside, Standing(s, i, inside), i <= Len(s), NEW x
  PROVE  LET j == IF inside THEN i + 1 ELSE i
         IN  /\ Standing(s, j, ~inside)
             /\ Passed(s, j, ~inside, x) <=> Passed(s, i, inside, x) \/ x = Endpoint(s, i, inside)
<1>1. Len(s) \in Nat /\ i \in 1 .. Len(s)
  BY DEF Standing
<1>2. Endpoint(s, i, inside) = IF inside THEN s[i].t1 ELSE s[i].t0
  BY <1>1 DEF Endpoint
<1>3. CASE inside
  <2>1. (i + 1) - 1 = i /\ i + 1 \in 1 .. Len(s) + 1
    BY <1>1
  <2>2. \A k : k \in 1 .. i <=> k \in 1 .. i - 1 \/ k = i
    BY <1>1
  <2>3. Standing(s, i + 1, ~inside)
    BY <1>3, <2>1 DEF Standing
  <2>4. Passed(s, i + 1, ~inside, x) <=> \E k \in 1 .. i : x = s[k].t0 \/ x = s[k].t1
    BY <1>3, <2>1 DEF Passed
  <2>5. Passed(s, i, inside, x) <=> (\E k \in 1 .. i - 1 : x = s[k].t0 \/ x = s[k].t1) \/ x = s[i].t0
    BY <1>3 DEF Passed
  <2>6. QED
    BY <1>2, <1>3, <2>2, <2>3, <2>4, <2>5
<1>4. CASE ~inside
  <2>1. Standing(s, i, ~inside)
    BY <1>1, <1>4 DEF Standing
  <2>2. QED
    BY <1>2, <1>4, <2>1 DEF Passed
<1>5. QED
  BY <1>3, <1>4

(* Every bound of the list is passed or still to come.                      *)
LEMMA PassedOrAhead ==
  ASSUME NEW s, NEW i, NEW inside, Standing(s, i, inside), IsSpans(s),
         NEW k \in 1 .. Len(s), NEW x \in {s[k].t0, s[k].t1}
  PROVE  \/ Passed(s, i, inside, x)
         \/ i <= Len(s) /\ x >= Endpoint(s, i, inside)
<1>1. /\ \A l \in 1 .. Len(s) : s[l].t0 \in Int /\ s[l].t1 \in Int /\ s[l].t0 < s[l].t1
      /\ \A l, m \in 1 .. Len(s) : l < m => s[l].t1 < s[m].t0
      /\ Len(s) \in Nat /\ i \in 1 .. Len(s) + 1
  BY SpansInOrder DEF Standing
<1>2. CASE k < i
  <2>1. k \in 1 .. i - 1
    BY <1>1, <1>2
  <2>2. QED
    BY <2>1 DEF Passed
<1>3. CASE k = i
  <2>1. i <= Len(s) /\ Endpoint(s, i, inside) = IF inside THEN s[i].t1 ELSE s[i].t0
    BY <1>1, <1>3 DEF Endpoint
  <2>2. s[i].t0 \in Int /\ s[i].t1 \in Int /\ s[i].t0 < s[i].t1
    BY <1>1, <1>3
  <2>3. QED
    BY <1>3, <2>1, <2>2 DEF Passed
<1>4. CASE k > i
  <2>1. i \in 1 .. Len(s)
    BY <1>1, <1>4
  <2>2. s[i].t0 < s[i].t1 /\ s[i].t1 < s[k].t0 /\ s[k].t0 < s[k].t1
    BY <1>1, <1>4, <2>1
  <2>3. s[i].t0 \in Int /\ s[i].t1 \in Int /\ s[k].t0 \in Int /\ s[k].t1 \in Int
    BY <1>1, <2>1
  <2>4. Endpoint(s, i, inside) = IF inside THEN s[i].t1 ELSE s[i].t0
    BY <1>1, <2>1 DEF Endpoint
  <2>5. x >= s[i].t1 /\ x >= s[i].t0
    BY <2>2, <2>3
  <2>6. i <= Len(s)
    BY <1>1, <2>1
  <2>7. QED
    BY <2>4, <2>5, <2>6
<1>5. QED
  BY <1>1, <1>2, <1>3, <1>4

(* Between what is passed and what comes, a stream is inside or it is not.  *)
LEMMA CoversHere ==
  ASSUME NEW s, NEW i, NEW inside, Standing(s, i, inside), IsSpans(s), NEW c \in Int,
         \A x : Passed(s, i, inside, x) => x <= c,
         i <= Len(s) => c < Endpoint(s, i, inside)
  PROVE  Covers(s, c) <=> inside
<1>1. /\ \A l \in 1 .. Len(s) : s[l].t0 \in Int /\ s[l].t1 \in Int /\ s[l].t0 < s[l].t1
      /\ Len(s) \in Nat /\ i \in 1 .. Len(s) + 1
  BY SpansInOrder DEF Standing
<1>2. ASSUME inside PROVE Covers(s, c)
  <2>1. i \in 1 .. Len(s)
    BY <1>1, <1>2 DEF Standing
  <2>2. s[i].t0 <= c
    BY <1>2 DEF Passed
  <2>3. c < s[i].t1
    BY <1>1, <1>2, <2>1 DEF Endpoint
  <2>4. QED
    BY <2>1, <2>2, <2>3 DEF Covers
<1>3. ASSUME ~inside, Covers(s, c) PROVE FALSE
  <2>1. PICK k \in 1 .. Len(s) : s[k].t0 <= c /\ c < s[k].t1
    BY <1>3 DEF Covers
  <2>2. s[k].t0 \in Int /\ s[k].t1 \in Int
    BY <1>1
  <2>3. CASE k < i
    <3>1. Passed(s, i, inside, s[k].t1)
      BY <1>1, <2>3 DEF Passed
    <3>2. QED
      BY <2>1, <2>2, <3>1
  <2>4. CASE k >= i
    <3>1. i \in 1 .. Len(s) /\ i <= Len(s)
      BY <1>1, <2>4
    <3>2. Endpoint(s, i, inside) = s[i].t0
      BY <1>1, <1>3, <3>1 DEF Endpoint
    <3>3. s[i].t0 <= s[k].t0
      <4>1. CASE k = i
        BY <1>1, <3>1, <4>1
      <4>2. CASE i < k
        <5>1. s[i].t0 < s[i].t1 /\ s[i].t1 < s[k].t0
          BY <3>1, <4>2, SpansInOrder DEF Standing
        <5>2. QED
          BY <1>1, <3>1, <5>1
      <4>3. QED
        BY <1>1, <2>4, <4>1, <4>2
    <3>4. s[i].t0 \in Int
      BY <1>1, <3>1
    <3>5. QED
      BY <2>1, <2>2, <3>1, <3>2, <3>3, <3>4
  <2>5. QED
    BY <1>1, <2>3, <2>4
<1>4. QED
  BY <1>2, <1>3 DEF Standing

(* A stream with nothing left has no endpoint.                              *)
LEMMA EndpointNone ==
  ASSUME NEW s, NEW i, NEW inside, Standing(s, i, inside), IsSpans(s)
  PROVE  /\ i <= Len(s) <=> Endpoint(s, i, inside) # None
         /\ Endpoint(s, i, inside) # None => Endpoint(s, i, inside) \in Int
<1>1. i \in Int /\ Len(s) \in Int
  BY DEF Standing
<1>2. CASE i <= Len(s)
  BY <1>2, EndpointRises, SpansAssumption
<1>3. CASE i > Len(s)
  BY <1>1, <1>3 DEF Endpoint
<1>4. QED
  BY <1>1, <1>2, <1>3

(* A stream as the scan goes on to `at`: it advances if its endpoint is there. *)
LEMMA StreamOn ==
  ASSUME NEW s, NEW i, NEW inside, Standing(s, i, inside), IsSpans(s), NEW e, e = Endpoint(s, i, inside),
         NEW at \in Int, e # None => at <= e,
         NEW ins \in BOOLEAN, ins <=> ~(inside <=> e = at),
         NEW j, j = IF inside /\ e = at THEN i + 1 ELSE i
  PROVE  /\ Standing(s, j, ins)
         /\ \A x : Passed(s, j, ins, x) <=> Passed(s, i, inside, x) \/ (e = at /\ x = at)
         /\ Endpoint(s, j, ins) = None \/ (Endpoint(s, j, ins) \in Int /\ at < Endpoint(s, j, ins))
<1>1. inside \in BOOLEAN /\ at # None
  BY SpansAssumption DEF Standing
<1>2. CASE e = at
  <2>1. i <= Len(s)
    BY <1>1, <1>2, EndpointNone
  <2>2. (ins <=> ~inside) /\ j = IF inside THEN i + 1 ELSE i
    BY <1>1, <1>2
  <2>3. ins = ~inside
    BY <1>1, <2>2
  <2>4. Standing(s, j, ins)
    BY <2>1, <2>2, <2>3, PassedOn
  <2>5. ASSUME NEW x PROVE Passed(s, j, ins, x) <=> Passed(s, i, inside, x) \/ x = at
    <3>1. Passed(s, j, ~inside, x) <=> Passed(s, i, inside, x) \/ x = Endpoint(s, i, inside)
      BY <2>1, <2>2, PassedOn
    <3>2. QED
      BY <1>2, <2>3, <3>1
  <2>6. j <= Len(s) => Endpoint(s, j, ins) \in Int /\ at < Endpoint(s, j, ins)
    BY <2>4, <2>5, EndpointRises
  <2>7. QED
    BY <1>2, <2>4, <2>5, <2>6, EndpointNone
<1>3. CASE e # at
  <2>1. (ins <=> inside) /\ j = i
    BY <1>1, <1>3
  <2>2. ins = inside
    BY <1>1, <2>1
  <2>3. e = None \/ (e \in Int /\ at < e)
    <3>1. e # None => e \in Int
      BY EndpointNone
    <3>2. QED
      BY <1>3, <3>1
  <2>4. QED
    BY <1>3, <2>1, <2>2, <2>3
<1>4. QED
  BY <1>2, <1>3

(* The endpoints the scan has taken.                                        *)
Taken(x) == Passed(task.a, ia, in_a, x) \/ Passed(task.b, ib, in_b, x)

(* Where the scan stands: its streams in their lists, all it has taken lies *)
(* before all that comes, and a span is open exactly inside the result.     *)
ScanPlace ==
  /\ task \in Tasks /\ task.op \in SetOps
  /\ Standing(task.a, ia, in_a) /\ Standing(task.b, ib, in_b)
  /\ \A x : Taken(x) => x \in Int /\ (ea # None => x < ea) /\ (eb # None => x < eb)
  /\ open # None <=> combine(in_a, in_b)
  /\ open # None => Taken(open.t)

(* What an iteration of the scan does to its streams.                       *)
StreamsAdvance ==
  /\ At \in Int /\ (ea = At \/ eb = At)
  /\ ea # None => ea \in Int /\ At <= ea
  /\ eb # None => eb \in Int /\ At <= eb
  /\ \A x : Taken(x) => x \in Int /\ x < At
  /\ \A x : Taken(x)' <=> Taken(x) \/ x = At
  /\ in_a' <=> ~(in_a <=> ea = At)
  /\ in_b' <=> ~(in_b <=> eb = At)
  /\ Standing(task.a, ia, in_a)' /\ Standing(task.b, ib, in_b)'
  /\ \A x : Taken(x)' => x \in Int /\ (ea' # None => x < ea') /\ (eb' # None => x < eb')

(* One iteration, or both streams on a tie.                                *)
LEMMA StreamsGoOn ==
  ASSUME ScanPlace, ScanEndpoint
  PROVE  StreamsAdvance
<1>1. task' = task /\ task \in Tasks /\ IsSpans(task.a) /\ IsSpans(task.b)
  BY OperandsAssumption DEF ScanPlace, ScanEndpoint
<1>2. /\ Standing(task.a, ia, in_a) /\ Standing(task.b, ib, in_b)
      /\ in_a \in BOOLEAN /\ in_b \in BOOLEAN
  BY DEF ScanPlace, Standing
<1>3. (ea # None => ea \in Int) /\ (eb # None => eb \in Int)
  BY <1>1, <1>2, EndpointNone DEF ea, eb
<1>4. ~(ea = None /\ eb = None)
  BY DEF ScanEndpoint, ScanSpent
<1>5. /\ At \in Int /\ (ea = At \/ eb = At)
      /\ ea # None => At <= ea
      /\ eb # None => At <= eb
  BY <1>3, <1>4 DEF At
<1>6. /\ in_a' \in BOOLEAN /\ (in_a' <=> ~(in_a <=> ea = At))
      /\ in_b' \in BOOLEAN /\ (in_b' <=> ~(in_b <=> eb = At))
  BY <1>2, Zenon DEF ScanEndpoint
<1>7. /\ ia' = IF in_a /\ ea = At THEN ia + 1 ELSE ia
      /\ ib' = IF in_b /\ eb = At THEN ib + 1 ELSE ib
  BY DEF ScanEndpoint
<1>8. /\ Standing(task.a, ia', in_a')
      /\ \A x : Passed(task.a, ia', in_a', x) <=> Passed(task.a, ia, in_a, x) \/ (ea = At /\ x = At)
      /\ Endpoint(task.a, ia', in_a') = None
           \/ (Endpoint(task.a, ia', in_a') \in Int /\ At < Endpoint(task.a, ia', in_a'))
  BY <1>1, <1>2, <1>5, <1>6, <1>7, StreamOn DEF ea
<1>9. /\ Standing(task.b, ib', in_b')
      /\ \A x : Passed(task.b, ib', in_b', x) <=> Passed(task.b, ib, in_b, x) \/ (eb = At /\ x = At)
      /\ Endpoint(task.b, ib', in_b') = None
           \/ (Endpoint(task.b, ib', in_b') \in Int /\ At < Endpoint(task.b, ib', in_b'))
  BY <1>1, <1>2, <1>5, <1>6, <1>7, StreamOn DEF eb
<1>10. /\ ea' = None \/ (ea' \in Int /\ At < ea')
       /\ eb' = None \/ (eb' \in Int /\ At < eb')
  BY <1>1, <1>8, <1>9 DEF ea, eb
<1>11. \A x : Taken(x)' <=> Taken(x) \/ x = At
  BY <1>1, <1>5, <1>8, <1>9 DEF Taken
<1>12. \A x : Taken(x) => x \in Int /\ x < At
  <2>1. At # None
    BY <1>5, SpansAssumption
  <2>2. QED
    BY <1>5, <2>1 DEF ScanPlace
<1>13. \A x : Taken(x)' => x \in Int /\ x <= At
  BY <1>5, <1>11, <1>12
<1>14. ASSUME NEW x, Taken(x)'
       PROVE  x \in Int /\ (ea' # None => x < ea') /\ (eb' # None => x < eb')
  BY <1>5, <1>10, <1>13, <1>14
<1>15. Standing(task.a, ia, in_a)' /\ Standing(task.b, ib, in_b)'
  BY <1>1, <1>8, <1>9
<1>16. QED
  BY <1>3, <1>5, <1>6, <1>11, <1>12, <1>14, <1>15 DEF StreamsAdvance

(* The operations, one by one.                                              *)
LEMMA CombineIs ==
  ASSUME task.op \in SetOps, NEW p \in BOOLEAN, NEW q \in BOOLEAN
  PROVE  /\ combine(p, q) \in BOOLEAN
         /\ task.op = "union" => (combine(p, q) <=> p \/ q)
         /\ task.op = "intersect" => (combine(p, q) <=> p /\ q)
         /\ task.op = "difference" => (combine(p, q) <=> p /\ ~q)
  BY Zenon DEF combine, SetOps

(* What an iteration does to the open span and to the list.                 *)
ScanOutput ==
  \/ /\ combine(in_a', in_b') /\ open = None
     /\ open' = [t |-> At, n |-> normal_here] /\ out' = out
  \/ /\ combine(in_a', in_b') /\ open # None
     /\ open' = open /\ out' = out
  \/ /\ ~combine(in_a', in_b') /\ open = None
     /\ open' = None /\ out' = out
  \/ /\ ~combine(in_a', in_b') /\ open # None
     /\ open' = None
     /\ out' = Append(out, [t0 |-> open.t, t1 |-> At, n0 |-> open.n, n1 |-> normal_here])

(* It does one of the four.                                                *)
LEMMA ScanOutputs ==
  ASSUME ScanEndpoint PROVE ScanOutput
<1> DEFINE within == combine(in_a', in_b')
<1>1. /\ open' = IF ~within THEN None
                 ELSE IF open = None THEN [t |-> At, n |-> normal_here] ELSE open
      /\ out' = IF ~within /\ open # None
                THEN Append(out, [t0 |-> open.t, t1 |-> At, n0 |-> open.n, n1 |-> normal_here])
                ELSE out
  BY DEF ScanEndpoint
<1> HIDE DEF within
<1>2. CASE within
  BY <1>1, <1>2 DEF ScanOutput, within
<1>3. CASE ~within
  BY <1>1, <1>3 DEF ScanOutput, within
<1>4. QED
  BY <1>2, <1>3

(* The scan keeps its place.                                               *)
LEMMA ScanPlaceOn ==
  ASSUME IInv, ScanPlace, ScanEndpoint
  PROVE  ScanPlace'
<1>1. StreamsAdvance /\ ScanOutput
  BY StreamsGoOn, ScanOutputs
<1>2. task' = task
  BY DEF ScanEndpoint
<1>3. At \in Int /\ normal_here \in Normal
  BY NextEndpoint DEF ScanEndpoint
<1>4. [t |-> At, n |-> normal_here] # None
  BY <1>3, SpansAssumption
<1>5. combine(in_a, in_b)' <=> combine(in_a', in_b')
  BY <1>2 DEF combine
<1>6. open' # None <=> combine(in_a', in_b')
  BY <1>1, <1>4 DEF ScanOutput
<1>7. open' # None => Taken(open.t)'
  <2>1. CASE open' = open
    BY <1>1, <2>1 DEF StreamsAdvance, ScanPlace
  <2>2. CASE open' = [t |-> At, n |-> normal_here]
    BY <1>1, <2>2 DEF StreamsAdvance
  <2>3. QED
    BY <1>1, <2>1, <2>2 DEF ScanOutput
<1>8. Standing(task.a, ia, in_a)' /\ Standing(task.b, ib, in_b)'
      /\ \A x : Taken(x)' => x \in Int /\ (ea' # None => x < ea') /\ (eb' # None => x < eb')
  BY <1>1 DEF StreamsAdvance
<1>9. task' \in Tasks /\ task'.op \in SetOps
  BY <1>2 DEF ScanPlace
<1>10. QED
  BY <1>5, <1>6, <1>7, <1>8, <1>9 DEF ScanPlace
-----------------------------------------------------------------------------
(* A cell the scan is past.                                                 *)
Behind(c) == \E x : Taken(x) /\ c < x

(* What is out, or open, is the operation on what the scan is past; nothing  *)
(* else is out.                                                             *)
Opened(c) == open # None /\ open.t <= c
Meant(c) == combine(Covers(task.a, c), Covers(task.b, c))

ScanCells ==
  /\ \A c \in Int : Covers(out, c) => Behind(c)
  /\ \A c \in Int : Behind(c) => (Covers(out, c) \/ Opened(c) <=> Meant(c))

(* What the operation makes of the cells up to the next endpoint, or of all  *)
(* that are left when a stream has none.                                    *)
LEMMA MeantAhead ==
  ASSUME ScanPlace, NEW c \in Int, ~Behind(c)
  PROVE  /\ (ea # None => c < ea) => (Covers(task.a, c) <=> in_a)
         /\ (eb # None => c < eb) => (Covers(task.b, c) <=> in_b)
<1>1. IsSpans(task.a) /\ IsSpans(task.b) /\ Standing(task.a, ia, in_a) /\ Standing(task.b, ib, in_b)
  BY OperandsAssumption DEF ScanPlace
<1>2. \A x : Taken(x) => x <= c
  BY DEF Behind, ScanPlace
<1>3. ASSUME ea # None => c < ea PROVE Covers(task.a, c) <=> in_a
  <2>1. \A x : Passed(task.a, ia, in_a, x) => x <= c
    BY <1>2 DEF Taken
  <2>2. ia <= Len(task.a) => c < Endpoint(task.a, ia, in_a)
    BY <1>1, <1>3, EndpointNone DEF ea
  <2>3. QED
    BY <1>1, <2>1, <2>2, CoversHere
<1>4. ASSUME eb # None => c < eb PROVE Covers(task.b, c) <=> in_b
  <2>1. \A x : Passed(task.b, ib, in_b, x) => x <= c
    BY <1>2 DEF Taken
  <2>2. ib <= Len(task.b) => c < Endpoint(task.b, ib, in_b)
    BY <1>1, <1>4, EndpointNone DEF eb
  <2>3. QED
    BY <1>1, <2>1, <2>2, CoversHere
<1>5. QED
  BY <1>3, <1>4

(* An appended span covers its cells too.                                   *)
LEMMA CoversAppended ==
  ASSUME NEW s \in Seq(Span), NEW v \in Span, NEW c
  PROVE  Covers(Append(s, v), c) <=> Covers(s, c) \/ (v.t0 <= c /\ c < v.t1)
<1> DEFINE u == Append(s, v)
           n == Len(s)
<1>1. n \in Nat /\ Len(u) = n + 1 /\ u[n + 1] = v /\ \A i \in 1 .. n : u[i] = s[i]
  BY AppendProperties, LenProperties
<1> HIDE DEF u, n
<1>2. \A i : i \in 1 .. n + 1 <=> i \in 1 .. n \/ i = n + 1
  BY <1>1
<1>3. Covers(u, c) <=> \E i \in 1 .. n + 1 : u[i].t0 <= c /\ c < u[i].t1
  BY <1>1 DEF Covers
<1>4. Covers(s, c) <=> \E i \in 1 .. n : s[i].t0 <= c /\ c < s[i].t1
  BY DEF Covers, n
<1>5. QED
  BY <1>1, <1>2, <1>3, <1>4 DEF u

(* And what it is past.                                                    *)
LEMMA ScanCellsOn ==
  ASSUME IInv, ScanPlace, ScanCells, ScanEndpoint
  PROVE  ScanCells'
<1>1. StreamsAdvance /\ ScanOutput
  BY StreamsGoOn, ScanOutputs
<1>2. task' = task /\ out \in Seq(Span)
  BY DEF ScanEndpoint, IInv
<1>3. At \in Int /\ normal_here \in Normal
  BY NextEndpoint DEF ScanEndpoint
<1>4. ASSUME NEW c \in Int PROVE Behind(c)' <=> c < At
  <2>1. \A x : Taken(x)' <=> Taken(x) \/ x = At
    BY <1>1 DEF StreamsAdvance
  <2>2. \A x : Taken(x) => x \in Int /\ x < At
    BY <1>1 DEF StreamsAdvance
  <2>3. Behind(c)' <=> \E x : Taken(x)' /\ c < x
    BY DEF Behind
  <2>4. QED
    BY <1>3, <2>1, <2>2, <2>3
<1>5. ASSUME NEW c \in Int PROVE Behind(c) => c < At
  <2>1. \A x : Taken(x) => x \in Int /\ x < At
    BY <1>1 DEF StreamsAdvance
  <2>2. QED
    BY <1>3, <2>1 DEF Behind
<1>6. ASSUME NEW c \in Int PROVE Meant(c)' <=> Meant(c)
  BY <1>2 DEF Meant, combine
<1>7. ASSUME NEW c \in Int, c < At PROVE Covers(out, c) \/ Opened(c) <=> Meant(c)
  <2>1. CASE Behind(c)
    BY <2>1 DEF ScanCells
  <2>2. CASE ~Behind(c)
    <3>1. (ea # None => c < ea) /\ (eb # None => c < eb)
      BY <1>1, <1>7 DEF StreamsAdvance
    <3>2. (Covers(task.a, c) <=> in_a) /\ (Covers(task.b, c) <=> in_b)
      BY <2>2, <3>1, MeantAhead
    <3>3. Meant(c) <=> combine(in_a, in_b)
      <4>1. Covers(task.a, c) \in BOOLEAN /\ Covers(task.b, c) \in BOOLEAN
        BY DEF Covers
      <4>2. in_a \in BOOLEAN /\ in_b \in BOOLEAN
        BY DEF ScanPlace, Standing
      <4>3. Covers(task.a, c) = in_a /\ Covers(task.b, c) = in_b
        BY <3>2, <4>1, <4>2, Zenon
      <4>4. QED
        BY <4>3 DEF Meant
    <3>4. ~Covers(out, c)
      BY <2>2 DEF ScanCells
    <3>5. open # None => open.t <= c
      BY <2>2 DEF ScanPlace, Behind
    <3>6. QED
      BY <3>3, <3>4, <3>5 DEF ScanPlace, Opened
  <2>3. QED
    BY <2>1, <2>2
<1>8. ASSUME NEW c \in Int
      PROVE  /\ Covers(out', c) => c < At
             /\ c < At => (Covers(out', c) \/ Opened(c)' <=> Covers(out, c) \/ Opened(c))
  <2>0. Covers(out, c) => c < At
    BY <1>5 DEF ScanCells
  <2>1. CASE /\ combine(in_a', in_b') /\ open = None
             /\ open' = [t |-> At, n |-> normal_here] /\ out' = out
    <3>1. Opened(c)' => At <= c
      BY <2>1 DEF Opened
    <3>2. c < At => ~(At <= c)
      BY <1>3
    <3>3. QED
      BY <2>0, <2>1, <3>1, <3>2 DEF Opened
  <2>2. CASE open' = open /\ out' = out
    BY <2>0, <2>2 DEF Opened
  <2>3. CASE /\ open # None /\ open' = None
             /\ out' = Append(out, [t0 |-> open.t, t1 |-> At, n0 |-> open.n, n1 |-> normal_here])
    <3> DEFINE v == [t0 |-> open.t, t1 |-> At, n0 |-> open.n, n1 |-> normal_here]
    <3>1. v \in Span /\ v.t0 = open.t /\ v.t1 = At
      BY <1>3, <2>3 DEF IInv, ScanInv, Span
    <3> HIDE DEF v
    <3>2. Covers(out', c) <=> Covers(out, c) \/ (open.t <= c /\ c < At)
      BY <1>2, <2>3, <3>1, CoversAppended DEF v
    <3>3. ~Opened(c)'
      BY <2>3 DEF Opened
    <3>4. QED
      BY <2>0, <2>3, <3>2, <3>3 DEF Opened
  <2>4. QED
    BY <1>1, <2>1, <2>2, <2>3 DEF ScanOutput
<1>9. ASSUME NEW c \in Int PROVE Covers(out, c)' <=> Covers(out', c)
  BY DEF Covers
<1>10. QED
  BY <1>4, <1>6, <1>7, <1>8, <1>9 DEF ScanCells

(* What the scan leaves is the operation on the operands.                   *)
LEMMA ScanComplete ==
  ASSUME ScanPlace, ScanCells, ScanSpent, NEW c \in Int
  PROVE  Covers(out, c) <=> Meant(c)
<1>1. /\ ea = None => ~in_a
      /\ eb = None => ~in_b
  <2>1. IsSpans(task.a) /\ IsSpans(task.b) /\ Standing(task.a, ia, in_a) /\ Standing(task.b, ib, in_b)
    BY OperandsAssumption DEF ScanPlace
  <2>2. ea = None => ~(ia <= Len(task.a))
    BY <2>1, EndpointNone DEF ea
  <2>3. eb = None => ~(ib <= Len(task.b))
    BY <2>1, EndpointNone DEF eb
  <2>4. QED
    BY <2>1, <2>2, <2>3 DEF Standing
<1>2. in_a \in BOOLEAN /\ in_b \in BOOLEAN /\ task.op \in SetOps
  BY DEF ScanPlace, Standing
<1>3. open = None
  <2>1. ~combine(in_a, in_b)
    BY <1>1, <1>2, CombineIs, Zenon DEF ScanSpent, SetOps
  <2>2. QED
    BY <2>1 DEF ScanPlace
<1>4. CASE Behind(c)
  BY <1>3, <1>4 DEF ScanCells, Opened
<1>5. CASE ~Behind(c)
  <2>1. ~Covers(out, c)
    BY <1>5 DEF ScanCells
  <2>2. /\ ea = None => ~Covers(task.a, c)
        /\ eb = None => ~Covers(task.b, c)
    BY <1>1, <1>5, MeantAhead
  <2>3. Covers(task.a, c) \in BOOLEAN /\ Covers(task.b, c) \in BOOLEAN
    BY DEF Covers
  <2>4. ~Meant(c)
    BY <1>2, <2>2, <2>3, CombineIs, Zenon DEF ScanSpent, SetOps, Meant
  <2>5. QED
    BY <2>1, <2>4
<1>6. QED
  BY <1>4, <1>5

-----------------------------------------------------------------------------
(* What the merge makes of a set of cells *)

(* The cells of a list.                                                     *)
LEMMA PointsCovers ==
  ASSUME NEW s \in Seq(Span), NEW c
  PROVE  c \in Points(s) <=> c \in Int /\ Covers(s, c)
<1>1. DOMAIN s = 1 .. Len(s) /\ Len(s) \in Nat /\ \A i \in 1 .. Len(s) : s[i] \in Span
  BY LenProperties, ElementOfSeq
<1>2. ToSet(s) = {s[i] : i \in 1 .. Len(s)}
  BY <1>1 DEF ToSet
<1>3. c \in Points(s) <=> \E i \in 1 .. Len(s) : c \in s[i].t0 .. s[i].t1 - 1
  BY <1>2 DEF Points
<1>4. ASSUME NEW i \in 1 .. Len(s)
      PROVE  c \in s[i].t0 .. s[i].t1 - 1 <=> c \in Int /\ s[i].t0 <= c /\ c < s[i].t1
  BY <1>1 DEF Span
<1>5. QED
  BY <1>3, <1>4 DEF Covers

(* A cell is healed if it is there or in a narrow gap.                      *)
LEMMA HealedIs ==
  ASSUME NEW X \in SUBSET Int, NEW c
  PROVE  c \in Healed(X) <=> \/ c \in X
                             \/ /\ c \in Int
                                /\ \E l, r \in X : l < c /\ c < r /\ r - l - 1 <= Eps
<1>1. Eps \in Nat
  BY SpansAssumption
<1>2. c \in Healed(X) <=> \E l, r \in X : c \in IF r - l - 1 <= Eps THEN l .. r ELSE {l, r}
  <2> DEFINE B(l, r) == IF r - l - 1 <= Eps THEN l .. r ELSE {l, r}
  <2>1. Healed(X) = UNION {B(l, r) : l \in X, r \in X}
    BY DEF Healed
  <2> HIDE DEF B
  <2>2. c \in Healed(X) <=> \E l, r \in X : c \in B(l, r)
    BY <2>1
  <2>3. QED
    BY <2>2 DEF B
<1>3. ASSUME c \in Healed(X)
      PROVE  c \in X \/ (c \in Int /\ \E l, r \in X : l < c /\ c < r /\ r - l - 1 <= Eps)
  <2>1. PICK l \in X, r \in X : c \in IF r - l - 1 <= Eps THEN l .. r ELSE {l, r}
    BY <1>2, <1>3
  <2>2. CASE r - l - 1 <= Eps
    <3>1. c \in Int /\ l <= c /\ c <= r /\ l \in Int /\ r \in Int
      BY <2>1, <2>2
    <3>2. c = l \/ c = r \/ (l < c /\ c < r)
      BY <3>1
    <3>3. QED
      BY <2>2, <3>1, <3>2
  <2>3. CASE ~(r - l - 1 <= Eps)
    BY <2>1, <2>3
  <2>4. QED
    BY <2>2, <2>3
<1>4. ASSUME c \in X PROVE c \in Healed(X)
  <2>1. c \in Int /\ c - c - 1 <= Eps /\ c \in c .. c
    BY <1>1, <1>4
  <2>2. QED
    BY <1>2, <1>4, <2>1
<1>5. ASSUME NEW l \in X, NEW r \in X, c \in Int, l < c, c < r, r - l - 1 <= Eps PROVE c \in Healed(X)
  <2>1. c \in l .. r
    BY <1>5
  <2>2. QED
    BY <1>2, <1>5, <2>1
<1>6. QED
  BY <1>3, <1>4, <1>5

(* Healing takes no cell away.                                             *)
LEMMA HealedCells ==
  ASSUME NEW X \in SUBSET Int
  PROVE  Healed(X) \in SUBSET Int /\ X \subseteq Healed(X)
  BY HealedIs

(* A wide gap stays open.                                                   *)
LEMMA WideGap ==
  ASSUME NEW X \in SUBSET Int, NEW m \in Int, NEW n \in Int, n - m > Eps,
         \A x \in X : x < m \/ x >= n,
         NEW c \in Int, m <= c, c < n
  PROVE  c \notin Healed(X)
<1>1. Eps \in Nat
  BY SpansAssumption
<1>2. c \notin X
  OBVIOUS
<1>3. ASSUME NEW l \in X, NEW r \in X, l < c, c < r, r - l - 1 <= Eps PROVE FALSE
  <2>1. l \in Int /\ r \in Int /\ l < m /\ r >= n
    BY <1>3
  <2>2. QED
    BY <1>1, <1>3, <2>1
<1>4. QED
  BY <1>2, <1>3, HealedIs

(* Of a run of cells all survive or none, as it is long enough.             *)
LEMMA RunSurvives ==
  ASSUME NEW H \in SUBSET Int, NEW m \in Int, NEW n \in Int, m < n,
         \A x \in Int : m <= x /\ x < n => x \in H, m - 1 \notin H, n \notin H,
         NEW c \in Int, m <= c, c < n
  PROVE  c \in WithoutSlivers(H) <=> n - m >= Eps
<1>1. Eps \in Nat /\ Eps >= 1
  BY SpansAssumption
<1>2. c \in WithoutSlivers(H) <=> \E i \in c - Eps + 1 .. c : i .. i + Eps - 1 \subseteq H
  BY DEF WithoutSlivers
<1>3. ASSUME n - m >= Eps PROVE \E i \in c - Eps + 1 .. c : i .. i + Eps - 1 \subseteq H
  <2> DEFINE i == IF c <= n - Eps THEN c ELSE n - Eps
  <2>1. i \in Int /\ i >= m /\ i + Eps <= n /\ i <= c /\ c - Eps + 1 <= i
    BY <1>1, <1>3
  <2> HIDE DEF i
  <2>2. i \in c - Eps + 1 .. c
    BY <1>1, <2>1
  <2>3. ASSUME NEW x \in i .. i + Eps - 1 PROVE x \in H
    <3>1. x \in Int /\ m <= x /\ x < n
      BY <1>1, <2>1
    <3>2. QED
      BY <3>1
  <2>4. QED
    BY <2>2, <2>3
<1>4. ASSUME NEW i \in c - Eps + 1 .. c, i .. i + Eps - 1 \subseteq H PROVE n - m >= Eps
  <2>1. i \in Int /\ i <= c /\ c <= i + Eps - 1
    BY <1>1
  <2>2. i >= m
    <3>1. ASSUME i <= m - 1 PROVE FALSE
      <4>1. m - 1 \in i .. i + Eps - 1
        BY <1>1, <2>1, <3>1
      <4>2. QED
        BY <1>4, <4>1
    <3>2. QED
      BY <2>1, <3>1
  <2>3. i + Eps <= n
    <3>1. ASSUME n <= i + Eps - 1 PROVE FALSE
      <4>1. n \in i .. i + Eps - 1
        BY <1>1, <2>1, <3>1
      <4>2. QED
        BY <1>4, <4>1
    <3>2. QED
      BY <1>1, <2>1, <3>1
  <2>4. QED
    BY <1>1, <2>1, <2>2, <2>3
<1>5. QED
  BY <1>2, <1>3, <1>4
-----------------------------------------------------------------------------
\* What the call makes of its operands before it normalizes.
Exactly(c) == IF task.op \in SetOps THEN Meant(c) ELSE Covers(task.a, c)

(* The exact result, cell by cell.                                         *)
LEMMA ExactCells ==
  ASSUME task \in Tasks, NEW c
  PROVE  /\ c \in Int => (c \in Exact <=> Exactly(c))
         /\ Exact \in SUBSET Int
<1>1. task.a \in Seq(Span) /\ task.b \in Seq(Span)
  BY TaskType
<1>2. /\ Points(task.a) \in SUBSET Int /\ Points(task.b) \in SUBSET Int
      /\ c \in Int => (c \in Points(task.a) <=> Covers(task.a, c)) /\ (c \in Points(task.b) <=> Covers(task.b, c))
  BY <1>1, PointsCovers
<1>3. CASE task.op \in SetOps
  <2>1. Covers(task.a, c) \in BOOLEAN /\ Covers(task.b, c) \in BOOLEAN
    BY DEF Covers
  <2>2. /\ task.op = "union" => (Meant(c) <=> Covers(task.a, c) \/ Covers(task.b, c))
        /\ task.op = "intersect" => (Meant(c) <=> Covers(task.a, c) /\ Covers(task.b, c))
        /\ task.op = "difference" => (Meant(c) <=> Covers(task.a, c) /\ ~Covers(task.b, c))
    BY <1>3, <2>1, CombineIs DEF Meant
  <2>3. CASE task.op = "union"
    BY <1>2, <1>3, <2>2, <2>3 DEF Exact, Exactly
  <2>4. CASE task.op = "intersect"
    BY <1>2, <1>3, <2>2, <2>4 DEF Exact, Exactly
  <2>5. CASE task.op = "difference"
    BY <1>2, <1>3, <2>2, <2>5 DEF Exact, Exactly
  <2>6. QED
    BY <1>3, <2>3, <2>4, <2>5 DEF SetOps
<1>4. CASE task.op \notin SetOps
  <2>1. Exact = Points(task.a)
    BY <1>4 DEF Exact, SetOps
  <2>2. QED
    BY <1>2, <1>4, <2>1 DEF Exactly
<1>5. QED
  BY <1>3, <1>4

\* The first m spans of a list cover a cell; the spans from the m-th on do.
UpTo(s, m, c) == \E i \in 1 .. m : s[i].t0 <= c /\ c < s[i].t1
From(s, m, c) == \E i \in m .. Len(s) : s[i].t0 <= c /\ c < s[i].t1

(* Halfway through the merge: what is unread is material, and so is what the *)
(* current span covers, narrow gaps healed, from its first cell to its last; *)
(* all other material lies further before it than a gap heals, and there     *)
(* what is kept is already what it will be.                                 *)
MergeCells ==
  LET material == Exact
      healed == Healed(Exact)
  IN  /\ \A c \in Int : From(out, read, c) => c \in material
      /\ \A c \in Int : current.t0 <= c /\ c < current.t1 => c \in healed
      /\ current.t0 \in material /\ current.t1 - 1 \in material
      /\ \A c \in material : \/ From(out, read, c)
                             \/ current.t0 <= c /\ c < current.t1
                             \/ current.t0 - c - 1 > Eps
      /\ \A c \in Int : c < current.t0 =>
           (UpTo(out, write - 1, c) <=> c \in WithoutSlivers(healed))
      /\ current.t0 - 1 \notin healed
      /\ \A i \in 1 .. write - 1 : out[i].t1 <= current.t0

(* The types of a merge.                                                    *)
LEMMA Merging ==
  ASSUME IInv, stage = "merge"
  PROVE  /\ task \in Tasks
         /\ out \in Seq(Span) /\ Len(out) \in Nat
         /\ \A i \in 1 .. Len(out) : out[i].t0 \in Int /\ out[i].t1 \in Int
         /\ current \in Span /\ current.t0 \in Int /\ current.t1 \in Int /\ current.t0 < current.t1
         /\ read \in 2 .. Len(out) + 1
         /\ write \in Nat \ {0} /\ write < read /\ write \in 1 .. Len(out)
         /\ \A i \in read .. Len(out) : out[i].t0 < out[i].t1 /\ out[i].t0 >= current.t0
         /\ \A i, j \in read .. Len(out) : i < j => out[i].t0 <= out[j].t0
         /\ Eps \in Nat /\ Eps >= 1
<1>1. /\ task \in Tasks /\ out \in Seq(Span) /\ Len(out) \in Nat
      /\ current \in Span /\ is_valid(current)
      /\ read \in 2 .. Len(out) + 1
      /\ write \in Nat \ {0} /\ write < read
      /\ UnreadInv
  BY LenProperties DEF IInv, ScanInv, MergeInv, KeptInv, UnreadInv
<1>2. \A i \in 1 .. Len(out) : out[i] \in Span
  BY <1>1, ElementOfSeq
<1>3. write \in 1 .. Len(out)
  BY <1>1
<1>4. QED
  BY <1>1, <1>2, <1>3, SpansAssumption DEF UnreadInv, is_valid, Span

(* What writing the finished current span adds to what is kept.             *)
LEMMA WrittenCovers ==
  ASSUME IInv, stage = "merge", NEW c \in Int
  PROVE  /\ UpTo(Written, WriteNext - 1, c)
              <=> \/ UpTo(out, write - 1, c)
                  \/ Survives(current) /\ current.t0 <= c /\ c < current.t1
         /\ \A i \in 1 .. WriteNext - 1 :
              \/ i \in 1 .. write - 1 /\ Written[i] = out[i]
              \/ Written[i] = current
<1>1. /\ out \in Seq(Span) /\ Len(out) \in Nat /\ current \in Span
      /\ write \in Nat \ {0} /\ write \in 1 .. Len(out)
  BY Merging
<1>2. CASE Survives(current)
  <2>1. Written = [out EXCEPT ![write] = current] /\ WriteNext = write + 1
    BY <1>2 DEF Written, WriteNext
  <2>2. Written[write] = current /\ \A i \in 1 .. Len(out) : i # write => Written[i] = out[i]
    BY <1>1, <2>1, SpanWritten
  <2>3. WriteNext - 1 = write
    BY <1>1, <2>1
  <2>4. \A i : i \in 1 .. write <=> i \in 1 .. write - 1 \/ i = write
    BY <1>1
  <2>5. \A i \in 1 .. write - 1 : Written[i] = out[i]
    BY <1>1, <2>2
  <2>6. UpTo(Written, write, c) <=> UpTo(out, write - 1, c) \/ (current.t0 <= c /\ c < current.t1)
    BY <2>2, <2>4, <2>5 DEF UpTo
  <2>7. QED
    BY <1>2, <2>2, <2>3, <2>4, <2>5, <2>6
<1>3. CASE ~Survives(current)
  BY <1>3 DEF Written, WriteNext
<1>4. QED
  BY <1>2, <1>3

(* Once a wide gap follows the current span, what is kept up to there is    *)
(* what it will be.                                                         *)
LEMMA CurrentSettled ==
  ASSUME IInv, stage = "merge", MergeCells, NEW n \in Int, n - current.t1 > Eps,
         \A x \in Exact : x < current.t1 \/ x >= n,
         NEW c \in Int, c < n
  PROVE  /\ UpTo(Written, WriteNext - 1, c) <=> c \in WithoutSlivers(Healed(Exact))
         /\ c >= current.t1 => c \notin Healed(Exact)
<1> DEFINE H == Healed(Exact)
           m == current.t0
           k == current.t1
<1>1. /\ m \in Int /\ k \in Int /\ m < k /\ Eps \in Nat /\ Eps >= 1 /\ task \in Tasks
      /\ \A i \in 1 .. Len(out) : out[i].t0 \in Int /\ out[i].t1 \in Int
      /\ Len(out) \in Nat /\ write \in 1 .. Len(out)
  BY Merging
<1>2. Exact \in SUBSET Int /\ H \in SUBSET Int
  BY <1>1, ExactCells, HealedCells
<1>3. \A x \in Int : k <= x /\ x < n => x \notin H
  BY <1>1, <1>2, WideGap
<1>4. k \notin H
  <2>1. k < n
    BY <1>1
  <2>2. QED
    BY <1>1, <1>3, <2>1
<1>5. /\ \A x \in Int : m <= x /\ x < k => x \in H
      /\ m - 1 \notin H
      /\ \A x \in Int : x < m => (UpTo(out, write - 1, x) <=> x \in WithoutSlivers(H))
      /\ \A i \in 1 .. write - 1 : out[i].t1 <= m
  BY DEF MergeCells
<1>6. ASSUME c >= m PROVE ~UpTo(out, write - 1, c)
  <2>1. SUFFICES ASSUME NEW i \in 1 .. write - 1, c < out[i].t1 PROVE FALSE
    BY DEF UpTo
  <2>2. out[i].t1 <= m /\ out[i].t1 \in Int
    BY <1>1, <1>5
  <2>3. QED
    BY <1>1, <1>6, <2>1, <2>2
<1>7. UpTo(Written, WriteNext - 1, c)
        <=> UpTo(out, write - 1, c) \/ (Survives(current) /\ m <= c /\ c < k)
  BY WrittenCovers
<1>8. Survives(current) <=> k - m >= Eps
  BY DEF Survives, length
<1> HIDE DEF H, m, k
<1>9. CASE c < m
  BY <1>1, <1>5, <1>7, <1>9 DEF H, k
<1>10. CASE m <= c /\ c < k
  <2>1. c \in WithoutSlivers(H) <=> k - m >= Eps
    BY <1>1, <1>2, <1>4, <1>5, <1>10, RunSurvives
  <2>2. UpTo(Written, WriteNext - 1, c) <=> k - m >= Eps
    BY <1>6, <1>7, <1>8, <1>10
  <2>3. ~(c >= k)
    BY <1>1, <1>10
  <2>4. QED
    BY <2>1, <2>2, <2>3 DEF H, k
<1>11. CASE c >= k
  <2>1. c \notin H
    BY <1>3, <1>11
  <2>2. c \notin WithoutSlivers(H)
    BY <2>1 DEF WithoutSlivers
  <2>3. c >= m /\ ~(c < k)
    BY <1>1, <1>11
  <2>4. ~UpTo(Written, WriteNext - 1, c)
    BY <1>6, <1>7, <2>3
  <2>5. QED
    BY <2>1, <2>2, <2>4 DEF H
<1>12. QED
  BY <1>1, <1>9, <1>10, <1>11

-----------------------------------------------------------------------------
(* The cells, through every step *)

\* What each stage of a call that normalizes once knows of its cells.
CellsInv ==
  task.op # "push" =>
    /\ stage = "scan" => ScanPlace /\ ScanCells
    /\ stage = "sort" => \A c \in Int : Covers(out, c) <=> c \in Exact
    /\ stage = "merge" => MergeCells
    /\ stage = "done" => \A c \in Int : Covers(out, c) <=> c \in WithoutSlivers(Healed(Exact))

(* A call begins with the cells of its operands, or with none taken.       *)
LEMMA InitCells == Init => CellsInv
<1> SUFFICES ASSUME Init, task.op # "push" PROVE CellsInv
  BY DEF CellsInv
<1>1. /\ task \in Tasks /\ task.op \in SetOps \cup {"collect"}
      /\ task.a \in Seq(Span) /\ Len(task.a) \in Nat
      /\ task.b \in Seq(Span) /\ Len(task.b) \in Nat
  BY TaskType DEF Init
<1>2. CASE task.op \in SetOps
  <2>1. stage = "scan" /\ ia = 1 /\ ib = 1 /\ out = <<>> /\ open = None
    BY <1>2 DEF Init, SetOps
  <2>2. ~in_a /\ ~in_b /\ in_a \in BOOLEAN /\ in_b \in BOOLEAN
    BY Zenon DEF Init
  <2>3. Standing(task.a, ia, in_a) /\ Standing(task.b, ib, in_b)
    BY <1>1, <2>1, <2>2 DEF Standing
  <2>4. \A x : ~Taken(x)
    BY <2>1, <2>2 DEF Taken, Passed
  <2>5. ~combine(in_a, in_b)
    BY <1>2, <2>2, CombineIs, Zenon DEF SetOps
  <2>6. ScanPlace
    BY <1>1, <1>2, <2>1, <2>3, <2>4, <2>5 DEF ScanPlace
  <2>7. Len(out) = 0
    BY <2>1
  <2>8. ScanCells
    BY <2>4, <2>7 DEF ScanCells, Behind, Covers
  <2>9. QED
    BY <2>1, <2>6, <2>8 DEF CellsInv
<1>3. CASE task.op = "collect"
  <2>1. stage = "sort" /\ out = task.a /\ task.op \notin SetOps
    BY <1>3 DEF Init, SetOps
  <2>2. \A c \in Int : Covers(out, c) <=> c \in Exact
    BY <1>1, <2>1, ExactCells DEF Exactly
  <2>3. QED
    BY <2>1, <2>2 DEF CellsInv
<1>4. QED
  BY <1>1, <1>2, <1>3

(* What the spent scan leaves is the operation on its operands.            *)
LEMMA ScanEndCells ==
  ASSUME CellsInv, IInv, ScanEnd, task.op # "push"
  PROVE  CellsInv'
<1>1. /\ stage = "scan" /\ stage' = "sort" /\ task' = task /\ out' = out /\ ScanSpent
  BY DEF ScanEnd
<1>2. ScanPlace /\ ScanCells /\ task \in Tasks /\ task.op \in SetOps
  BY <1>1 DEF CellsInv, ScanPlace
<1>3. ASSUME NEW c \in Int PROVE Covers(out, c) <=> c \in Exact
  BY <1>1, <1>2, ScanComplete, ExactCells DEF Exactly
<1>4. Exact' = Exact
  BY <1>1 DEF Exact
<1>5. \A c \in Int : Covers(out', c) <=> c \in Exact'
  BY <1>1, <1>3, <1>4
<1>6. \A c : Covers(out, c)' <=> Covers(out', c)
  BY DEF Covers
<1>7. QED
  BY <1>1, <1>5, <1>6 DEF CellsInv

(* Sorting loses no cell: the order has every valid span, and the others    *)
(* cover nothing.                                                           *)
LEMMA OrdersCover ==
  ASSUME NEW s \in Seq(Span), NEW order \in Orders(s), NEW c \in Int
  PROVE  Covers([i \in DOMAIN order |-> s[order[i]]], c) <=> Covers(s, c)
<1> DEFINE valid == {i \in DOMAIN s : is_valid(s[i])}
           n == Cardinality(valid)
           t == [i \in DOMAIN order |-> s[order[i]]]
<1>1. DOMAIN s = 1 .. Len(s) /\ Len(s) \in Nat /\ \A i \in 1 .. Len(s) : s[i] \in Span
  BY LenProperties, ElementOfSeq
<1>2. IsFiniteSet(valid) /\ n \in Nat
  <2>1. IsFiniteSet(1 .. Len(s))
    BY <1>1, FS_Interval
  <2>2. valid \subseteq 1 .. Len(s)
    BY <1>1
  <2>3. QED
    BY <2>1, <2>2, FS_Subset, FS_CardinalityType
<1>3. order \in [1 .. n -> valid]
  BY DEF Orders
<1>4. ASSUME NEW i \in 1 .. n, NEW j \in 1 .. n, i < j PROVE order[i] # order[j]
  <2>1. \/ s[order[i]].t0 < s[order[j]].t0
        \/ /\ s[order[i]].t0 = s[order[j]].t0
           /\ s[order[i]].t1 < s[order[j]].t1 \/ (s[order[i]].t1 = s[order[j]].t1 /\ order[i] < order[j])
    BY <1>3, <1>4 DEF Orders
  <2>2. s[order[i]] \in Span /\ s[order[j]] \in Span /\ order[i] \in Int
    BY <1>1, <1>3
  <2>3. QED
    BY <2>1, <2>2 DEF Span
<1>5. \A i, j \in 1 .. n : order[i] = order[j] => i = j
  <2> SUFFICES ASSUME NEW i \in 1 .. n, NEW j \in 1 .. n, i # j PROVE order[i] # order[j]
    OBVIOUS
  <2>1. i < j \/ j < i
    OBVIOUS
  <2>2. QED
    BY <1>4, <2>1
<1> HIDE DEF n, valid
<1>6. IsFiniteSet(1 .. n) /\ Cardinality(1 .. n) = n
  BY <1>2, FS_Interval
<1>7. order \in Injection(1 .. n, valid)
  BY <1>3, <1>5 DEF Injection, IsInjective
<1>8. order \in Surjection(1 .. n, valid)
  BY <1>2, <1>6, <1>7, FS_Injection DEF n
<1>9. \A k \in valid : \E i \in 1 .. n : order[i] = k
  BY <1>8 DEF Surjection
<1>10. Len(t) = n /\ \A i \in 1 .. n : t[i] = s[order[i]]
  <2>1. t \in [1 .. n -> Span]
    BY <1>1, <1>3 DEF valid
  <2>2. Len(t) = n
    BY <1>2, <2>1, SeqDef, LenProperties
  <2>3. QED
    BY <1>3, <2>2
<1> HIDE DEF t
<1>11. ASSUME Covers(t, c) PROVE Covers(s, c)
  <2>1. PICK i \in 1 .. n : t[i].t0 <= c /\ c < t[i].t1
    BY <1>10, <1>11 DEF Covers
  <2>2. order[i] \in 1 .. Len(s)
    BY <1>1, <1>3 DEF valid
  <2>3. QED
    BY <1>10, <2>1, <2>2 DEF Covers
<1>12. ASSUME Covers(s, c) PROVE Covers(t, c)
  <2>1. PICK k \in 1 .. Len(s) : s[k].t0 <= c /\ c < s[k].t1
    BY <1>12 DEF Covers
  <2>2. s[k].t0 < s[k].t1
    BY <1>1, <2>1 DEF Span
  <2>3. k \in valid
    BY <1>1, <2>2 DEF valid, is_valid, Span
  <2>4. PICK i \in 1 .. n : order[i] = k
    BY <1>9, <2>3
  <2>5. QED
    BY <1>10, <2>1, <2>4 DEF Covers
<1>13. QED
  BY <1>11, <1>12 DEF t

(* Sorting keeps the cells and hands the merge the first span.             *)
LEMMA SortCells ==
  ASSUME CellsInv, IInv, Sort, task.op # "push"
  PROVE  CellsInv'
<1> DEFINE X == Exact
           H == Healed(X)
           m == current'.t0
           n == current'.t1
<1>1. PICK order \in Orders(out) : out' = [i \in DOMAIN order |-> out[order[i]]]
  BY DEF Sort
<1>2. /\ stage = "sort" /\ task' = task /\ read' = 2 /\ write' = 1 /\ out \in Seq(Span)
      /\ task \in Tasks
  BY DEF Sort, IInv, ScanInv
<1>3. Exact' = X /\ X \in SUBSET Int /\ H \in SUBSET Int /\ X \subseteq H
  <2>1. Exact' = Exact
    BY <1>2 DEF Exact
  <2>2. QED
    BY <1>2, <2>1, ExactCells, HealedCells
<1>4. ASSUME NEW c \in Int PROVE Covers(out', c) <=> c \in X
  BY <1>1, <1>2, OrdersCover DEF CellsInv
<1> HIDE DEF X, H
<1>5. CASE out' = <<>>
  <2>1. stage' = "done"
    BY <1>5 DEF Sort, Normalized
  <2>2. \A c \in Int : ~Covers(out', c)
    <3>1. Len(out') = 0
      BY <1>5
    <3>2. QED
      BY <3>1 DEF Covers
  <2>3. \A c : c \notin X
    BY <1>3, <1>4, <2>2
  <2>4. \A c : c \notin H
    BY <1>3, <2>3, HealedIs DEF H
  <2>5. \A c : c \notin WithoutSlivers(H)
    BY <2>4 DEF WithoutSlivers
  <2>6. \A c : Covers(out, c)' <=> Covers(out', c)
    BY DEF Covers
  <2>7. WithoutSlivers(Healed(Exact))' = WithoutSlivers(H)
    BY <1>3 DEF H, X, Healed, WithoutSlivers
  <2>8. \A c \in Int : Covers(out, c)' <=> c \in WithoutSlivers(Healed(Exact))'
    BY <2>2, <2>5, <2>6, <2>7
  <2>9. QED
    BY <2>1, <2>8 DEF CellsInv
<1>6. CASE out' # <<>>
  <2>1. stage' = "merge" /\ current' = out'[1]
    BY <1>6 DEF Sort
  <2>2. /\ Len(out') \in Nat /\ 1 \in 1 .. Len(out')
        /\ \A i \in 1 .. Len(out') : out'[i].t0 \in Int /\ out'[i].t1 \in Int
        /\ m \in Int /\ n \in Int /\ m < n
        /\ \A i \in 2 .. Len(out') : out'[i].t0 >= m
        /\ Eps \in Nat /\ Eps >= 1
    <3>1. /\ out' \in Seq(Span)
          /\ \A i \in 1 .. Len(out') : is_valid(out'[i])
          /\ \A i, j \in 1 .. Len(out') : i < j => out'[i].t0 <= out'[j].t0
      BY <1>1, <1>2, OrdersProperties
    <3>2. Len(out') \in Nat /\ 1 \in 1 .. Len(out') /\ \A i \in 1 .. Len(out') : out'[i] \in Span
      BY <1>6, <3>1, EmptySeq, LenProperties, ElementOfSeq
    <3>3. \A i \in 2 .. Len(out') : out'[i].t0 >= out'[1].t0
      <4>1. \A i \in 2 .. Len(out') : i \in 1 .. Len(out') /\ 1 < i
        BY <3>2
      <4>2. QED
        BY <3>1, <3>2, <4>1 DEF Span
    <3>4. QED
      BY <2>1, <3>1, <3>2, <3>3, SpansAssumption DEF is_valid, Span
  <2> HIDE DEF m, n
  <2>3. \A i : i \in 1 .. Len(out') <=> i = 1 \/ i \in 2 .. Len(out')
    BY <2>2
  <2>4. ASSUME NEW c \in Int PROVE c \in X <=> From(out', 2, c) \/ (m <= c /\ c < n)
    <3>1. Covers(out', c) <=> From(out', 2, c) \/ (out'[1].t0 <= c /\ c < out'[1].t1)
      BY <2>3 DEF Covers, From
    <3>2. QED
      BY <1>4, <2>1, <3>1 DEF m, n
  <2>5. \A c \in X : c >= m
    <3> SUFFICES ASSUME NEW c \in X, From(out', 2, c) PROVE c >= m
      BY <1>3, <2>4
    <3>1. PICK i \in 2 .. Len(out') : out'[i].t0 <= c
      BY DEF From
    <3>2. out'[i].t0 \in Int /\ out'[i].t0 >= m /\ c \in Int
      BY <1>3, <2>2, <2>3
    <3>3. QED
      BY <2>2, <3>1, <3>2
  <2>6. ASSUME NEW c \in Int, c < m PROVE c \notin H
    <3>1. c \notin X
      BY <2>2, <2>5, <2>6
    <3>2. ASSUME NEW l \in X, l < c PROVE FALSE
      <4>1. l \in Int /\ l >= m
        BY <1>3, <2>5
      <4>2. QED
        BY <2>2, <2>6, <3>2, <4>1
    <3>3. QED
      BY <1>3, <3>1, <3>2, HealedIs DEF H
  <2>7. \A c \in Int : From(out', 2, c) => c \in X
    BY <2>4
  <2>8. \A c \in Int : m <= c /\ c < n => c \in X /\ c \in H
    BY <1>3, <2>4
  <2>9. m \in X /\ n - 1 \in X /\ m - 1 \notin H
    <3>1. m <= m /\ m <= n - 1 /\ n - 1 < n /\ n - 1 \in Int /\ m - 1 \in Int /\ m - 1 < m
      BY <2>2
    <3>2. QED
      BY <2>2, <2>6, <2>8, <3>1
  <2>10. ASSUME NEW c \in Int, c < m
         PROVE  UpTo(out', 0, c) <=> c \in WithoutSlivers(H)
    <3>1. c \notin WithoutSlivers(H)
      BY <2>6, <2>10 DEF WithoutSlivers
    <3>2. ~UpTo(out', 0, c)
      BY DEF UpTo
    <3>3. QED
      BY <3>1, <3>2
  <2>11. write' - 1 = 0 /\ 1 .. write' - 1 = {}
    BY <1>2
  <2>12. Healed(Exact)' = H /\ WithoutSlivers(Healed(Exact))' = WithoutSlivers(H)
    BY <1>3 DEF H, X, Healed, WithoutSlivers
  <2>13. \A c : /\ From(out, read, c)' <=> From(out', 2, c)
                /\ UpTo(out, write - 1, c)' <=> UpTo(out', 0, c)
    BY <1>2, <2>11 DEF From, UpTo
  <2>14. /\ \A c \in Int : From(out, read, c)' => c \in X
         /\ \A c \in Int : m <= c /\ c < n => c \in H
         /\ m \in X /\ n - 1 \in X
         /\ \A c \in X : From(out, read, c)' \/ (m <= c /\ c < n) \/ m - c - 1 > Eps
         /\ \A c \in Int : c < m => (UpTo(out, write - 1, c)' <=> c \in WithoutSlivers(H))
         /\ m - 1 \notin H
         /\ \A i \in 1 .. write' - 1 : out'[i].t1 <= m
    BY <1>3, <2>4, <2>7, <2>8, <2>9, <2>10, <2>11, <2>13
  <2>15. MergeCells'
    BY <1>3, <2>12, <2>14 DEF MergeCells, m, n
  <2>16. QED
    BY <2>1, <2>15 DEF CellsInv
<1>7. QED
  BY <1>5, <1>6

(* The spans from the m-th on are the m-th and those after it.              *)
LEMMA FromNext ==
  ASSUME NEW s, NEW m \in Int, Len(s) \in Nat, m <= Len(s), NEW c
  PROVE  From(s, m, c) <=> From(s, m + 1, c) \/ (s[m].t0 <= c /\ c < s[m].t1)
<1>1. \A i : i \in m .. Len(s) <=> i \in m + 1 .. Len(s) \/ i = m
  OBVIOUS
<1>2. QED
  BY <1>1 DEF From

(* A span is fused in, or the current one is written and it takes its place. *)
LEMMA MergeNextCells ==
  ASSUME CellsInv, IInv, MergeNext, task.op # "push"
  PROVE  CellsInv'
<1> DEFINE X == Exact
           H == Healed(X)
           m == current.t0
           n == current.t1
           p == out[read].t0
           q == out[read].t1
<1>1. /\ stage = "merge" /\ stage' = "merge" /\ task' = task
      /\ read' = read + 1 /\ read <= Len(out)
  BY DEF MergeNext
<1>2. /\ task \in Tasks
      /\ out \in Seq(Span) /\ Len(out) \in Nat
      /\ \A i \in 1 .. Len(out) : out[i].t0 \in Int /\ out[i].t1 \in Int
      /\ current \in Span /\ m \in Int /\ n \in Int /\ m < n
      /\ read \in 2 .. Len(out)
      /\ write \in Nat \ {0} /\ write < read /\ write \in 1 .. Len(out)
      /\ p \in Int /\ q \in Int /\ p < q /\ p >= m
      /\ \A i \in read .. Len(out) : out[i].t0 >= p
      /\ Eps \in Nat /\ Eps >= 1
  <2>1. /\ read \in 2 .. Len(out) + 1 /\ Len(out) \in Nat
        /\ \A i \in 1 .. Len(out) : out[i].t0 \in Int /\ out[i].t1 \in Int
        /\ \A i \in read .. Len(out) : out[i].t0 < out[i].t1 /\ out[i].t0 >= current.t0
        /\ \A i, j \in read .. Len(out) : i < j => out[i].t0 <= out[j].t0
    BY <1>1, Merging
  <2>2. read \in 1 .. Len(out) /\ read \in read .. Len(out)
    BY <1>1, <2>1
  <2>3. ASSUME NEW i \in read .. Len(out) PROVE out[i].t0 >= p
    <3>1. CASE i = read
      BY <2>1, <2>2, <3>1
    <3>2. CASE read < i
      BY <2>1, <2>2, <3>2
    <3>3. QED
      BY <2>1, <2>2, <3>1, <3>2
  <2>4. p \in Int /\ q \in Int /\ p < q /\ p >= m
    BY <2>1, <2>2
  <2>5. QED
    BY <1>1, <2>1, <2>2, <2>3, <2>4, Merging
<1>3. Exact' = X /\ X \in SUBSET Int /\ H \in SUBSET Int /\ X \subseteq H
  <2>1. Exact' = Exact
    BY <1>1 DEF Exact
  <2>2. QED
    BY <1>2, <2>1, ExactCells, HealedCells
<1>4. /\ \A c \in Int : From(out, read, c) => c \in X
      /\ \A c \in Int : m <= c /\ c < n => c \in H
      /\ m \in X /\ n - 1 \in X
      /\ \A c \in X : From(out, read, c) \/ (m <= c /\ c < n) \/ m - c - 1 > Eps
      /\ \A c \in Int : c < m => (UpTo(out, write - 1, c) <=> c \in WithoutSlivers(H))
      /\ m - 1 \notin H
      /\ \A i \in 1 .. write - 1 : out[i].t1 <= m
  BY <1>1 DEF CellsInv, MergeCells
<1>5. MergeCells
  BY <1>1 DEF CellsInv
<1>6. \A c : From(out, read, c) <=> From(out, read + 1, c) \/ (p <= c /\ c < q)
  BY <1>2, FromNext
<1>7. Healed(Exact)' = H /\ WithoutSlivers(Healed(Exact))' = WithoutSlivers(H)
  BY <1>3 DEF Healed, WithoutSlivers
<1>8. \A c \in Int : p <= c /\ c < q => c \in X
  BY <1>4, <1>6
<1>9. p \in X /\ q - 1 \in X
  <2>1. p <= p /\ p <= q - 1 /\ q - 1 < q /\ q - 1 \in Int
    BY <1>2
  <2>2. QED
    BY <1>2, <1>8, <2>1
<1> DEFINE m2 == current'.t0
           n2 == current'.t1
<1>10. SUFFICES /\ \A c \in Int : From(out', read + 1, c) => c \in X
                /\ \A c \in Int : m2 <= c /\ c < n2 => c \in H
                /\ m2 \in X /\ n2 - 1 \in X
                /\ \A c \in X : From(out', read + 1, c) \/ (m2 <= c /\ c < n2) \/ m2 - c - 1 > Eps
                /\ \A c \in Int : c < m2 => (UpTo(out', write' - 1, c) <=> c \in WithoutSlivers(H))
                /\ m2 - 1 \notin H
                /\ \A i \in 1 .. write' - 1 : out'[i].t1 <= m2
  <2> HIDE DEF X, H
  <2>1. \A c : /\ From(out, read, c)' <=> From(out', read + 1, c)
               /\ UpTo(out, write - 1, c)' <=> UpTo(out', write' - 1, c)
    BY <1>1 DEF From, UpTo
  <2>2. MergeCells'
    BY <1>3, <1>7, <1>10, <2>1 DEF MergeCells
  <2>3. QED
    BY <1>1, <2>2 DEF CellsInv
<1> HIDE DEF X, H
<1>11. CASE Close(p - n)
  <2>1. out' = out /\ write' = write /\ current' = Extended(current, out[read])
    BY <1>11 DEF MergeNext
  <2>2. p - n <= Eps
    BY <1>11 DEF Close
  <2>3. m2 = m /\ n2 = IF q > n THEN q ELSE n
    BY <1>2, <2>1 DEF Extended, Span
  <2> HIDE DEF m, n, p, q, m2, n2
  <2>4. n2 \in Int /\ n2 >= n /\ n2 >= q /\ (n2 = n \/ (n2 = q /\ q > n))
    BY <1>2, <2>3
  <2>5. ASSUME NEW c \in Int, m <= c, c < n2 PROVE c \in H
    <3>1. CASE c < n
      BY <1>4, <2>5, <3>1
    <3>2. CASE c >= n /\ c >= p
      <4>1. c < q
        BY <1>2, <2>4, <2>5, <3>2
      <4>2. QED
        BY <1>3, <1>8, <3>2, <4>1
    <3>3. CASE c >= n /\ c < p
      <4>1. n - 1 < c /\ c < p /\ p - (n - 1) - 1 <= Eps
        BY <1>2, <2>2, <3>3
      <4>2. QED
        BY <1>3, <1>4, <1>9, <4>1, HealedIs DEF H
    <3>4. QED
      BY <1>2, <3>1, <3>2, <3>3
  <2>6. n2 - 1 \in X
    BY <1>4, <1>9, <2>4
  <2>7. ASSUME NEW c \in X PROVE From(out, read + 1, c) \/ (m <= c /\ c < n2) \/ m - c - 1 > Eps
    <3>1. CASE From(out, read, c)
      <4>1. CASE p <= c /\ c < q
        <5>1. m <= c /\ c < n2
          BY <1>2, <1>3, <2>4, <4>1
        <5>2. QED
          BY <5>1
      <4>2. QED
        BY <1>6, <3>1, <4>1
    <3>2. CASE m <= c /\ c < n
      <4>1. c < n2
        BY <1>2, <1>3, <2>4, <3>2
      <4>2. QED
        BY <3>2, <4>1
    <3>3. QED
      BY <1>4, <3>1, <3>2
  <2>8. \A c \in Int : From(out, read + 1, c) => c \in X
    BY <1>4, <1>6
  <2>9. QED
    BY <1>4, <2>1, <2>3, <2>5, <2>6, <2>7, <2>8
<1>12. CASE ~Close(p - n)
  <2>1. out' = Written /\ write' = WriteNext /\ current' = out[read]
    BY <1>12 DEF MergeNext
  <2>2. p - n > Eps
    BY <1>2, <1>12 DEF Close
  <2>3. m2 = p /\ n2 = q
    BY <2>1
  <2>4. ASSUME NEW x \in X PROVE x < n \/ x >= p
    <3>1. CASE From(out, read, x)
      <4>1. PICK i \in read .. Len(out) : out[i].t0 <= x
        BY <3>1 DEF From
      <4>2. out[i].t0 \in Int /\ out[i].t0 >= p
        BY <1>2
      <4>3. QED
        BY <1>2, <1>3, <4>1, <4>2
    <3>2. CASE m - x - 1 > Eps
      BY <1>2, <1>3, <3>2
    <3>3. QED
      BY <1>4, <3>1, <3>2
  <2>5. ASSUME NEW c \in Int, c < p
        PROVE  /\ UpTo(Written, WriteNext - 1, c) <=> c \in WithoutSlivers(H)
               /\ c >= n => c \notin H
    BY <1>1, <1>2, <1>5, <2>2, <2>4, <2>5, CurrentSettled DEF H, X
  <2>6. p - 1 \notin H
    <3>1. p - 1 \in Int /\ p - 1 < p /\ p - 1 >= n
      BY <1>2, <2>2
    <3>2. QED
      BY <2>5, <3>1
  <2>7. \A c \in Int : p <= c /\ c < q => c \in H
    BY <1>3, <1>8
  <2>8. Len(Written) = Len(out) /\ \A i \in read .. Len(out) : Written[i] = out[i]
    BY <1>1, CurrentWritten
  <2>9. \A c : From(Written, read + 1, c) <=> From(out, read + 1, c)
    <3>1. \A i \in read + 1 .. Len(out) : i \in read .. Len(out)
      BY <1>2
    <3>2. QED
      BY <2>8, <3>1 DEF From
  <2>10. ASSUME NEW c \in X PROVE From(out, read + 1, c) \/ (p <= c /\ c < q) \/ p - c - 1 > Eps
    <3>1. CASE From(out, read, c)
      BY <1>6, <3>1
    <3>2. CASE ~From(out, read, c)
      <4>1. (m <= c /\ c < n) \/ m - c - 1 > Eps
        BY <1>4, <3>2
      <4>2. c \in Int
        BY <1>3
      <4>3. p - c - 1 > Eps
        BY <1>2, <2>2, <4>1, <4>2
      <4>4. QED
        BY <4>3
    <3>3. QED
      BY <3>1, <3>2
  <2>11. \A c \in Int : From(out, read + 1, c) => c \in X
    BY <1>4, <1>6
  <2>12. ASSUME NEW i \in 1 .. WriteNext - 1 PROVE Written[i].t1 <= p
    <3>1. (i \in 1 .. write - 1 /\ Written[i] = out[i]) \/ Written[i] = current
      BY <1>1, WrittenCovers
    <3>2. CASE i \in 1 .. write - 1 /\ Written[i] = out[i]
      <4>1. out[i].t1 <= m /\ out[i].t1 \in Int
        BY <1>2, <1>4, <3>2
      <4>2. QED
        BY <1>2, <3>2, <4>1
    <3>3. CASE Written[i] = current
      BY <1>2, <2>2, <3>3
    <3>4. QED
      BY <3>1, <3>2, <3>3
  <2> HIDE DEF p, q, m2, n2, m, n
  <2>13. QED
    BY <1>9, <2>1, <2>3, <2>5, <2>6, <2>7, <2>9, <2>10, <2>11, <2>12
<1>13. QED
  BY <1>11, <1>12

(* The last current span is written, and the rest of the list cut off.     *)
LEMMA MergeEndCells ==
  ASSUME CellsInv, IInv, MergeEnd, task.op # "push"
  PROVE  CellsInv'
<1> DEFINE X == Exact
           H == Healed(X)
           n == current.t1
<1>1. /\ stage = "merge" /\ stage' = "done" /\ task' = task /\ read > Len(out)
      /\ out' = SubSeq(Written, 1, WriteNext - 1)
  BY DEF MergeEnd, Normalized
<1>2. /\ task \in Tasks /\ n \in Int /\ Eps \in Nat /\ Eps >= 1 /\ current.t0 \in Int /\ current.t0 < n
      /\ read \in 2 .. Len(out) + 1 /\ Len(out) \in Nat /\ write \in 1 .. Len(out)
  BY <1>1, Merging
<1>3. Exact' = X /\ X \in SUBSET Int
  <2>1. Exact' = Exact
    BY <1>1 DEF Exact
  <2>2. QED
    BY <1>2, <2>1, ExactCells
<1>4. MergeCells
  BY <1>1 DEF CellsInv
<1>5. \A x \in X : x < n
  <2>1. \A x : ~From(out, read, x)
    BY <1>1, <1>2 DEF From
  <2>2. \A x \in X : (current.t0 <= x /\ x < n) \/ current.t0 - x - 1 > Eps
    BY <1>4, <2>1 DEF MergeCells
  <2>3. QED
    BY <1>2, <1>3, <2>2
<1>6. ASSUME NEW c \in Int PROVE UpTo(Written, WriteNext - 1, c) <=> c \in WithoutSlivers(H)
  <2> DEFINE k == (IF c < n THEN n ELSE c) + Eps + 1
  <2>1. k \in Int /\ k - n > Eps /\ c < k
    BY <1>2
  <2> HIDE DEF k
  <2>2. QED
    BY <1>1, <1>4, <1>5, <2>1, CurrentSettled
<1>7. /\ Written \in Seq(Span) /\ Len(Written) = Len(out)
      /\ WriteNext \in {write, write + 1}
  BY <1>1, CurrentWritten
<1>8. Len(out') = WriteNext - 1 /\ \A i \in 1 .. WriteNext - 1 : out'[i] = Written[i]
  <2>1. WriteNext - 1 \in Nat /\ WriteNext - 1 <= Len(Written)
    BY <1>2, <1>7
  <2>2. QED
    BY <1>1, <1>7, <2>1, PrefixOfSpans
<1>9. \A c : Covers(out, c)' <=> UpTo(Written, WriteNext - 1, c)
  BY <1>8 DEF Covers, UpTo
<1> HIDE DEF H, X
<1>10. WithoutSlivers(Healed(Exact))' = WithoutSlivers(H)
  BY <1>3 DEF H, X, Healed, WithoutSlivers
<1>11. \A c \in Int : Covers(out, c)' <=> c \in WithoutSlivers(Healed(Exact))'
  BY <1>6, <1>9, <1>10
<1>12. QED
  BY <1>1, <1>11 DEF CellsInv

(* An iteration of the scan keeps the cells.                                *)
LEMMA ScanEndpointCells ==
  ASSUME CellsInv, IInv, ScanEndpoint, task.op # "push"
  PROVE  CellsInv'
<1>1. stage = "scan" /\ stage' = "scan"
  BY DEF ScanEndpoint
<1>2. ScanPlace /\ ScanCells
  BY <1>1 DEF CellsInv
<1>3. ScanPlace' /\ ScanCells'
  BY <1>2, ScanPlaceOn, ScanCellsOn
<1>4. QED
  BY <1>1, <1>3 DEF CellsInv

(* Every step keeps the cells.                                              *)
LEMMA NextCells ==
  ASSUME CellsInv, IInv, [Next]_vars
  PROVE  CellsInv'
<1>1. CASE UNCHANGED vars
  <2>1. /\ task' = task /\ stage' = stage /\ ia' = ia /\ ib' = ib /\ in_a' = in_a /\ in_b' = in_b
        /\ open' = open /\ out' = out /\ read' = read /\ write' = write /\ current' = current
    BY <1>1 DEF vars
  <2>2. Exact' = Exact
    BY <2>1 DEF Exact
  <2>3. Healed(Exact)' = Healed(Exact)
    BY <2>2 DEF Healed
  <2>4. WithoutSlivers(Healed(Exact))' = WithoutSlivers(Healed(Exact))
    BY <2>3 DEF WithoutSlivers
  <2>5. \A c : Covers(out, c)' <=> Covers(out, c)
    BY <2>1 DEF Covers
  <2>6. ScanPlace' <=> ScanPlace
    BY <2>1 DEF ScanPlace, Standing, Taken, Passed, ea, eb, Endpoint, combine
  <2>7. ScanCells' <=> ScanCells
    <3>1. \A c : /\ Behind(c)' <=> Behind(c)
                 /\ Opened(c)' <=> Opened(c)
                 /\ Meant(c)' <=> Meant(c)
      BY <2>1 DEF Behind, Taken, Passed, Opened, Meant, combine, Covers
    <3>2. QED
      BY <2>5, <3>1 DEF ScanCells
  <2>8. MergeCells' <=> MergeCells
    <3>1. \A c : /\ From(out, read, c)' <=> From(out, read, c)
                 /\ UpTo(out, write - 1, c)' <=> UpTo(out, write - 1, c)
      BY <2>1 DEF From, UpTo
    <3>2. QED
      BY <2>1, <2>2, <2>3, <2>4, <3>1 DEF MergeCells
  <2>9. QED
    BY <2>1, <2>2, <2>4, <2>5, <2>6, <2>7, <2>8 DEF CellsInv
<1>2. CASE Next /\ task.op = "push"
  <2>1. task' = task
    BY <1>2 DEF Next, ScanEndpoint, ScanEnd, Sort, MergeNext, MergeEnd, PushIgnored, PushInOrder,
                PushOutOfOrder, PushEnd
  <2>2. QED
    BY <1>2, <2>1 DEF CellsInv
<1>3. CASE Next /\ task.op # "push"
  <2>1. stage # "push"
    BY <1>3 DEF IInv
  <2>2. ScanEndpoint \/ ScanEnd \/ Sort \/ MergeNext \/ MergeEnd
    BY <1>3, <2>1 DEF Next, PushIgnored, PushInOrder, PushOutOfOrder, PushEnd, Pushing
  <2>3. QED
    BY <1>3, <2>2, ScanEndpointCells, ScanEndCells, SortCells, MergeNextCells, MergeEndCells
<1>4. QED
  BY <1>1, <1>2, <1>3

(* What a set operation returns, and from_unsorted, is the operation on sets *)
(* of cells, with gaps up to the threshold healed and then what is still     *)
(* shorter dropped: the streams neither skip an endpoint nor take one twice, *)
(* and the in-place merge loses no span, whatever order they come in.        *)
THEOREM ResultIsTheSetHolds == Spec => []ResultIsTheSet
<1>1. Init => CellsInv
  BY InitCells
<1>2. CellsInv /\ IInv /\ [Next]_vars => CellsInv'
  BY NextCells
<1>3. CellsInv /\ IInv => ResultIsTheSet
  <2> SUFFICES ASSUME CellsInv, IInv, stage = "done", task.op # "push"
               PROVE  Points(out) = WithoutSlivers(Healed(Exact))
    BY DEF ResultIsTheSet
  <2>1. out \in Seq(Span) /\ task \in Tasks
    BY DEF IInv, ScanInv
  <2>2. WithoutSlivers(Healed(Exact)) \in SUBSET Int
    <3>1. Healed(Exact) \in SUBSET Int
      BY <2>1, ExactCells, HealedCells
    <3>2. QED
      BY <3>1 DEF WithoutSlivers
  <2>3. \A c : c \in Points(out) <=> c \in Int /\ Covers(out, c)
    BY <2>1, PointsCovers
  <2>4. \A c \in Int : Covers(out, c) <=> c \in WithoutSlivers(Healed(Exact))
    BY DEF CellsInv
  <2>5. QED
    BY <2>2, <2>3, <2>4
<1>4. QED
  BY <1>1, <1>2, <1>3, SpansInvariant, PTL DEF Spec

-----------------------------------------------------------------------------
(* The faces *)

(* Where a span of a begins or ends.                                        *)
BoundOfA(t) == \E k \in 1 .. Len(task.a) : t = task.a[k].t0 \/ t = task.a[k].t1

(* A normal that lies at t and faces that way, a's own where a has a bound. *)
Faces(n, t, way) == n.at = t /\ n.out = way /\ (BoundOfA(t) => n.of = "a")
SpanFaces(s) == Faces(s.n0, s.t0, -1) /\ Faces(s.n1, s.t1, 1)

(* Every span the call holds faces outward, the open and the current one    *)
(* included.                                                                *)
FacesInv ==
  /\ stage = "scan" => ScanPlace /\ (open # None => Faces(open.n, open.t, -1))
  /\ stage = "merge" => SpanFaces(current)
  /\ \A i \in 1 .. Len(out) : SpanFaces(out[i])

(* The surface a stream presents lies at its endpoint; it faces up where the *)
(* stream leaves a span and down where it enters one.                       *)
LEMMA SurfaceFaces ==
  ASSUME NEW s, NEW i, NEW inside, NEW owner, Standing(s, i, inside), Owned(s, owner), i <= Len(s)
  PROVE  Surface(s, i, inside)
           = [of |-> owner, at |-> Endpoint(s, i, inside), out |-> IF inside THEN 1 ELSE -1]
<1>1. DOMAIN s = 1 .. Len(s) /\ Len(s) \in Nat /\ i \in 1 .. Len(s)
  BY LenProperties DEF Standing
<1>2. s[i].n0 = [of |-> owner, at |-> s[i].t0, out |-> -1] /\ s[i].n1 = [of |-> owner, at |-> s[i].t1, out |-> 1]
  BY <1>1 DEF Owned
<1>3. CASE inside
  BY <1>1, <1>2, <1>3 DEF Surface, Endpoint
<1>4. CASE ~inside
  BY <1>1, <1>2, <1>4 DEF Surface, Endpoint
<1>5. QED
  BY <1>3, <1>4

(* Where only b has an endpoint, a has no bound.                            *)
LEMMA NoBoundOfA ==
  ASSUME ScanPlace, ScanEndpoint, ea # At
  PROVE  ~BoundOfA(At)
<1>1. StreamsAdvance /\ Standing(task.a, ia, in_a) /\ IsSpans(task.a)
  BY StreamsGoOn, OperandsAssumption DEF ScanPlace
<1>2. SUFFICES ASSUME NEW k \in 1 .. Len(task.a), At = task.a[k].t0 \/ At = task.a[k].t1
               PROVE  FALSE
  BY DEF BoundOfA
<1>3. \/ Passed(task.a, ia, in_a, At)
      \/ ia <= Len(task.a) /\ At >= Endpoint(task.a, ia, in_a)
  BY <1>1, <1>2, PassedOrAhead
<1>4. CASE Passed(task.a, ia, in_a, At)
  <2>1. Taken(At)
    BY <1>4 DEF Taken
  <2>2. At \in Int /\ At < At
    BY <1>1, <2>1 DEF StreamsAdvance
  <2>3. QED
    BY <2>2
<1>5. CASE ia <= Len(task.a) /\ At >= Endpoint(task.a, ia, in_a)
  <2>1. ea # None /\ At >= ea
    BY <1>1, <1>5, EndpointNone DEF ea
  <2>2. At \in Int /\ ea \in Int /\ At <= ea
    BY <1>1, <2>1 DEF StreamsAdvance
  <2>3. QED
    BY <2>1, <2>2
<1>6. QED
  BY <1>3, <1>4, <1>5

(* Where the result begins or ends, the normal the scan takes faces down or *)
(* up: on a tie a begins or ends with the result; a bound of b alone turns  *)
(* the result round exactly when b is cut away.                             *)
LEMMA NormalFaces ==
  ASSUME ScanPlace, ScanEndpoint
  PROVE  /\ combine(in_a', in_b') /\ ~combine(in_a, in_b) => Faces(normal_here, At, -1)
         /\ ~combine(in_a', in_b') /\ combine(in_a, in_b) => Faces(normal_here, At, 1)
<1>1. StreamsAdvance /\ task \in Tasks /\ task.op \in SetOps
      /\ Standing(task.a, ia, in_a) /\ Standing(task.b, ib, in_b)
      /\ IsSpans(task.a) /\ IsSpans(task.b)
      /\ Owned(task.a, "a") /\ Owned(task.b, "b")
  BY StreamsGoOn, OperandsAssumption, FacesAssumption DEF ScanPlace
<1>2. /\ in_a \in BOOLEAN /\ in_b \in BOOLEAN
      /\ in_a' \in BOOLEAN /\ in_b' \in BOOLEAN
      /\ in_a' <=> ~(in_a <=> ea = At)
      /\ in_b' <=> ~(in_b <=> eb = At)
      /\ ea = At \/ eb = At
      /\ At \in Int /\ At # None
  <2>1. in_a \in BOOLEAN /\ in_b \in BOOLEAN
    BY <1>1 DEF Standing
  <2>2. in_a' \in BOOLEAN /\ in_b' \in BOOLEAN
    BY <1>1 DEF StreamsAdvance, Standing
  <2>3. At \in Int /\ At # None
    BY <1>1, SpansAssumption DEF StreamsAdvance
  <2>4. QED
    BY <1>1, <2>1, <2>2, <2>3 DEF StreamsAdvance
<1>3. task.op = "union" \/ task.op = "intersect" \/ task.op = "difference"
  BY <1>1 DEF SetOps
<1>4. /\ task.op = "union" => /\ combine(in_a, in_b) <=> in_a \/ in_b
                              /\ combine(in_a', in_b') <=> in_a' \/ in_b'
      /\ task.op = "intersect" => /\ combine(in_a, in_b) <=> in_a /\ in_b
                                  /\ combine(in_a', in_b') <=> in_a' /\ in_b'
      /\ task.op = "difference" => /\ combine(in_a, in_b) <=> in_a /\ ~in_b
                                   /\ combine(in_a', in_b') <=> in_a' /\ ~in_b'
  BY <1>1, <1>2, CombineIs
<1> DEFINE was == combine(in_a, in_b)
           is == combine(in_a', in_b')
<1> HIDE DEF was, is
<1>5. CASE ea = At
  <2>1. ia <= Len(task.a)
    BY <1>1, <1>2, <1>5, EndpointNone DEF ea
  <2>2. Surface(task.a, ia, in_a) = [of |-> "a", at |-> At, out |-> IF in_a THEN 1 ELSE -1]
    BY <1>1, <1>5, <2>1, SurfaceFaces DEF ea
  <2>3. normal_here = [of |-> "a", at |-> At, out |-> IF in_a THEN 1 ELSE -1]
    BY <1>5, <2>2 DEF normal_here
  <2>4. (is /\ ~was => ~in_a) /\ (~is /\ was => in_a)
    BY <1>2, <1>3, <1>4, <1>5, Zenon DEF is, was
  <2>5. /\ ~in_a => Faces(normal_here, At, -1)
        /\ in_a => Faces(normal_here, At, 1)
    BY <2>3 DEF Faces
  <2>6. QED
    BY <2>4, <2>5 DEF is, was
<1>6. CASE ea # At
  <2>1. eb = At /\ ~BoundOfA(At)
    BY <1>2, <1>6, NoBoundOfA
  <2>2. ib <= Len(task.b)
    BY <1>1, <1>2, <2>1, EndpointNone DEF eb
  <2>3. Surface(task.b, ib, in_b) = [of |-> "b", at |-> At, out |-> IF in_b THEN 1 ELSE -1]
    BY <1>1, <2>1, <2>2, SurfaceFaces DEF eb
  <2>4. CASE task.op = "difference"
    <3>1. normal_here = negated([of |-> "b", at |-> At, out |-> IF in_b THEN 1 ELSE -1])
      BY <1>6, <2>3, <2>4 DEF normal_here
    <3>2. /\ in_b => normal_here = [of |-> "b", at |-> At, out |-> -1]
          /\ ~in_b => normal_here = [of |-> "b", at |-> At, out |-> 1]
      BY <3>1 DEF negated
    <3>3. (is /\ ~was => in_b) /\ (~is /\ was => ~in_b)
      BY <1>2, <1>4, <1>6, <2>1, <2>4, Zenon DEF is, was
    <3>4. /\ in_b => Faces(normal_here, At, -1)
          /\ ~in_b => Faces(normal_here, At, 1)
      BY <2>1, <3>2 DEF Faces
    <3>5. QED
      BY <3>3, <3>4 DEF is, was
  <2>5. CASE task.op # "difference"
    <3>1. normal_here = [of |-> "b", at |-> At, out |-> IF in_b THEN 1 ELSE -1]
      BY <1>6, <2>3, <2>5 DEF normal_here
    <3>2. (is /\ ~was => ~in_b) /\ (~is /\ was => in_b)
      BY <1>2, <1>3, <1>4, <1>6, <2>1, <2>5, Zenon DEF is, was
    <3>3. /\ ~in_b => Faces(normal_here, At, -1)
          /\ in_b => Faces(normal_here, At, 1)
      BY <2>1, <3>1 DEF Faces
    <3>4. QED
      BY <3>2, <3>3 DEF is, was
  <2>6. QED
    BY <2>4, <2>5
<1>7. QED
  BY <1>5, <1>6

(* The spans of a call's own operand face outward.                          *)
LEMMA OperandFaces ==
  ASSUME task \in Tasks, NEW k \in 1 .. Len(task.a)
  PROVE  SpanFaces(task.a[k])
<1>1. Owned(task.a, "a") /\ DOMAIN task.a = 1 .. Len(task.a)
  BY TaskType, FacesAssumption, LenProperties
<1>2. /\ task.a[k].n0 = [of |-> "a", at |-> task.a[k].t0, out |-> -1]
      /\ task.a[k].n1 = [of |-> "a", at |-> task.a[k].t1, out |-> 1]
  BY <1>1 DEF Owned
<1>3. QED
  BY <1>2 DEF SpanFaces, Faces

(* Fusing a span in keeps the faces: a normal travels with its bound.       *)
LEMMA ExtendedFaces ==
  ASSUME NEW s \in Span, NEW n \in Span, SpanFaces(s), SpanFaces(n)
  PROVE  SpanFaces(Extended(s, n))
<1>1. CASE n.t1 > s.t1
  <2>1. Extended(s, n) = [t0 |-> s.t0, t1 |-> n.t1, n0 |-> s.n0, n1 |-> n.n1]
    BY <1>1 DEF Extended, Span
  <2>2. QED
    BY <2>1 DEF SpanFaces
<1>2. CASE ~(n.t1 > s.t1)
  BY <1>2 DEF Extended
<1>3. QED
  BY <1>1, <1>2

(* No call begins with a span that faces inward.                            *)
LEMMA InitFaces == Init => FacesInv
<1> SUFFICES ASSUME Init PROVE FacesInv
  OBVIOUS
<1>1. task \in Tasks /\ task.op \in SetOps \cup {"collect", "push"} /\ open = None /\ CellsInv
  BY TaskType, InitCells DEF Init
<1>2. stage # "merge" /\ (stage = "scan" => task.op # "push")
  BY <1>1 DEF Init, SetOps
<1>3. \A i \in 1 .. Len(out) : SpanFaces(out[i])
  <2>1. CASE task.op = "collect"
    <3>1. out = task.a
      BY <2>1 DEF Init
    <3>2. QED
      BY <1>1, <3>1, OperandFaces
  <2>2. CASE task.op # "collect"
    BY <2>2 DEF Init
  <2>3. QED
    BY <2>1, <2>2
<1>4. QED
  BY <1>1, <1>2, <1>3 DEF FacesInv, CellsInv

(* What a step leaves to be shown: faces do not depend on where a call is.  *)
LEMMA FacesKept ==
  ASSUME task' = task,
         stage' = "scan" => ScanPlace' /\ (open' # None => Faces(open'.n, open'.t, -1)),
         stage' = "merge" => SpanFaces(current'),
         \A i \in 1 .. Len(out') : SpanFaces(out'[i])
  PROVE  FacesInv'
<1>1. \A t : BoundOfA(t)' <=> BoundOfA(t)
  BY DEF BoundOfA
<1>2. open' # None => (Faces(open.n, open.t, -1)' <=> Faces(open'.n, open'.t, -1))
  BY <1>1 DEF Faces, BoundOfA
<1>3. SpanFaces(current)' <=> SpanFaces(current')
  BY DEF SpanFaces, Faces, BoundOfA
<1>4. \A i : SpanFaces(out[i])' <=> SpanFaces(out'[i])
  BY DEF SpanFaces, Faces, BoundOfA
<1>5. QED
  BY <1>2, <1>3, <1>4 DEF FacesInv

(* An iteration of the scan keeps the faces.                                *)
LEMMA ScanEndpointFaces ==
  ASSUME FacesInv, IInv, ScanEndpoint
  PROVE  FacesInv'
<1>1. stage = "scan" /\ stage' = "scan" /\ task' = task /\ out \in Seq(Span) /\ Len(out) \in Nat
  BY LenProperties DEF ScanEndpoint, IInv
<1>2. ScanPlace /\ (open # None => Faces(open.n, open.t, -1)) /\ \A i \in 1 .. Len(out) : SpanFaces(out[i])
  BY <1>1 DEF FacesInv
<1>3. ScanPlace' /\ ScanOutput
  BY <1>2, ScanPlaceOn, ScanOutputs
<1>4. At \in Int /\ normal_here \in Normal
  BY NextEndpoint DEF ScanEndpoint
<1>5. open # None <=> combine(in_a, in_b)
  BY <1>2 DEF ScanPlace
<1>6. /\ combine(in_a', in_b') /\ ~combine(in_a, in_b) => Faces(normal_here, At, -1)
      /\ ~combine(in_a', in_b') /\ combine(in_a, in_b) => Faces(normal_here, At, 1)
  BY <1>2, NormalFaces
<1>7. open' # None => Faces(open'.n, open'.t, -1)
  <2>1. CASE open' = [t |-> At, n |-> normal_here] /\ combine(in_a', in_b') /\ open = None
    BY <1>5, <1>6, <2>1
  <2>2. CASE open' = open
    BY <1>2, <2>2
  <2>3. QED
    BY <1>3, <2>1, <2>2 DEF ScanOutput
<1>8. \A i \in 1 .. Len(out') : SpanFaces(out'[i])
  <2>1. CASE out' = out
    BY <1>2, <2>1
  <2>2. CASE /\ ~combine(in_a', in_b') /\ open # None
             /\ out' = Append(out, [t0 |-> open.t, t1 |-> At, n0 |-> open.n, n1 |-> normal_here])
    <3> DEFINE v == [t0 |-> open.t, t1 |-> At, n0 |-> open.n, n1 |-> normal_here]
    <3>1. SpanFaces(v)
      BY <1>2, <1>5, <1>6, <2>2 DEF SpanFaces
    <3>2. v \in Span
      BY <1>4, <2>2 DEF IInv, ScanInv, Span
    <3> HIDE DEF v
    <3>3. out' = Append(out, v)
      BY <2>2 DEF v
    <3>4. /\ Len(out') = Len(out) + 1 /\ out'[Len(out) + 1] = v
          /\ \A i \in 1 .. Len(out) : out'[i] = out[i]
      BY <1>1, <3>2, <3>3, AppendProperties
    <3>5. \A i \in 1 .. Len(out') : i \in 1 .. Len(out) \/ i = Len(out) + 1
      BY <1>1, <3>4
    <3>6. QED
      BY <1>2, <3>1, <3>4, <3>5
  <2>3. QED
    BY <1>3, <2>1, <2>2 DEF ScanOutput
<1>9. QED
  BY <1>1, <1>3, <1>7, <1>8, FacesKept

(* So does sorting.                                                         *)
LEMMA SortFaces ==
  ASSUME FacesInv, IInv, Sort
  PROVE  FacesInv'
<1>1. /\ stage = "sort" /\ task' = task /\ out \in Seq(Span)
      /\ stage' # "scan" /\ (stage' = "merge" => out' # <<>> /\ current' = out'[1])
  BY DEF Sort, Normalized, IInv
<1>2. PICK order \in Orders(out) : out' = [i \in DOMAIN order |-> out[order[i]]]
  BY DEF Sort
<1>3. out' \in Seq(Span) /\ Len(out') \in Nat /\ DOMAIN out' = 1 .. Len(out')
  BY <1>1, <1>2, OrdersProperties, LenProperties
<1>4. DOMAIN out = 1 .. Len(out)
  BY <1>1, LenProperties
<1>5. ASSUME NEW i \in 1 .. Len(out') PROVE SpanFaces(out'[i])
  <2>1. i \in DOMAIN order /\ out'[i] = out[order[i]]
    BY <1>2, <1>3
  <2>2. order[i] \in DOMAIN out
    BY <2>1 DEF Orders
  <2>3. QED
    BY <1>4, <2>1, <2>2 DEF FacesInv
<1>6. stage' = "merge" => SpanFaces(current')
  <2>1. out' # <<>> => 1 \in 1 .. Len(out')
    BY <1>3, EmptySeq
  <2>2. QED
    BY <1>1, <1>5, <2>1
<1>7. QED
  BY <1>1, <1>5, <1>6, FacesKept

(* What the merge has written is a span of its list or the current one.     *)
LEMMA WrittenFaces ==
  ASSUME FacesInv, IInv, stage = "merge"
  PROVE  /\ Len(Written) = Len(out)
         /\ \A i \in 1 .. Len(out) : SpanFaces(Written[i])
<1>1. /\ out \in Seq(Span) /\ current \in Span /\ write \in 1 .. Len(out)
      /\ SpanFaces(current) /\ \A i \in 1 .. Len(out) : SpanFaces(out[i])
  BY Merging DEF FacesInv
<1>2. CASE Survives(current)
  <2>1. Written = [out EXCEPT ![write] = current]
    BY <1>2 DEF Written
  <2>2. /\ Len(Written) = Len(out) /\ Written[write] = current
        /\ \A i \in 1 .. Len(out) : i # write => Written[i] = out[i]
    BY <1>1, <2>1, SpanWritten
  <2>3. \A i \in 1 .. Len(out) : Written[i] = current \/ Written[i] = out[i]
    BY <2>2
  <2>4. ASSUME NEW i \in 1 .. Len(out) PROVE SpanFaces(Written[i])
    BY <1>1, <2>3
  <2>5. QED
    BY <2>2, <2>4
<1>3. CASE ~Survives(current)
  BY <1>1, <1>3 DEF Written
<1>4. QED
  BY <1>2, <1>3

(* The merge keeps the faces.                                               *)
LEMMA MergeNextFaces ==
  ASSUME FacesInv, IInv, MergeNext
  PROVE  FacesInv'
<1>1. stage = "merge" /\ stage' = "merge" /\ task' = task /\ read <= Len(out)
  BY DEF MergeNext
<1>2. /\ current \in Span /\ SpanFaces(current) /\ read \in 1 .. Len(out)
      /\ out[read] \in Span /\ SpanFaces(out[read])
      /\ \A i \in 1 .. Len(out) : SpanFaces(out[i])
  <2>1. out \in Seq(Span) /\ Len(out) \in Nat /\ read \in 2 .. Len(out) + 1 /\ current \in Span
    BY <1>1, Merging
  <2>2. read \in 1 .. Len(out)
    BY <1>1, <2>1
  <2>3. QED
    BY <1>1, <2>1, <2>2, ElementOfSeq DEF FacesInv
<1>3. CASE Close(out[read].t0 - current.t1)
  <2>1. out' = out /\ current' = Extended(current, out[read])
    BY <1>3 DEF MergeNext
  <2>2. SpanFaces(current')
    BY <1>2, <2>1, ExtendedFaces
  <2>3. \A i \in 1 .. Len(out') : SpanFaces(out'[i])
    BY <1>2, <2>1
  <2>4. QED
    BY <1>1, <2>2, <2>3, FacesKept
<1>4. CASE ~Close(out[read].t0 - current.t1)
  <2>1. out' = Written /\ current' = out[read]
    BY <1>4 DEF MergeNext
  <2>2. \A i \in 1 .. Len(out') : SpanFaces(out'[i])
    BY <1>1, <2>1, WrittenFaces
  <2>3. SpanFaces(current')
    BY <1>2, <2>1
  <2>4. QED
    BY <1>1, <2>2, <2>3, FacesKept
<1>5. QED
  BY <1>3, <1>4

(* So does its end.                                                         *)
LEMMA MergeEndFaces ==
  ASSUME FacesInv, IInv, MergeEnd
  PROVE  FacesInv'
<1>1. /\ stage = "merge" /\ task' = task /\ stage' # "scan" /\ stage' # "merge"
      /\ out' = SubSeq(Written, 1, WriteNext - 1)
  BY DEF MergeEnd, Normalized
<1>2. /\ Written \in Seq(Span) /\ Len(Written) = Len(out) /\ Len(out) \in Nat
      /\ WriteNext \in {write, write + 1} /\ write \in 1 .. Len(out)
      /\ \A i \in 1 .. Len(out) : SpanFaces(Written[i])
  BY <1>1, Merging, CurrentWritten, WrittenFaces
<1>3. WriteNext - 1 \in Nat /\ WriteNext - 1 <= Len(Written)
  BY <1>2
<1>4. Len(out') = WriteNext - 1 /\ \A i \in 1 .. WriteNext - 1 : out'[i] = Written[i]
  BY <1>1, <1>2, <1>3, PrefixOfSpans
<1>5. \A i \in 1 .. WriteNext - 1 : i \in 1 .. Len(out)
  BY <1>2, <1>3
<1>6. \A i \in 1 .. Len(out') : SpanFaces(out'[i])
  BY <1>2, <1>4, <1>5
<1>7. QED
  BY <1>1, <1>6, FacesKept

(* Pushed spans are the operand's own, or fused into the last one.          *)
LEMMA PushFaces ==
  ASSUME FacesInv, IInv, PushIgnored \/ PushInOrder \/ PushOutOfOrder
  PROVE  FacesInv'
<1>1. /\ Pushing /\ stage = "push" /\ task' = task /\ stage' \in {"push", "sort"}
  BY DEF PushIgnored, PushInOrder, PushOutOfOrder, Pushing
<1>2. /\ task \in Tasks /\ out \in Seq(Span) /\ Len(out) \in Nat /\ Pushed \in Span
      /\ pushed + 1 \in 1 .. Len(task.a)
  <2>1. pushed \in 0 .. Len(task.a) /\ pushed < Len(task.a) /\ task \in Tasks
    BY <1>1 DEF Pushing, IInv, ScanInv
  <2>2. Len(task.a) \in Nat
    BY <2>1, TaskType
  <2>3. QED
    BY <1>1, <2>1, <2>2, PushStep
<1>3. SpanFaces(Pushed) /\ \A i \in 1 .. Len(out) : SpanFaces(out[i])
  BY <1>2, OperandFaces DEF Pushed, FacesInv
<1>4. SUFFICES \A i \in 1 .. Len(out') : SpanFaces(out'[i])
  BY <1>1, FacesKept
<1>5. CASE out' = out
  BY <1>3, <1>5
<1>6. CASE out' = Append(out, Pushed)
  <2>1. /\ Len(out') = Len(out) + 1 /\ out'[Len(out) + 1] = Pushed
        /\ \A i \in 1 .. Len(out) : out'[i] = out[i]
    BY <1>2, <1>6, AppendProperties
  <2>2. \A i \in 1 .. Len(out') : i \in 1 .. Len(out) \/ i = Len(out) + 1
    BY <1>2, <2>1
  <2>3. QED
    BY <1>3, <2>1, <2>2
<1>7. CASE out # <<>> /\ out' = [out EXCEPT ![Len(out)] = Extended(@, Pushed)]
  <2> DEFINE n == Len(out)
             e == Extended(out[n], Pushed)
  <2>1. out' = [out EXCEPT ![n] = e]
    BY <1>7
  <2>2. n \in 1 .. Len(out)
    BY <1>2, <1>7, EmptySeq
  <2>3. out[n] \in Span /\ is_valid(out[n]) /\ SpanFaces(out[n])
    BY <1>1, <1>2, <1>3, <2>2, PushStep, ElementOfSeq
  <2>4. e \in Span /\ SpanFaces(e)
    BY <1>2, <1>3, <2>3, ExtendedProperties, ExtendedFaces
  <2> HIDE DEF e
  <2>5. Len(out') = n /\ out'[n] = e /\ \A i \in 1 .. n : i # n => out'[i] = out[i]
    BY <1>2, <2>1, <2>2, <2>4, SpanWritten
  <2>6. ASSUME NEW i \in 1 .. n PROVE SpanFaces(out'[i])
    BY <1>3, <2>4, <2>5
  <2>7. QED
    BY <2>5, <2>6
<1>8. QED
  BY <1>5, <1>6, <1>7 DEF PushIgnored, PushInOrder, PushOutOfOrder

(* Every step keeps the faces.                                              *)
LEMMA NextFaces ==
  ASSUME FacesInv, IInv, [Next]_vars
  PROVE  FacesInv'
<1>1. CASE UNCHANGED vars
  <2>1. task' = task /\ stage' = stage /\ open' = open /\ out' = out /\ current' = current
    BY <1>1 DEF vars
  <2>2. ScanPlace' <=> ScanPlace
    BY <1>1 DEF vars, ScanPlace, Standing, Taken, Passed, ea, eb, Endpoint, combine
  <2>3. QED
    BY <2>1, <2>2, FacesKept DEF FacesInv
<1>2. CASE ScanEnd \/ PushEnd
  <2>1. task' = task /\ stage' \in {"sort", "done"} /\ out' = out
    BY <1>2 DEF ScanEnd, PushEnd
  <2>2. QED
    BY <2>1, FacesKept DEF FacesInv
<1>3. QED
  BY <1>1, <1>2, ScanEndpointFaces, SortFaces, MergeNextFaces, MergeEndFaces, PushFaces DEF Next

(* Every bound of a result carries a normal that lies there and faces out of *)
(* the material, and a's own where a has a bound: on a tie of the streams,   *)
(* where b's surface is turned round, and through sorting, fusing and        *)
(* rewriting in place.                                                       *)
THEOREM FacesOutwardHolds == Spec => []FacesOutward
<1>1. Init => FacesInv
  BY InitFaces
<1>2. FacesInv /\ IInv /\ [Next]_vars => FacesInv'
  BY NextFaces
<1>3. FacesInv /\ IInv => FacesOutward
  <2> SUFFICES ASSUME FacesInv, IInv, NEW s \in ToSet(out)
               PROVE  /\ s.n0.at = s.t0 /\ s.n0.out = -1
                      /\ s.n1.at = s.t1 /\ s.n1.out = 1
                      /\ \A n \in {s.n0, s.n1} :
                           (\E x \in ToSet(task.a) : n.at \in {x.t0, x.t1}) => n.of = "a"
    BY DEF FacesOutward
  <2>1. DOMAIN out = 1 .. Len(out) /\ DOMAIN task.a = 1 .. Len(task.a)
    BY TaskType, LenProperties DEF IInv, ScanInv
  <2>2. SpanFaces(s)
    BY <2>1 DEF ToSet, FacesInv
  <2>3. ASSUME NEW x \in ToSet(task.a), NEW t \in {x.t0, x.t1} PROVE BoundOfA(t)
    BY <2>1 DEF ToSet, BoundOfA
  <2>4. QED
    BY <2>2, <2>3 DEF SpanFaces, Faces
<1>4. QED
  BY <1>1, <1>2, <1>3, SpansInvariant, PTL DEF Spec
-----------------------------------------------------------------------------
(***************************************************************************)
(* The arena, for every number of rays, inline capacity and set of span     *)
(* lists. Its theorems hold as long as the spill heap holds fewer spans     *)
(* than its largest offset (HeapAddressable): at exactly MaxOffset cells    *)
(* the next offset is the value that marks a ray unspilled.                 *)
(***************************************************************************)
HeapAddressable == Len(heap) < MaxOffset

Moving == cursor # Idle

Moved == {r \in Spilled : Moving /\ r < cursor}

UnmovedCells == {o \in 0 .. Len(heap) - 1 : \E r \in Unmoved : o \in Cells(r)}

\* While compacting: regions already moved lie in the new heap, apart.
MovedDisjoint ==
  \A r \in Moved :
    /\ spill_at[r] + len[r] <= Len(fresh)
    /\ \A q \in Moved : q # r => Cells(q) \cap Cells(r) = {}

\* While compacting: the new heap holds nothing but moved regions.
FreshCovered ==
  Moving => \A o \in 0 .. Len(fresh) - 1 : \E r \in Moved : o \in Cells(r)

\* While compacting: what was moved and what is left never exceed the old heap.
FreshFits ==
  Moving => Len(fresh) + Cardinality(UnmovedCells) <= Len(heap)

ArenaInv ==
  /\ ArenaTypeOK
  /\ RegionsDisjoint
  /\ SpilledIffLong
  /\ GarbageExact
  /\ MovedDisjoint
  /\ FreshCovered
  /\ FreshFits
-----------------------------------------------------------------------------
(* What Region returns: n cells of the heap, as a list of spans.            *)
LEMMA RegionProperties ==
  ASSUME NEW h \in Seq(SpanValue), NEW at \in Nat, NEW n \in Nat, at + n <= Len(h)
  PROVE  /\ Region(h, at, n) \in Seq(SpanValue)
         /\ Len(Region(h, at, n)) = n
         /\ \A i \in 1 .. n : Region(h, at, n)[i] = h[at + i]
<1>1. \A i \in 1 .. n : h[at + i] \in SpanValue
  BY ElementOfSeq, LenProperties
<1>2. Region(h, at, n) \in [1 .. n -> SpanValue]
  BY <1>1 DEF Region
<1>3. Region(h, at, n) \in Seq(SpanValue)
  BY <1>2, SeqDef
<1>4. QED
  BY <1>2, <1>3, LenProperties DEF Region

(* What Overwrite returns: a heap of the same length, s in place of the     *)
(* cells it covers and every other cell as it was.                          *)
LEMMA OverwriteProperties ==
  ASSUME NEW h \in Seq(SpanValue), NEW at \in Nat, NEW s \in Seq(SpanValue),
         at + Len(s) <= Len(h)
  PROVE  /\ Overwrite(h, at, s) \in Seq(SpanValue)
         /\ Len(Overwrite(h, at, s)) = Len(h)
         /\ \A i \in 1 .. Len(s) : Overwrite(h, at, s)[at + i] = s[i]
         /\ \A o \in 1 .. Len(h) :
              o \notin at + 1 .. at + Len(s) => Overwrite(h, at, s)[o] = h[o]
<1>1. Len(h) \in Nat /\ Len(s) \in Nat /\ DOMAIN h = 1 .. Len(h)
  BY LenProperties
<1>2. \A o \in 1 .. Len(h) :
        (IF o \in at + 1 .. at + Len(s) THEN s[o - at] ELSE h[o]) \in SpanValue
  <2>1. TAKE o \in 1 .. Len(h)
  <2>2. CASE o \in at + 1 .. at + Len(s)
    <3>1. o - at \in 1 .. Len(s)
      BY <1>1, <2>2
    <3>2. QED
      BY <3>1, <2>2, ElementOfSeq
  <2>3. CASE o \notin at + 1 .. at + Len(s)
    BY <2>3, ElementOfSeq
  <2>4. QED
    BY <2>2, <2>3
<1>3. Overwrite(h, at, s) \in [1 .. Len(h) -> SpanValue]
  BY <1>1, <1>2 DEF Overwrite
<1>4. Overwrite(h, at, s) \in Seq(SpanValue)
  BY <1>1, <1>3, SeqDef
<1>5. Len(Overwrite(h, at, s)) = Len(h)
  BY <1>1, <1>3, <1>4, LenProperties
<1>6. ASSUME NEW i \in 1 .. Len(s)
      PROVE  Overwrite(h, at, s)[at + i] = s[i]
  <2>1. at + i \in 1 .. Len(h) /\ at + i \in at + 1 .. at + Len(s) /\ (at + i) - at = i
    BY <1>1
  <2>2. QED
    BY <1>1, <2>1 DEF Overwrite
<1>7. ASSUME NEW o \in 1 .. Len(h), o \notin at + 1 .. at + Len(s)
      PROVE  Overwrite(h, at, s)[o] = h[o]
  BY <1>1, <1>7 DEF Overwrite
<1>8. QED
  BY <1>4, <1>5, <1>6, <1>7

(* Every list stored is a list of at most MaxSpans spans.                   *)
LEMMA SpanListType ==
  ASSUME NEW s \in SpanList
  PROVE  s \in Seq(SpanValue) /\ Len(s) \in 0 .. MaxSpans
BY ArenaAssumption, LenProperties DEF ArenaAssumption

LEMMA ArenaInitInv == ArenaInit => ArenaInv
<1> SUFFICES ASSUME ArenaInit PROVE ArenaInv
  OBVIOUS
<1> USE ArenaAssumption DEF ArenaAssumption, ArenaInit
<1>1. heap \in Seq(SpanValue) /\ Len(heap) = 0 /\ fresh \in Seq(SpanValue) /\ Len(fresh) = 0
  BY EmptySeq
<1>2. ArenaTypeOK
  BY <1>1 DEF ArenaTypeOK, NO_SPILL, Idle, Ray
<1>3. Spilled = {} /\ Unmoved = {} /\ Moved = {}
  BY DEF Spilled, Unmoved, Moved
<1>4. RegionsDisjoint /\ SpilledIffLong /\ MovedDisjoint
  BY <1>3 DEF RegionsDisjoint, SpilledIffLong, MovedDisjoint, Ray
<1>5. DeadCells = {}
  BY <1>1 DEF DeadCells
<1>6. GarbageExact
  BY <1>5, FS_EmptySet DEF GarbageExact
<1>7. FreshCovered /\ FreshFits
  BY DEF FreshCovered, FreshFits, Moving
<1>8. QED
  BY <1>2, <1>4, <1>6, <1>7 DEF ArenaInv
-----------------------------------------------------------------------------
(* Adding n cells that were not in it makes a finite set of cells n larger. *)
LEMMA CellsAdded ==
  ASSUME NEW D, IsFiniteSet(D), NEW a \in Int, NEW n \in Nat,
         \A o \in a .. a + n - 1 : o \notin D
  PROVE  /\ IsFiniteSet(D \cup (a .. a + n - 1))
         /\ Cardinality(D \cup (a .. a + n - 1)) = Cardinality(D) + n
<1> DEFINE C == a .. a + n - 1
<1>1. IsFiniteSet(C) /\ Cardinality(C) = n
  <2>1. a + n - 1 \in Int
    OBVIOUS
  <2>2. IsFiniteSet(C) /\ Cardinality(C) = IF a > a + n - 1 THEN 0 ELSE a + n - 1 - a + 1
    BY <2>1, FS_Interval
  <2>3. QED
    BY <2>2
<1>2. D \cap C = {} /\ Cardinality(D \cap C) = 0
  BY FS_EmptySet
<1> HIDE DEF C
<1>3. Cardinality(D) \in Nat
  BY FS_CardinalityType
<1>4. IsFiniteSet(D \cup C) /\ Cardinality(D \cup C) = Cardinality(D) + Cardinality(C) - Cardinality(D \cap C)
  BY <1>1, FS_Union
<1>5. Cardinality(D \cup C) = Cardinality(D) + n
  BY <1>1, <1>2, <1>3, <1>4
<1>6. QED
  BY <1>4, <1>5 DEF C

(* Sets of heap cells are finite and no larger than the heap.               *)
LEMMA HeapCellsFinite ==
  ASSUME NEW h \in Seq(SpanValue), NEW D \in SUBSET (0 .. Len(h) - 1)
  PROVE  IsFiniteSet(D) /\ Cardinality(D) \in 0 .. Len(h)
<1>1. Len(h) \in Nat /\ 0 \in Int /\ Len(h) - 1 \in Int
  BY LenProperties
<1>2. /\ IsFiniteSet(0 .. Len(h) - 1)
      /\ Cardinality(0 .. Len(h) - 1) =
           IF 0 > Len(h) - 1 THEN 0 ELSE Len(h) - 1 - 0 + 1
  BY <1>1, FS_Interval
<1>3. Cardinality(0 .. Len(h) - 1) = Len(h)
  BY <1>1, <1>2
<1>4. IsFiniteSet(D) /\ Cardinality(D) <= Len(h)
  BY <1>2, <1>3, FS_Subset
<1>5. QED
  BY <1>1, <1>4, FS_CardinalityType

(* What the end of `set` establishes, whether it starts a compaction or not,*)
(* from the facts the write itself established about the heap.              *)
LEMMA FinishSetInv ==
  ASSUME ArenaInv, cursor = Idle, FinishSet,
         inline' \in [Ray -> [1 .. InlineCapacity -> SpanValue]],
         len' \in [Ray -> 0 .. MaxSpans],
         spill_at' \in [Ray -> 0 .. MaxOffset],
         heap' \in Seq(SpanValue),
         \A q \in Spilled' :
            /\ spill_at'[q] + len'[q] <= Len(heap')
            /\ \A p \in Spilled' : p # q => Cells(p)' \cap Cells(q)' = {},
         SpilledIffLong',
         garbage' = Cardinality({o \in 0 .. Len(heap') - 1 :
                                   \A q \in Spilled' : o \notin Cells(q)'})
  PROVE  ArenaInv'
<1> USE ArenaAssumption DEF ArenaAssumption, Idle
<1>1. Rays + 1 \in Nat
  OBVIOUS
<1>2. (cursor' = 0 /\ fresh' = <<>>) \/ (cursor' = Idle /\ fresh' = fresh)
  BY DEF FinishSet
<1>3. fresh' \in Seq(SpanValue) /\ cursor' \in 0 .. Idle
  <2>1. fresh \in Seq(SpanValue)
    BY DEF ArenaInv, ArenaTypeOK
  <2>2. <<>> \in Seq(SpanValue)
    BY EmptySeq
  <2>3. fresh' \in Seq(SpanValue)
    BY <2>1, <2>2, <1>2
  <2>4. cursor' \in 0 .. Idle
    BY <1>2
  <2>5. QED
    BY <2>3, <2>4
<1>4. Spilled' \subseteq Ray
  BY DEF Spilled
<1>5. Unmoved' = Spilled'
  <2>1. \A r \in Spilled' : 0 <= r
    BY <1>4 DEF Ray
  <2>2. \A r \in Spilled' : cursor' = Rays + 1 \/ cursor' <= r
    BY <1>2, <2>1
  <2>3. QED
    BY <2>2 DEF Unmoved
<1>6. Moved' = {}
  <2>1. \A r \in Spilled' : r \in Nat
    BY <1>4 DEF Ray
  <2>2. \A r \in Spilled' : ~(cursor' # Rays + 1 /\ r < cursor')
    BY <1>2, <2>1
  <2>3. QED
    BY <2>2 DEF Moved, Moving
<1>7. RegionsDisjoint'
  BY <1>5 DEF RegionsDisjoint
<1>8. garbage' = Cardinality(DeadCells')
  BY <1>5 DEF DeadCells
<1>9. GarbageExact'
  BY <1>8 DEF GarbageExact
<1>10. DeadCells' \in SUBSET (0 .. Len(heap') - 1)
  BY DEF DeadCells
<1>11. garbage' \in 0 .. Len(heap')
  BY <1>8, <1>10, HeapCellsFinite
<1>12. ArenaTypeOK'
  BY <1>3, <1>11 DEF ArenaTypeOK
<1>13. MovedDisjoint'
  BY <1>6 DEF MovedDisjoint
<1>14. Moving' => Len(fresh') = 0
  BY <1>2, EmptySeq DEF Moving
<1>15. FreshCovered'
  BY <1>14 DEF FreshCovered
<1>16. FreshFits'
  <2>1. UnmovedCells' \in SUBSET (0 .. Len(heap') - 1)
    BY DEF UnmovedCells
  <2>2. Cardinality(UnmovedCells') \in 0 .. Len(heap')
    BY <2>1, HeapCellsFinite
  <2>3. Len(heap') \in Nat
    BY LenProperties
  <2>4. QED
    BY <1>14, <2>2, <2>3 DEF FreshFits
<1>17. QED
  BY <1>7, <1>9, <1>12, <1>13, <1>15, <1>16 DEF ArenaInv

(* Between sets: what the invariant says of one spilled ray.                *)
LEMMA IdleFacts ==
  ASSUME ArenaInv, cursor = Idle
  PROVE  /\ Unmoved = Spilled
         /\ garbage = Cardinality(DeadCells)
         /\ IsFiniteSet(DeadCells)
         /\ DeadCells = {o \in 0 .. Len(heap) - 1 : \A q \in Spilled : o \notin Cells(q)}
         /\ \A r \in Ray : spill_at[r] \in Nat /\ len[r] \in Nat
         /\ Len(heap) \in Nat
         /\ \A r \in Spilled :
              /\ spill_at[r] + len[r] <= Len(heap)
              /\ \A q \in Spilled : q # r => Cells(q) \cap Cells(r) = {}
<1> USE DEF ArenaInv
<1>1. Unmoved = Spilled
  BY DEF Unmoved
<1>2. DeadCells \in SUBSET (0 .. Len(heap) - 1)
  BY DEF DeadCells
<1>3. heap \in Seq(SpanValue)
  BY DEF ArenaTypeOK
<1>4. IsFiniteSet(DeadCells)
  BY <1>2, <1>3, HeapCellsFinite
<1>5. garbage = Cardinality(DeadCells)
  BY DEF GarbageExact
<1>6. \A r \in Ray : spill_at[r] \in Nat /\ len[r] \in Nat
  BY ArenaAssumption DEF ArenaTypeOK, ArenaAssumption
<1>7. Len(heap) \in Nat
  BY <1>3, LenProperties
<1>8. \A r \in Spilled :
        /\ spill_at[r] + len[r] <= Len(heap)
        /\ \A q \in Spilled : q # r => Cells(q) \cap Cells(r) = {}
  BY <1>1 DEF RegionsDisjoint
<1>9. DeadCells = {o \in 0 .. Len(heap) - 1 : \A q \in Spilled : o \notin Cells(q)}
  BY <1>1 DEF DeadCells
<1>10. QED
  BY <1>1, <1>4, <1>5, <1>6, <1>7, <1>8, <1>9

LEMMA SetInlineInv ==
  ASSUME ArenaInv, NEW r \in Ray, NEW s \in SpanList, SetInline(r, s)
  PROVE  ArenaInv'
<1> USE DEF SetInline
<1>1. s \in Seq(SpanValue) /\ Len(s) \in 0 .. MaxSpans /\ Len(s) <= InlineCapacity
  BY SpanListType
<1>2. inline' \in [Ray -> [1 .. InlineCapacity -> SpanValue]]
  <2>1. inline[r] \in [1 .. InlineCapacity -> SpanValue]
    BY DEF ArenaInv, ArenaTypeOK
  <2>2. \A i \in 1 .. InlineCapacity : i <= Len(s) => s[i] \in SpanValue
    <3>1. \A i \in 1 .. InlineCapacity : i <= Len(s) => i \in 1 .. Len(s)
      BY <1>1, ArenaAssumption DEF ArenaAssumption
    <3>2. QED
      BY <3>1, <1>1, ElementOfSeq
  <2>3. WriteInline(inline[r], s) \in [1 .. InlineCapacity -> SpanValue]
    BY <2>1, <2>2 DEF WriteInline
  <2>4. QED
    BY <2>3 DEF ArenaInv, ArenaTypeOK
<1>3. len' \in [Ray -> 0 .. MaxSpans]
  BY <1>1 DEF ArenaInv, ArenaTypeOK
<1>4. spill_at' \in [Ray -> 0 .. MaxOffset]
  BY ArenaAssumption DEF ArenaInv, ArenaTypeOK, NO_SPILL, ArenaAssumption
<1>5. heap' = heap /\ heap \in Seq(SpanValue)
  BY DEF ArenaInv, ArenaTypeOK
<1>6. Spilled' = Spilled \ {r}
  BY DEF Spilled, ArenaInv, ArenaTypeOK, NO_SPILL
<1>7. \A q \in Spilled' : q # r /\ spill_at'[q] = spill_at[q] /\ len'[q] = len[q]
  BY <1>6 DEF Spilled, ArenaInv, ArenaTypeOK
<1>8. \A q \in Spilled' : Cells(q)' = Cells(q)
  BY <1>7 DEF Cells
<1>9. \A q \in Spilled' :
        /\ spill_at'[q] + len'[q] <= Len(heap')
        /\ \A p \in Spilled' : p # q => Cells(p)' \cap Cells(q)' = {}
  BY <1>5, <1>6, <1>7, <1>8, IdleFacts
<1>10. SpilledIffLong'
  <2>1. \A q \in Ray : q # r => len'[q] = len[q] /\ (q \in Spilled' <=> q \in Spilled)
    BY <1>6 DEF ArenaInv, ArenaTypeOK
  <2>2. len'[r] <= InlineCapacity /\ r \notin Spilled'
    BY <1>1, <1>6 DEF ArenaInv, ArenaTypeOK
  <2>3. ~(len'[r] > InlineCapacity)
    BY <2>2, <1>1, ArenaAssumption DEF ArenaAssumption, ArenaInv, ArenaTypeOK
  <2>4. QED
    BY <2>1, <2>2, <2>3 DEF ArenaInv, SpilledIffLong
<1> DEFINE D == {o \in 0 .. Len(heap') - 1 : \A q \in Spilled' : o \notin Cells(q)'}
<1>11. D = {o \in 0 .. Len(heap) - 1 : \A q \in Spilled \ {r} : o \notin Cells(q)}
  BY <1>5, <1>6, <1>8
<1>12. garbage' = Cardinality(D)
  <2>1. CASE r \in Spilled
    <3>1. garbage' = garbage + len[r]
      BY <2>1 DEF Spilled
    <3>2. Cells(r) = spill_at[r] .. spill_at[r] + len[r] - 1
      BY DEF Cells
    <3>3. Cells(r) \subseteq 0 .. Len(heap) - 1
      BY <2>1, <3>2, IdleFacts
    <3>4. \A q \in Spilled \ {r} : Cells(q) \cap Cells(r) = {}
      BY <2>1, IdleFacts
    <3>5. D = DeadCells \cup Cells(r)
      BY <1>11, <2>1, <3>3, <3>4, IdleFacts
    <3>6. \A o \in Cells(r) : o \notin DeadCells
      BY <2>1, IdleFacts
    <3>7. Cardinality(D) = Cardinality(DeadCells) + len[r]
      <4>1. spill_at[r] \in Int /\ len[r] \in Nat /\ IsFiniteSet(DeadCells)
        BY IdleFacts
      <4>2. Cardinality(DeadCells \cup (spill_at[r] .. spill_at[r] + len[r] - 1))
              = Cardinality(DeadCells) + len[r]
        BY <4>1, <3>2, <3>6, CellsAdded
      <4>3. QED
        BY <4>2, <3>2, <3>5
    <3>8. QED
      BY <3>1, <3>7, IdleFacts
  <2>2. CASE r \notin Spilled
    <3>1. garbage' = garbage
      BY <2>2 DEF Spilled
    <3>2. D = DeadCells
      BY <1>11, <2>2, IdleFacts
    <3>3. QED
      BY <3>1, <3>2, IdleFacts
  <2>3. QED
    BY <2>1, <2>2
<1>13. QED
  BY <1>2, <1>3, <1>4, <1>5, <1>9, <1>10, <1>12, FinishSetInv

LEMMA SetInPlaceInv ==
  ASSUME ArenaInv, NEW r \in Ray, NEW s \in SpanList, SetInPlace(r, s)
  PROVE  ArenaInv'
<1> USE DEF SetInPlace
<1>1. s \in Seq(SpanValue) /\ Len(s) \in 0 .. MaxSpans /\ Len(s) \in Nat
  BY SpanListType, LenProperties
<1>2. r \in Spilled /\ Len(s) <= len[r] /\ len[r] \in Nat /\ spill_at[r] \in Nat
  BY IdleFacts DEF Spilled
<1>3. spill_at[r] + len[r] <= Len(heap) /\ Len(heap) \in Nat /\ heap \in Seq(SpanValue)
  BY <1>2, IdleFacts DEF ArenaInv, ArenaTypeOK
<1>4. spill_at[r] + Len(s) <= Len(heap)
  BY <1>1, <1>2, <1>3
<1>5. heap' \in Seq(SpanValue) /\ Len(heap') = Len(heap)
  BY <1>1, <1>2, <1>3, <1>4, OverwriteProperties
<1>6. len' \in [Ray -> 0 .. MaxSpans]
  BY <1>1 DEF ArenaInv, ArenaTypeOK
<1>7. Spilled' = Spilled
  BY DEF Spilled
<1>8. len'[r] = Len(s) /\ \A q \in Ray : q # r => len'[q] = len[q]
  BY DEF ArenaInv, ArenaTypeOK
<1>9. \A q \in Spilled : q # r => Cells(q)' = Cells(q)
  BY <1>8 DEF Cells, Spilled
<1>10. Cells(r)' = spill_at[r] .. spill_at[r] + Len(s) - 1
  BY <1>8 DEF Cells
<1>11. Cells(r)' \subseteq Cells(r)
  BY <1>1, <1>2, <1>10 DEF Cells
<1>12. \A q \in Spilled' :
         /\ spill_at'[q] + len'[q] <= Len(heap')
         /\ \A p \in Spilled' : p # q => Cells(p)' \cap Cells(q)' = {}
  <2>1. TAKE q \in Spilled'
  <2>2. spill_at'[q] + len'[q] <= Len(heap')
    BY <1>4, <1>5, <1>7, <1>8, IdleFacts DEF Spilled
  <2>3. \A p \in Spilled' : p # q => Cells(p)' \cap Cells(q)' = {}
    BY <1>7, <1>9, <1>11, IdleFacts
  <2>4. QED
    BY <2>2, <2>3
<1>13. SpilledIffLong'
  <2>1. \A q \in Ray : q # r => (len'[q] > InlineCapacity <=> q \in Spilled')
    BY <1>7, <1>8 DEF ArenaInv, SpilledIffLong
  <2>2. len'[r] > InlineCapacity /\ r \in Spilled'
    BY <1>2, <1>7, <1>8
  <2>3. QED
    BY <2>1, <2>2 DEF SpilledIffLong
<1> DEFINE D == {o \in 0 .. Len(heap') - 1 : \A q \in Spilled' : o \notin Cells(q)'}
           Freed == spill_at[r] + Len(s) .. spill_at[r] + Len(s) + (len[r] - Len(s)) - 1
<1>14. garbage' = Cardinality(D)
  <2>1. Freed \subseteq Cells(r) /\ Freed \cap Cells(r)' = {}
        /\ Cells(r) = Cells(r)' \cup Freed
    <3>1. Cells(r) = spill_at[r] .. spill_at[r] + len[r] - 1
      BY DEF Cells
    <3>2. \A o \in Int : o \in Freed <=>
            spill_at[r] + Len(s) <= o /\ o < spill_at[r] + len[r]
      BY <1>1, <1>2
    <3>3. \A o \in Int : o \in Cells(r) <=> spill_at[r] <= o /\ o < spill_at[r] + len[r]
      BY <1>2, <3>1
    <3>4. \A o \in Int : o \in Cells(r)' <=> spill_at[r] <= o /\ o < spill_at[r] + Len(s)
      BY <1>1, <1>2, <1>10
    <3>5. Freed \subseteq Int /\ Cells(r) \subseteq Int /\ Cells(r)' \subseteq Int
      BY <3>1, <1>10
    <3> HIDE DEF Freed
    <3>6. Freed \subseteq Cells(r)
      BY <1>1, <1>2, <3>2, <3>3, <3>5
    <3>7. Freed \cap Cells(r)' = {}
      BY <1>1, <1>2, <3>2, <3>4, <3>5
    <3>8. Cells(r) = Cells(r)' \cup Freed
      <4>1. \A o \in Int : o \in Cells(r) <=> (o \in Cells(r)' \/ o \in Freed)
        BY <1>1, <1>2, <3>2, <3>3, <3>4
      <4>2. QED
        BY <4>1, <3>5
    <3>9. QED
      BY <3>6, <3>7, <3>8
  <2>2. Cells(r) \subseteq 0 .. Len(heap) - 1
    BY <1>2, <1>3 DEF Cells
  <2>3. \A o \in Freed : o \notin DeadCells
    BY <2>1, <1>2, IdleFacts
  <2>4. D = DeadCells \cup Freed
    <3>1. D = {o \in 0 .. Len(heap) - 1 :
                 o \notin Cells(r)' /\ \A q \in Spilled : q # r => o \notin Cells(q)}
      BY <1>2, <1>5, <1>7, <1>9
    <3>2. DeadCells = {o \in 0 .. Len(heap) - 1 :
                 o \notin Cells(r) /\ \A q \in Spilled : q # r => o \notin Cells(q)}
      BY <1>2, IdleFacts
    <3>3. \A o \in Freed : \A q \in Spilled : q # r => o \notin Cells(q)
      BY <2>1, <1>2, IdleFacts
    <3>4. QED
      BY <3>1, <3>2, <3>3, <2>1, <2>2
  <2>5. Cardinality(DeadCells \cup Freed) = Cardinality(DeadCells) + (len[r] - Len(s))
    <3>1. spill_at[r] + Len(s) \in Int /\ len[r] - Len(s) \in Nat /\ IsFiniteSet(DeadCells)
      BY <1>1, <1>2, IdleFacts
    <3>2. QED
      BY <3>1, <2>3, CellsAdded
  <2>6. QED
    BY <2>4, <2>5, IdleFacts
<1>15. QED
  BY <1>5, <1>6, <1>12, <1>13, <1>14, FinishSetInv DEF ArenaInv, ArenaTypeOK

LEMMA SetAppendInv ==
  ASSUME ArenaInv, HeapAddressable, NEW r \in Ray, NEW s \in SpanList, SetAppend(r, s)
  PROVE  ArenaInv'
<1> USE DEF SetAppend
<1>1. s \in Seq(SpanValue) /\ Len(s) \in 0 .. MaxSpans /\ Len(s) \in Nat
  BY SpanListType, LenProperties
<1>2. Len(heap) \in Nat /\ heap \in Seq(SpanValue) /\ Len(heap) < MaxOffset
  BY IdleFacts DEF ArenaInv, ArenaTypeOK, HeapAddressable
<1>3. heap' \in Seq(SpanValue) /\ Len(heap') = Len(heap) + Len(s)
  BY <1>1, <1>2, ConcatProperties
<1>4. len' \in [Ray -> 0 .. MaxSpans]
  BY <1>1 DEF ArenaInv, ArenaTypeOK
<1>5. Len(heap) \in 0 .. MaxOffset /\ Len(heap) # NO_SPILL
  BY <1>2, ArenaAssumption DEF ArenaAssumption, NO_SPILL
<1>6. spill_at' \in [Ray -> 0 .. MaxOffset]
  BY <1>5 DEF ArenaInv, ArenaTypeOK
<1>7. /\ len'[r] = Len(s) /\ spill_at'[r] = Len(heap)
      /\ \A q \in Ray : q # r => len'[q] = len[q] /\ spill_at'[q] = spill_at[q]
  BY DEF ArenaInv, ArenaTypeOK
<1>8. Spilled' = Spilled \cup {r}
  <2>1. Spilled' = {q \in Ray : spill_at'[q] # NO_SPILL}
    BY DEF Spilled, NO_SPILL
  <2>2. QED
    BY <2>1, <1>5, <1>7 DEF Spilled
<1>9. \A q \in Spilled : q # r => Cells(q)' = Cells(q)
  BY <1>7 DEF Cells, Spilled
<1>10. Cells(r)' = Len(heap) .. Len(heap) + Len(s) - 1
  BY <1>7 DEF Cells
<1>11. \A q \in Spilled : Cells(q) \subseteq 0 .. Len(heap) - 1
  BY IdleFacts DEF Cells, Spilled
<1>12. \A q \in Spilled : q # r => Cells(q)' \cap Cells(r)' = {}
  BY <1>2, <1>9, <1>10, <1>11
<1>13. \A q \in Spilled' :
         /\ spill_at'[q] + len'[q] <= Len(heap')
         /\ \A p \in Spilled' : p # q => Cells(p)' \cap Cells(q)' = {}
  <2>1. TAKE q \in Spilled'
  <2>2. spill_at'[q] + len'[q] <= Len(heap')
    <3>1. CASE q = r
      BY <3>1, <1>3, <1>7, <1>1, <1>2
    <3>2. CASE q # r
      BY <3>2, <1>1, <1>3, <1>7, <1>8, IdleFacts DEF Spilled
    <3>3. QED
      BY <3>1, <3>2
  <2>3. \A p \in Spilled' : p # q => Cells(p)' \cap Cells(q)' = {}
    BY <1>8, <1>9, <1>12, IdleFacts
  <2>4. QED
    BY <2>2, <2>3
<1>14. SpilledIffLong'
  <2>1. \A q \in Ray : q # r => (len'[q] > InlineCapacity <=> q \in Spilled')
    BY <1>7, <1>8 DEF ArenaInv, SpilledIffLong
  <2>2. len'[r] > InlineCapacity /\ r \in Spilled'
    BY <1>7, <1>8
  <2>3. QED
    BY <2>1, <2>2 DEF SpilledIffLong
<1> DEFINE D == {o \in 0 .. Len(heap') - 1 : \A q \in Spilled' : o \notin Cells(q)'}
<1>15. D = {o \in 0 .. Len(heap) - 1 : \A q \in Spilled : q # r => o \notin Cells(q)}
  <2>1. D = {o \in 0 .. Len(heap') - 1 :
               o \notin Cells(r)' /\ \A q \in Spilled : q # r => o \notin Cells(q)}
    BY <1>8, <1>9
  <2>2. \A o \in 0 .. Len(heap') - 1 : o \notin Cells(r)' <=> o \in 0 .. Len(heap) - 1
    BY <1>1, <1>2, <1>3, <1>10
  <2>3. 0 .. Len(heap) - 1 \subseteq 0 .. Len(heap') - 1
    BY <1>1, <1>2, <1>3
  <2>4. QED
    BY <2>1, <2>2, <2>3
<1>16. garbage' = Cardinality(D)
  <2>1. CASE r \in Spilled
    <3>1. garbage' = garbage + len[r]
      BY <2>1 DEF Spilled
    <3>2. Cells(r) = spill_at[r] .. spill_at[r] + len[r] - 1
      BY DEF Cells
    <3>3. D = DeadCells \cup Cells(r)
      BY <1>11, <1>15, <2>1, IdleFacts
    <3>4. \A o \in Cells(r) : o \notin DeadCells
      BY <2>1, IdleFacts
    <3>5. spill_at[r] \in Int /\ len[r] \in Nat /\ IsFiniteSet(DeadCells)
      BY IdleFacts
    <3>6. Cardinality(DeadCells \cup (spill_at[r] .. spill_at[r] + len[r] - 1))
            = Cardinality(DeadCells) + len[r]
      BY <3>2, <3>4, <3>5, CellsAdded
    <3>7. QED
      BY <3>1, <3>2, <3>3, <3>6, IdleFacts
  <2>2. CASE r \notin Spilled
    <3>1. garbage' = garbage
      BY <2>2 DEF Spilled
    <3>2. D = DeadCells
      BY <1>15, <2>2, IdleFacts
    <3>3. QED
      BY <3>1, <3>2, IdleFacts
  <2>3. QED
    BY <2>1, <2>2
<1>17. QED
  BY <1>3, <1>4, <1>6, <1>13, <1>14, <1>16, FinishSetInv DEF ArenaInv, ArenaTypeOK

LEMMA CompactRayInv ==
  ASSUME ArenaInv, HeapAddressable, CompactRay
  PROVE  ArenaInv'
<1> USE DEF CompactRay
<1> DEFINE n == len[cursor]
           at == spill_at[cursor]
<1>1. cursor \in Nat /\ Rays \in Nat /\ cursor < Rays /\ cursor # Rays + 1 /\ cursor + 1 # Rays + 1
  BY ArenaAssumption DEF ArenaInv, ArenaTypeOK, ArenaAssumption, Idle
<1>2. cursor \in Ray /\ Ray \subseteq Nat
  BY <1>1 DEF Ray
<1>3. Moving /\ Moving'
  BY <1>1 DEF Moving, Idle
<1>4. \A r \in Ray : spill_at[r] \in Nat /\ len[r] \in Nat
  BY ArenaAssumption DEF ArenaInv, ArenaTypeOK, ArenaAssumption
<1>5. heap \in Seq(SpanValue) /\ fresh \in Seq(SpanValue) /\ Len(heap) \in Nat /\ Len(fresh) \in Nat
  BY LenProperties DEF ArenaInv, ArenaTypeOK
<1>6. UnmovedCells \in SUBSET (0 .. Len(heap) - 1)
  BY DEF UnmovedCells
<1>7. Cardinality(UnmovedCells) \in Nat
  BY <1>5, <1>6, HeapCellsFinite
<1>8. Len(fresh) + Cardinality(UnmovedCells) <= Len(heap)
  BY <1>3 DEF ArenaInv, FreshFits
<1>9. Len(fresh) <= Len(heap) /\ Len(fresh) < MaxOffset
  BY <1>5, <1>7, <1>8, ArenaAssumption DEF HeapAddressable, ArenaAssumption
<1>10. cursor' \in 0 .. Idle
  BY <1>1 DEF Idle
<1>11. Unmoved = {r \in Spilled : cursor <= r} /\ Unmoved' = {r \in Spilled' : cursor + 1 <= r}
  BY <1>1 DEF Unmoved, Idle
<1>12. Moved = {r \in Spilled : r < cursor} /\ Moved' = {r \in Spilled' : r < cursor + 1}
  BY <1>3 DEF Moved
<1>13. GarbageExact'
  BY <1>3 DEF GarbageExact, Moving
<1>14. garbage' \in 0 .. Len(heap') /\ heap' = heap /\ len' = len
  BY DEF ArenaInv, ArenaTypeOK
<1>15. Spilled \subseteq Ray
  BY DEF Spilled
<1>16. CASE at = NO_SPILL
  <2>1. Spilled' = Spilled /\ cursor \notin Spilled /\ spill_at' = spill_at /\ fresh' = fresh
    BY <1>16 DEF Spilled
  <2>2. \A r \in Spilled : cursor <= r <=> cursor + 1 <= r
    BY <2>1, <1>1, <1>2, <1>15
  <2>3. Unmoved' = Unmoved
    BY <1>11, <2>1, <2>2
  <2>4. \A r \in Spilled : r < cursor <=> r < cursor + 1
    BY <2>1, <1>1, <1>2, <1>15
  <2>5. Moved' = Moved
    BY <1>12, <2>1, <2>4
  <2>6. \A r \in Ray : Cells(r)' = Cells(r)
    BY <2>1 DEF Cells
  <2>7. UnmovedCells' = UnmovedCells
    BY <2>3, <2>6, <1>11, <1>15 DEF UnmovedCells
  <2>8. ArenaTypeOK'
    BY <2>1, <1>10, <1>14 DEF ArenaInv, ArenaTypeOK
  <2>9. RegionsDisjoint'
    BY <2>1, <2>3, <2>6, <1>11, <1>15 DEF ArenaInv, RegionsDisjoint
  <2>10. SpilledIffLong'
    BY <2>1 DEF ArenaInv, SpilledIffLong
  <2>11. MovedDisjoint'
    BY <2>1, <2>5, <2>6, <1>12, <1>15 DEF ArenaInv, MovedDisjoint
  <2>12. FreshCovered'
    BY <2>1, <2>5, <2>6, <1>3, <1>12, <1>15 DEF ArenaInv, FreshCovered
  <2>13. FreshFits'
    BY <2>1, <2>7, <1>3 DEF ArenaInv, FreshFits
  <2>14. QED
    BY <2>8, <2>9, <2>10, <2>11, <2>12, <2>13, <1>13 DEF ArenaInv
<1>17. CASE at # NO_SPILL
  <2>1. cursor \in Spilled /\ cursor \in Unmoved
    BY <1>1, <1>2, <1>11, <1>17 DEF Spilled
  <2>2. at \in Nat /\ n \in Nat /\ at + n <= Len(heap)
    BY <2>1, <1>2, <1>4 DEF ArenaInv, RegionsDisjoint
  <2>3. Region(heap, at, n) \in Seq(SpanValue) /\ Len(Region(heap, at, n)) = n
    BY <2>2, <1>5, RegionProperties
  <2>4. fresh' \in Seq(SpanValue) /\ Len(fresh') = Len(fresh) + n
    <3>1. fresh' = fresh \o Region(heap, at, n)
      BY <1>17
    <3>2. /\ fresh \o Region(heap, at, n) \in Seq(SpanValue)
          /\ Len(fresh \o Region(heap, at, n)) = Len(fresh) + Len(Region(heap, at, n))
      BY <2>3, <1>5, ConcatProperties
    <3>3. QED
      BY <3>1, <3>2, <2>3
  <2>5. Len(fresh) \in 0 .. MaxOffset /\ Len(fresh) # NO_SPILL
    BY <1>5, <1>9, ArenaAssumption DEF ArenaAssumption, NO_SPILL
  <2>6. /\ spill_at' \in [Ray -> 0 .. MaxOffset]
        /\ spill_at'[cursor] = Len(fresh)
        /\ \A r \in Ray : r # cursor => spill_at'[r] = spill_at[r]
    BY <2>5, <1>2, <1>17 DEF ArenaInv, ArenaTypeOK
  <2>7. Spilled' = Spilled
    <3>1. Spilled' = {r \in Ray : spill_at'[r] # NO_SPILL}
      BY DEF Spilled, NO_SPILL
    <3>2. QED
      BY <3>1, <2>1, <2>5, <2>6 DEF Spilled
  <2>8. Unmoved' = Unmoved \ {cursor}
    <3>1. \A r \in Spilled : cursor + 1 <= r <=> (cursor <= r /\ r # cursor)
      BY <1>1, <1>2, <1>15
    <3>2. QED
      BY <3>1, <1>11, <2>7
  <2>9. Moved' = Moved \cup {cursor} /\ cursor \notin Moved
    <3>1. \A r \in Spilled : r < cursor + 1 <=> (r < cursor \/ r = cursor)
      BY <1>1, <1>2, <1>15
    <3>2. ~(cursor < cursor)
      BY <1>1
    <3>3. QED
      BY <3>1, <3>2, <1>12, <2>1, <2>7
  <2>10. \A r \in Spilled : r # cursor => Cells(r)' = Cells(r)
    BY <2>6, <1>15 DEF Cells
  <2>11. Cells(cursor) = at .. at + n - 1
    BY DEF Cells
  <2>12. \A q \in Ray : Cells(q)' = spill_at'[q] .. spill_at'[q] + len[q] - 1
    BY DEF Cells
  <2>13. spill_at'[cursor'-1] = Len(fresh) /\ cursor' - 1 = cursor
    BY <1>1, <2>6
  <2>14. \A q \in Ray : q = cursor => Cells(q)' = Len(fresh) .. Len(fresh) + n - 1
    BY <2>6, <2>12
  <2>15. \A r \in Moved : Cells(r) \subseteq 0 .. Len(fresh) - 1
    <3>1. TAKE r \in Moved
    <3>2. spill_at[r] \in Nat /\ len[r] \in Nat /\ spill_at[r] + len[r] <= Len(fresh)
      BY <1>4, <1>12, <1>15 DEF ArenaInv, MovedDisjoint
    <3>3. QED
      BY <3>2, <1>5 DEF Cells
  <2>16. ArenaTypeOK'
    BY <2>4, <2>6, <1>10, <1>14 DEF ArenaInv, ArenaTypeOK
  <2>17. RegionsDisjoint'
    <3>1. \A r \in Unmoved' : r \in Unmoved /\ r \in Spilled /\ r \in Ray /\ r # cursor
      BY <2>8, <1>11, <1>15
    <3>2. \A r \in Unmoved' : spill_at'[r] + len'[r] <= Len(heap') /\ Cells(r)' = Cells(r)
      BY <3>1, <2>6, <2>10, <1>14 DEF ArenaInv, RegionsDisjoint
    <3>3. QED
      BY <3>1, <3>2 DEF ArenaInv, RegionsDisjoint
  <2>18. SpilledIffLong'
    BY <2>7 DEF ArenaInv, SpilledIffLong
  <2>23. \A o \in 0 .. Len(fresh) - 1 : o \notin Len(fresh) .. Len(fresh) + n - 1
    BY <1>5
  <2>19. MovedDisjoint'
    <3>1. \A r \in Moved : r \in Spilled /\ r \in Ray /\ r # cursor
      BY <2>9, <1>12, <1>15
    <3>2. \A r \in Moved : spill_at'[r] + len'[r] <= Len(fresh) /\ Cells(r)' = Cells(r)
      BY <3>1, <2>6, <2>10 DEF ArenaInv, MovedDisjoint
    <3>3. \A r \in Moved : spill_at'[r] \in Nat /\ len'[r] \in Nat
      BY <3>1, <1>4, <2>6
    <3>4. \A r \in Moved' : spill_at'[r] + len'[r] <= Len(fresh')
      BY <3>2, <3>3, <2>2, <2>4, <2>6, <2>9, <1>2, <1>5
    <3>5. \A r \in Moved, q \in Ray : q = cursor => Cells(q)' \cap Cells(r)' = {}
      <4>1. TAKE r \in Moved, q \in Ray
      <4>2. Cells(r)' \subseteq 0 .. Len(fresh) - 1
        BY <3>2, <2>15
      <4>3. QED
        BY <4>2, <2>14, <2>23
    <3>6. \A r \in Moved, q \in Moved : q # r => Cells(q)' \cap Cells(r)' = {}
      BY <3>2 DEF ArenaInv, MovedDisjoint
    <3>7. \A r \in Moved', q \in Moved' : q # r => Cells(q)' \cap Cells(r)' = {}
      <4>1. TAKE r \in Moved', q \in Moved'
      <4>2. CASE r # cursor /\ q # cursor
        BY <4>2, <3>6, <2>9
      <4>3. CASE r # cursor /\ q = cursor
        BY <4>3, <3>5, <2>9, <1>2
      <4>4. CASE r = cursor /\ q # cursor
        <5>1. Cells(r)' \cap Cells(q)' = {}
          BY <4>4, <3>5, <2>9, <1>2
        <5>2. QED
          BY <5>1
      <4>5. QED
        BY <4>2, <4>3, <4>4
    <3>8. QED
      BY <3>4, <3>7 DEF MovedDisjoint
  <2>20. FreshCovered'
    <3>1. SUFFICES ASSUME NEW o \in 0 .. Len(fresh') - 1
                   PROVE  \E r \in Moved' : o \in Cells(r)'
      BY DEF FreshCovered
    <3>2. CASE o < Len(fresh)
      <4>1. o \in 0 .. Len(fresh) - 1
        BY <3>2, <1>5, <2>4
      <4>2. PICK r \in Moved : o \in Cells(r)
        BY <4>1, <1>3 DEF ArenaInv, FreshCovered
      <4>3. r \in Moved' /\ Cells(r)' = Cells(r)
        BY <2>9, <2>10, <1>12
      <4>4. QED
        BY <4>2, <4>3
    <3>3. CASE o >= Len(fresh)
      <4>1. o \in Len(fresh) .. Len(fresh) + n - 1
        BY <3>3, <1>5, <2>2, <2>4
      <4>2. \E r \in Moved' : r = cursor /\ o \in Cells(r)'
        BY <4>1, <2>9, <2>14, <1>2
      <4>3. QED
        BY <4>2
    <3>4. QED
      BY <3>2, <3>3, <1>5, <2>4
  <2>21. FreshFits'
    <3>1. UnmovedCells' =
            {o \in 0 .. Len(heap) - 1 : \E r \in Unmoved : r # cursor /\ o \in Cells(r)}
      BY <2>8, <2>10, <1>11, <1>14 DEF UnmovedCells
    <3>2. Cells(cursor) \subseteq 0 .. Len(heap) - 1
      BY <2>2, <2>11, <1>5
    <3>3. UnmovedCells = UnmovedCells' \cup Cells(cursor)
      BY <3>1, <3>2, <2>1 DEF UnmovedCells
    <3>4. \A o \in Cells(cursor) : o \notin UnmovedCells'
      BY <3>1, <2>1 DEF ArenaInv, RegionsDisjoint
    <3>5. UnmovedCells' \in SUBSET (0 .. Len(heap) - 1)
      BY <3>1
    <3>6. IsFiniteSet(UnmovedCells') /\ Cardinality(UnmovedCells') \in Nat
      BY <3>5, <1>5, HeapCellsFinite
    <3>7. at \in Int
      BY <2>2
    <3>8. Cardinality(UnmovedCells' \cup (at .. at + n - 1)) = Cardinality(UnmovedCells') + n
      BY <3>4, <3>6, <3>7, <2>2, <2>11, CellsAdded
    <3>9. Cardinality(UnmovedCells) = Cardinality(UnmovedCells') + n
      BY <3>3, <3>8, <2>11
    <3>10. QED
      BY <3>6, <3>9, <2>2, <2>4, <1>5, <1>8, <1>14 DEF FreshFits
  <2>22. QED
    BY <2>16, <2>17, <2>18, <2>19, <2>20, <2>21, <1>13 DEF ArenaInv
<1>18. QED
  BY <1>16, <1>17

LEMMA CompactDoneInv ==
  ASSUME ArenaInv, CompactDone
  PROVE  ArenaInv'
<1> USE DEF CompactDone
<1>1. cursor = Rays /\ Rays \in Nat /\ Moving
  BY ArenaAssumption DEF ArenaAssumption, Moving, Idle
<1>2. Spilled' = Spilled /\ \A r : Cells(r)' = Cells(r)
  BY DEF Spilled, Cells
<1>3. \A r \in Spilled : r < Rays
  BY <1>1 DEF Spilled, Ray
<1>4. Moved = Spilled
  BY <1>1, <1>3 DEF Moved
<1>5. cursor' = Idle
  OBVIOUS
<1>6. Unmoved' = Spilled /\ Moved' = {}
  BY <1>2, <1>5 DEF Unmoved, Moved, Moving, Idle
<1>7. heap' = fresh /\ heap' \in Seq(SpanValue) /\ fresh' \in Seq(SpanValue) /\ Len(heap') \in Nat
  BY EmptySeq, LenProperties DEF ArenaInv, ArenaTypeOK
<1>8. RegionsDisjoint'
  BY <1>2, <1>4, <1>6, <1>7 DEF ArenaInv, MovedDisjoint, RegionsDisjoint
<1>9. SpilledIffLong'
  BY <1>2 DEF ArenaInv, SpilledIffLong
<1>10. DeadCells' = {}
  <2>1. \A o \in 0 .. Len(heap') - 1 : \E r \in Unmoved' : o \in Cells(r)'
    BY <1>1, <1>2, <1>4, <1>6, <1>7 DEF ArenaInv, FreshCovered
  <2>2. QED
    BY <2>1 DEF DeadCells
<1>11. GarbageExact'
  BY <1>10, FS_EmptySet DEF GarbageExact
<1>12. cursor' \in 0 .. Idle
  BY <1>1, <1>5 DEF Idle
<1>13. ArenaTypeOK'
  <2>1. garbage' \in 0 .. Len(heap')
    BY <1>7
  <2>2. QED
    BY <2>1, <1>7, <1>12 DEF ArenaInv, ArenaTypeOK
<1>14. MovedDisjoint' /\ FreshCovered' /\ FreshFits'
  BY <1>5, <1>6 DEF MovedDisjoint, FreshCovered, FreshFits, Moving, Idle
<1>15. QED
  BY <1>8, <1>9, <1>11, <1>13, <1>14 DEF ArenaInv
-----------------------------------------------------------------------------
LEMMA ArenaNextInv ==
  ASSUME ArenaInv, HeapAddressable, [ArenaNext]_arenaVars
  PROVE  ArenaInv'
<1>1. CASE ArenaNext
  <2>1. ASSUME NEW r \in Ray, NEW s \in SpanList, Set(r, s)
        PROVE  ArenaInv'
    <3>1. CASE SetInline(r, s)
      BY <3>1, SetInlineInv
    <3>2. CASE SetInPlace(r, s)
      BY <3>2, SetInPlaceInv
    <3>3. CASE SetAppend(r, s)
      BY <3>3, SetAppendInv
    <3>4. QED
      BY <2>1, <3>1, <3>2, <3>3 DEF Set
  <2>2. CASE CompactRay
    BY <2>2, CompactRayInv
  <2>3. CASE CompactDone
    BY <2>3, CompactDoneInv
  <2>4. QED
    BY <1>1, <2>1, <2>2, <2>3 DEF ArenaNext
<1>2. CASE UNCHANGED arenaVars
  <2>1. /\ inline' = inline /\ len' = len /\ spill_at' = spill_at /\ heap' = heap
        /\ garbage' = garbage /\ fresh' = fresh /\ cursor' = cursor
    BY <1>2 DEF arenaVars
  <2>2. Spilled' = Spilled /\ \A r : Cells(r)' = Cells(r)
    BY <2>1 DEF Spilled, Cells
  <2>3. Unmoved' = Unmoved /\ Moved' = Moved /\ (Moving' <=> Moving)
    BY <2>1, <2>2 DEF Unmoved, Moved, Moving
  <2>4. DeadCells' = DeadCells /\ UnmovedCells' = UnmovedCells
    BY <2>1, <2>2, <2>3 DEF DeadCells, UnmovedCells
  <2>5. ArenaTypeOK' /\ RegionsDisjoint' /\ SpilledIffLong'
    BY <2>1, <2>2, <2>3 DEF ArenaInv, ArenaTypeOK, RegionsDisjoint, SpilledIffLong
  <2>6. GarbageExact' /\ MovedDisjoint' /\ FreshCovered' /\ FreshFits'
    BY <2>1, <2>2, <2>3, <2>4 DEF ArenaInv, GarbageExact, MovedDisjoint, FreshCovered, FreshFits
  <2>7. QED
    BY <2>5, <2>6 DEF ArenaInv
<1>3. QED
  BY <1>1, <1>2

(* The inductive invariant holds in every reachable state, whatever lists   *)
(* are set in whatever order.                                               *)
THEOREM Invariance == ArenaSpec /\ []HeapAddressable => []ArenaInv
<1>1. ArenaInit => ArenaInv
  BY ArenaInitInv
<1>2. ArenaInv /\ HeapAddressable /\ [ArenaNext]_arenaVars => ArenaInv'
  BY ArenaNextInv
<1>3. QED
  BY <1>1, <1>2, PTL DEF ArenaSpec

(* Every variable keeps its type and `heap.len() - garbage` never wraps.    *)
THEOREM TypeCorrect == ArenaSpec /\ []HeapAddressable => []ArenaTypeOK
<1>1. ArenaInv => ArenaTypeOK
  BY DEF ArenaInv
<1>2. QED
  BY <1>1, Invariance, PTL

(* No two rays ever share heap cells, and no region runs past the heap.     *)
THEOREM RegionsNeverOverlap == ArenaSpec /\ []HeapAddressable => []RegionsDisjoint
<1>1. ArenaInv => RegionsDisjoint
  BY DEF ArenaInv
<1>2. QED
  BY <1>1, Invariance, PTL

(* `get` and `set` always agree on where a ray's list lives.                *)
THEOREM SpillFlagsCorrect == ArenaSpec /\ []HeapAddressable => []SpilledIffLong
<1>1. ArenaInv => SpilledIffLong
  BY DEF ArenaInv
<1>2. QED
  BY <1>1, Invariance, PTL

(* The garbage counter is exact between any two sets.                       *)
THEOREM GarbageCounterExact == ArenaSpec /\ []HeapAddressable => []GarbageExact
<1>1. ArenaInv => GarbageExact
  BY DEF ArenaInv
<1>2. QED
  BY <1>1, Invariance, PTL
-----------------------------------------------------------------------------
(* A list is the function of its elements.                                  *)
LEMMA ListIsFunction ==
  ASSUME NEW s \in Seq(SpanValue)
  PROVE  s = [i \in 1 .. Len(s) |-> s[i]]
BY LenProperties

(* While no compaction runs, Contents is what `get` returns.                *)
LEMMA IdleContents ==
  ASSUME ArenaInv, cursor = Idle \/ cursor = 0
  PROVE  Contents = [r \in Ray |-> get(r)]
<1>1. \A r \in Ray : ~(cursor # Idle /\ r < cursor)
  BY DEF Ray
<1>2. QED
  BY <1>1 DEF Contents

\* An interval that misses c - 1 also misses c once it is moved up by one.
LEMMA IntervalMiss ==
  ASSUME NEW a \in Nat, NEW n \in Nat, NEW m \in Nat, m <= n,
         NEW c \in Int, c - 1 \notin a .. a + n - 1
  PROVE  c \notin a + 1 .. a + m
OBVIOUS

LEMMA SetRefines ==
  ASSUME ArenaInv, HeapAddressable, ArenaInv', NEW r \in Ray, NEW s \in SpanList, Set(r, s)
  PROVE  Contents' = [Contents EXCEPT ![r] = s]
<1>1. s \in Seq(SpanValue) /\ Len(s) \in Nat /\ s = [i \in 1 .. Len(s) |-> s[i]]
  BY SpanListType, LenProperties, ListIsFunction
<1>2. cursor = Idle /\ (cursor' = Idle \/ cursor' = 0)
  BY DEF Set, SetInline, SetInPlace, SetAppend, FinishSet, Idle
<1>3. Contents = [q \in Ray |-> get(q)]
  BY <1>2, IdleContents
<1>4. Contents' = [q \in Ray |-> get(q)']
  <2>1. \A q \in Ray : ~(cursor' # Idle /\ q < cursor')
    BY <1>2 DEF Ray, Idle
  <2>2. QED
    BY <2>1 DEF Contents, Idle
<1>5. \A q \in Ray : spill_at[q] \in Nat /\ len[q] \in Nat /\ spill_at[q] + len[q] \in Nat
  BY IdleFacts, <1>2
<1>6. heap \in Seq(SpanValue) /\ Len(heap) \in Nat /\ DOMAIN heap = 1 .. Len(heap)
  BY LenProperties DEF ArenaInv, ArenaTypeOK
<1>7. ASSUME NEW q \in Ray, q # r
      PROVE  get(q)' = get(q)
  <2>1. CASE SetInline(r, s)
    <3>1. len'[q] = len[q] /\ spill_at'[q] = spill_at[q] /\ inline'[q] = inline[q] /\ heap' = heap
      BY <2>1, <1>7 DEF SetInline, ArenaInv, ArenaTypeOK
    <3>2. QED
      BY <3>1 DEF get, NO_SPILL
  <2>2. CASE SetInPlace(r, s)
    <3>1. len'[q] = len[q] /\ spill_at'[q] = spill_at[q] /\ inline'[q] = inline[q]
      BY <2>2, <1>7 DEF SetInPlace, ArenaInv, ArenaTypeOK
    <3>2. CASE q \in Spilled
      <4>1. r \in Spilled /\ Len(s) <= len[r]
        BY <2>2 DEF SetInPlace, Spilled
      <4>2. /\ spill_at[r] + len[r] <= Len(heap)
            /\ spill_at[q] + len[q] <= Len(heap)
            /\ Cells(q) \cap Cells(r) = {}
        BY <3>2, <4>1, <1>2, <1>7, IdleFacts
      <4>3. ASSUME NEW i \in 1 .. len[q]
            PROVE  heap'[spill_at[q] + i] = heap[spill_at[q] + i]
        <5>1. spill_at[q] + i - 1 \in Cells(q)
          BY <1>5 DEF Cells
        <5>2. spill_at[q] + i - 1 \notin Cells(r)
          BY <5>1, <4>2
        <5>3. spill_at[q] + i \notin spill_at[r] + 1 .. spill_at[r] + Len(s)
          <6>1. /\ spill_at[r] \in Nat /\ len[r] \in Nat /\ Len(s) \in Nat
                /\ Len(s) <= len[r]
            BY <4>1, <1>1, <1>5
          <6>2. spill_at[q] + i \in Int /\ (spill_at[q] + i) - 1 = spill_at[q] + i - 1
            BY <1>5
          <6>3. (spill_at[q] + i) - 1 \notin spill_at[r] .. spill_at[r] + len[r] - 1
            BY <5>2, <6>2, Zenon DEF Cells
          <6>4. QED
            BY <6>1, <6>2, <6>3, IntervalMiss
        <5>4. spill_at[q] + i \in 1 .. Len(heap)
          BY <4>2, <1>5, <1>6
        <5>5. heap' = Overwrite(heap, spill_at[r], s)
          BY <2>2 DEF SetInPlace
        <5>6. QED
          BY <5>3, <5>4, <5>5, <1>6 DEF Overwrite
      <4>4. Region(heap', spill_at'[q], len'[q]) = Region(heap, spill_at[q], len[q])
        BY <3>1, <4>3 DEF Region
      <4>5. QED
        BY <3>1, <4>4 DEF get, NO_SPILL
    <3>3. CASE q \notin Spilled
      BY <3>1, <3>3 DEF get, Spilled, NO_SPILL
    <3>4. QED
      BY <3>2, <3>3
  <2>3. CASE SetAppend(r, s)
    <3>1. len'[q] = len[q] /\ spill_at'[q] = spill_at[q] /\ inline'[q] = inline[q]
      BY <2>3, <1>7 DEF SetAppend, ArenaInv, ArenaTypeOK
    <3>2. CASE q \in Spilled
      <4>1. spill_at[q] + len[q] <= Len(heap)
        BY <3>2, <1>2, IdleFacts
      <4>2. heap' = heap \o s
        BY <2>3 DEF SetAppend
      <4>3. ASSUME NEW i \in 1 .. len[q]
            PROVE  heap'[spill_at[q] + i] = heap[spill_at[q] + i]
        <5>1. spill_at[q] + i \in 1 .. Len(heap)
          BY <4>1, <1>5, <1>6
        <5>2. QED
          BY <5>1, <4>2, <1>1, <1>6, ConcatProperties
      <4>4. Region(heap', spill_at'[q], len'[q]) = Region(heap, spill_at[q], len[q])
        BY <3>1, <4>3 DEF Region
      <4>5. QED
        BY <3>1, <4>4 DEF get, NO_SPILL
    <3>3. CASE q \notin Spilled
      BY <3>1, <3>3 DEF get, Spilled, NO_SPILL
    <3>4. QED
      BY <3>2, <3>3
  <2>4. QED
    BY <2>1, <2>2, <2>3 DEF Set
<1>8. get(r)' = s
  <2>1. CASE SetInline(r, s)
    <3>1. len'[r] = Len(s) /\ inline'[r] = WriteInline(inline[r], s) /\ Len(s) <= InlineCapacity
      BY <2>1 DEF SetInline, ArenaInv, ArenaTypeOK
    <3>2. ~(len'[r] > InlineCapacity)
      BY <3>1, <1>1, ArenaAssumption DEF ArenaAssumption
    <3>3. \A i \in 1 .. Len(s) : inline'[r][i] = s[i]
      BY <3>1, <1>1, ArenaAssumption DEF WriteInline, ArenaAssumption
    <3>4. get(r)' = [i \in 1 .. len'[r] |-> inline'[r][i]]
      BY <3>2 DEF get
    <3>5. QED
      BY <3>1, <3>3, <3>4, <1>1
  <2>2. CASE SetInPlace(r, s)
    <3>1. len'[r] = Len(s) /\ spill_at'[r] = spill_at[r] /\ spill_at[r] # NO_SPILL
          /\ Len(s) > InlineCapacity /\ heap' = Overwrite(heap, spill_at[r], s)
          /\ Len(s) <= len[r]
      BY <2>2 DEF SetInPlace, ArenaInv, ArenaTypeOK
    <3>2. spill_at[r] + len[r] <= Len(heap)
      BY <3>1, <1>2, IdleFacts DEF Spilled
    <3>3. spill_at[r] + Len(s) <= Len(heap) /\ spill_at[r] \in Nat
      BY <3>1, <3>2, <1>1, <1>5, <1>6
    <3>4. \A i \in 1 .. Len(s) : heap'[spill_at[r] + i] = s[i]
      BY <3>1, <3>3, <1>1, <1>6, OverwriteProperties
    <3>5. get(r)' = Region(heap', spill_at'[r], len'[r])
      BY <3>1 DEF get, NO_SPILL
    <3>6. Region(heap', spill_at'[r], len'[r]) = [i \in 1 .. Len(s) |-> s[i]]
      BY <3>1, <3>4 DEF Region
    <3>7. QED
      BY <3>5, <3>6, <1>1
  <2>3. CASE SetAppend(r, s)
    <3>1. len'[r] = Len(s) /\ spill_at'[r] = Len(heap) /\ Len(s) > InlineCapacity
          /\ heap' = heap \o s
      BY <2>3 DEF SetAppend, ArenaInv, ArenaTypeOK
    <3>2. Len(heap) # NO_SPILL
      <4>1. Len(heap) < MaxOffset /\ MaxOffset \in Nat
        BY ArenaAssumption DEF HeapAddressable, ArenaAssumption
      <4>2. Len(heap) \in Nat
        BY <1>6
      <4>3. QED
        BY <4>1, <4>2 DEF NO_SPILL
    <3>3. ASSUME NEW i \in 1 .. Len(s)
          PROVE  heap'[Len(heap) + i] = s[i]
      <4>1. /\ Len(heap) + i \in 1 .. Len(heap) + Len(s)
            /\ ~(Len(heap) + i <= Len(heap))
            /\ (Len(heap) + i) - Len(heap) = i
        BY <1>1, <1>6
      <4>2. QED
        BY <4>1, <3>1, <1>1, <1>6, ConcatProperties
    <3>4. get(r)' = Region(heap', spill_at'[r], len'[r])
      BY <3>1, <3>2 DEF get, NO_SPILL
    <3>5. Region(heap', spill_at'[r], len'[r]) = [i \in 1 .. Len(s) |-> s[i]]
      BY <3>1, <3>3 DEF Region
    <3>6. QED
      BY <3>4, <3>5, <1>1
  <2>4. QED
    BY <2>1, <2>2, <2>3 DEF Set
<1>9. QED
  BY <1>3, <1>4, <1>7, <1>8

LEMMA CompactRayStutters ==
  ASSUME ArenaInv, HeapAddressable, ArenaInv', CompactRay
  PROVE  Contents' = Contents
<1>1. \A r \in Ray : spill_at[r] \in Nat /\ len[r] \in Nat /\ r \in Nat
  BY ArenaAssumption DEF ArenaInv, ArenaTypeOK, ArenaAssumption, Ray
<1>2. heap \in Seq(SpanValue) /\ fresh \in Seq(SpanValue)
  BY DEF ArenaInv, ArenaTypeOK
<1>3. Len(heap) \in Nat /\ Len(fresh) \in Nat
  BY <1>2, LenProperties
<1> USE DEF CompactRay
<1>4. cursor \in Nat /\ cursor # Rays + 1 /\ cursor + 1 # Rays + 1 /\ cursor \in Ray
  BY ArenaAssumption DEF ArenaInv, ArenaTypeOK, ArenaAssumption, Idle, Ray
<1>5. heap' = heap /\ len' = len /\ inline' = inline
  OBVIOUS
<1>6. ASSUME NEW r \in Ray
      PROVE  Contents'[r] = Contents[r]
  <2>1. CASE r # cursor
    <3>1. r < cursor' <=> r < cursor
      BY <2>1, <1>4, <1>1
    <3>2. spill_at'[r] = spill_at[r]
      BY <2>1 DEF ArenaInv, ArenaTypeOK
    <3>3. get(r)' = get(r)
      BY <3>2, <1>5 DEF get, NO_SPILL
    <3>4. CASE r < cursor /\ spill_at[r] # NO_SPILL
      <4>1. spill_at[r] + len[r] <= Len(fresh)
        <5>1. r \in Moved
          BY <3>4, <1>4 DEF Moved, Moving, Spilled, Idle
        <5>2. QED
          BY <5>1 DEF ArenaInv, MovedDisjoint
      <4>2. ASSUME NEW i \in 1 .. len[r]
            PROVE  fresh'[spill_at[r] + i] = fresh[spill_at[r] + i]
        <5>1. spill_at[r] + i \in 1 .. Len(fresh)
          BY <4>1, <1>1, <1>3
        <5>2. CASE spill_at[cursor] = NO_SPILL
          BY <5>2
        <5>3. CASE spill_at[cursor] # NO_SPILL
          <6>1. cursor \in Unmoved
            BY <5>3, <1>4 DEF Unmoved, Spilled
          <6>2. spill_at[cursor] + len[cursor] <= Len(heap)
            BY <6>1 DEF ArenaInv, RegionsDisjoint
          <6>3. Region(heap, spill_at[cursor], len[cursor]) \in Seq(SpanValue)
            BY <6>2, <1>4, <1>1, <1>2, RegionProperties
          <6>4. fresh' = fresh \o Region(heap, spill_at[cursor], len[cursor])
            BY <5>3
          <6>5. QED
            BY <5>1, <6>3, <6>4, <1>2, <1>3, ConcatProperties, LenProperties
        <5>4. QED
          BY <5>2, <5>3
      <4>3. Region(fresh', spill_at'[r], len'[r]) = Region(fresh, spill_at[r], len[r])
        BY <3>2, <4>2, <1>5 DEF Region
      <4>4. Contents[r] = Region(fresh, spill_at[r], len[r])
        BY <3>4, <1>4 DEF Contents, Idle
      <4>5. Contents'[r] = Region(fresh', spill_at'[r], len'[r])
        BY <3>1, <3>2, <3>4, <1>4 DEF Contents, Idle, NO_SPILL
      <4>6. QED
        BY <4>3, <4>4, <4>5
    <3>5. CASE ~(r < cursor /\ spill_at[r] # NO_SPILL)
      <4>1. Contents[r] = get(r)
        BY <3>5 DEF Contents
      <4>2. Contents'[r] = get(r)'
        BY <3>1, <3>2, <3>5 DEF Contents, NO_SPILL
      <4>3. QED
        BY <3>3, <4>1, <4>2
    <3>6. QED
      BY <3>4, <3>5
  <2>2. CASE r = cursor
    <3>1. ~(r < cursor) /\ r < cursor'
      BY <2>2, <1>4
    <3>2. Contents[r] = get(r)
      BY <3>1 DEF Contents
    <3>3. CASE spill_at[cursor] = NO_SPILL
      <4>1. spill_at' = spill_at
        BY <3>3
      <4>2. Contents'[r] = get(r)'
        BY <2>2, <3>3, <4>1 DEF Contents, NO_SPILL
      <4>3. get(r)' = get(r)
        BY <4>1, <1>5 DEF get, NO_SPILL
      <4>4. QED
        BY <3>2, <4>2, <4>3
    <3>4. CASE spill_at[cursor] # NO_SPILL
      <4>1. cursor \in Unmoved /\ cursor \in Spilled
        BY <3>4, <1>4 DEF Unmoved, Spilled
      <4>2. spill_at[cursor] + len[cursor] <= Len(heap)
        BY <4>1 DEF ArenaInv, RegionsDisjoint
      <4>3. /\ Region(heap, spill_at[cursor], len[cursor]) \in Seq(SpanValue)
            /\ Len(Region(heap, spill_at[cursor], len[cursor])) = len[cursor]
        BY <4>2, <1>4, <1>1, <1>2, RegionProperties
      <4>4. fresh' = fresh \o Region(heap, spill_at[cursor], len[cursor])
        BY <3>4
      <4>5. spill_at'[cursor] = Len(fresh)
        BY <3>4, <1>4 DEF ArenaInv, ArenaTypeOK
      <4>6. cursor \in Spilled'
        <5>1. /\ len[cursor] > InlineCapacity
              /\ \A q \in Ray : len'[q] > InlineCapacity <=> q \in Spilled'
          BY <4>1, <1>4 DEF ArenaInv, SpilledIffLong
        <5>2. QED
          BY <5>1, <1>4, <1>5
      <4>7. spill_at'[cursor] # NO_SPILL
        BY <4>6 DEF Spilled, NO_SPILL
      <4>8. Contents'[r] = Region(fresh', Len(fresh), len[cursor])
        BY <2>2, <3>1, <4>5, <4>7, <1>4, <1>5 DEF Contents, Idle, NO_SPILL
      <4>9. get(r) = Region(heap, spill_at[cursor], len[cursor])
        BY <2>2, <3>4, <4>1, <1>4 DEF get, ArenaInv, SpilledIffLong
      <4>10. ASSUME NEW i \in 1 .. len[cursor]
             PROVE  fresh'[Len(fresh) + i] = heap[spill_at[cursor] + i]
        <5>1. /\ Len(fresh) + i \in 1 .. Len(fresh) + len[cursor]
              /\ ~(Len(fresh) + i <= Len(fresh))
              /\ (Len(fresh) + i) - Len(fresh) = i
          BY <1>4, <1>1, <1>3
        <5>2. fresh'[Len(fresh) + i] = Region(heap, spill_at[cursor], len[cursor])[i]
          BY <5>1, <4>3, <4>4, <1>2, ConcatProperties
        <5>3. QED
          BY <5>2 DEF Region
      <4>11. Region(fresh', Len(fresh), len[cursor]) = Region(heap, spill_at[cursor], len[cursor])
        BY <4>10 DEF Region
      <4>12. QED
        BY <3>2, <4>8, <4>9, <4>11
    <3>5. QED
      BY <3>3, <3>4
  <2>3. QED
    BY <2>1, <2>2
<1>7. Contents' = [r \in Ray |-> Contents'[r]] /\ Contents = [r \in Ray |-> Contents[r]]
  BY DEF Contents
<1>8. QED
  BY <1>6, <1>7

LEMMA CompactDoneStutters ==
  ASSUME ArenaInv, CompactDone
  PROVE  Contents' = Contents
<1> USE DEF CompactDone
<1>1. Rays \in Nat /\ cursor = Rays /\ cursor # Idle /\ cursor' = Idle
  BY ArenaAssumption DEF ArenaAssumption, Idle
<1>2. \A r \in Ray : r < cursor
  BY <1>1 DEF Ray
<1>3. ASSUME NEW r \in Ray
      PROVE  Contents'[r] = Contents[r]
  <2>1. Contents'[r] = get(r)'
    BY <1>1 DEF Contents, Idle
  <2>2. CASE spill_at[r] # NO_SPILL
    <3>1. Contents[r] = Region(fresh, spill_at[r], len[r])
      BY <2>2, <1>1, <1>2 DEF Contents
    <3>2. len[r] > InlineCapacity
      BY <2>2 DEF ArenaInv, SpilledIffLong, Spilled
    <3>3. get(r)' = Region(fresh, spill_at[r], len[r])
      BY <2>2, <3>2 DEF get, NO_SPILL
    <3>4. QED
      BY <2>1, <3>1, <3>3
  <2>3. CASE spill_at[r] = NO_SPILL
    <3>1. Contents[r] = get(r)
      BY <2>3 DEF Contents
    <3>2. ~(len[r] > InlineCapacity)
      BY <2>3 DEF ArenaInv, SpilledIffLong, Spilled
    <3>3. get(r)' = get(r)
      BY <3>2 DEF get
    <3>4. QED
      BY <2>1, <3>1, <3>3
  <2>4. QED
    BY <2>2, <2>3
<1>4. Contents' = [r \in Ray |-> Contents'[r]] /\ Contents = [r \in Ray |-> Contents[r]]
  BY DEF Contents
<1>5. QED
  BY <1>3, <1>4

(* A fresh arena reads as the map that holds nothing.                       *)
LEMMA InitRefines == ArenaInit => Store!Init
<1> SUFFICES ASSUME ArenaInit PROVE Store!Init
  OBVIOUS
<1>1. ArenaInv /\ cursor = Idle
  BY ArenaInitInv DEF ArenaInit
<1>2. Contents = [r \in Ray |-> get(r)]
  BY <1>1, IdleContents
<1>3. ASSUME NEW r \in Ray
      PROVE  get(r) = <<>>
  <2>1. len[r] = 0 /\ ~(len[r] > InlineCapacity)
    BY ArenaAssumption DEF ArenaInit, ArenaAssumption
  <2>2. get(r) = [i \in 1 .. 0 |-> inline[r][i]]
    BY <2>1 DEF get
  <2>3. [i \in 1 .. 0 |-> inline[r][i]] \in [1 .. 0 -> SpanValue]
    OBVIOUS
  <2>4. get(r) \in Seq(SpanValue) /\ Len(get(r)) = 0
    BY <2>2, <2>3, SeqDef, LenProperties
  <2>5. QED
    BY <2>4, EmptySeq
<1>4. QED
  BY <1>2, <1>3 DEF Store!Init

(* The arena implements the map: every set replaces one ray's list and no   *)
(* other, and the compaction it may trigger changes no list.                *)
THEOREM ArenaImplementsStore == ArenaSpec /\ []HeapAddressable => StoreSpec
<1>1. ArenaInit => Store!Init
  BY InitRefines
<1>2. ArenaInv /\ ArenaInv' /\ HeapAddressable /\ [ArenaNext]_arenaVars => [Store!Next]_Contents
  <2> SUFFICES ASSUME ArenaInv, ArenaInv', HeapAddressable, [ArenaNext]_arenaVars
               PROVE  [Store!Next]_Contents
    OBVIOUS
  <2>1. ASSUME NEW r \in Ray, NEW s \in SpanList, Set(r, s)
        PROVE  Store!Next
    BY <2>1, SetRefines DEF Store!Next, Store!Set
  <2>2. CASE CompactRay
    BY <2>2, CompactRayStutters
  <2>3. CASE CompactDone
    BY <2>3, CompactDoneStutters
  <2>4. CASE UNCHANGED arenaVars
    BY <2>4 DEF arenaVars, Contents, get, Region
  <2>5. QED
    BY <2>1, <2>2, <2>3, <2>4 DEF ArenaNext
<1>3. QED
  BY <1>1, <1>2, Invariance, PTL DEF ArenaSpec, StoreSpec, Store!Spec
=============================================================================
