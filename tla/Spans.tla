-------------------------------- MODULE Spans --------------------------------
(***************************************************************************)
(* crates/chipbreaker-core/src/spans.rs: sorted, disjoint sets of half-open *)
(* intervals, the material along one ray. A task is one call: a set         *)
(* operation (complement_within and clipped_to are the difference and the   *)
(* intersection with one span), from_unsorted ("collect"), or a set built   *)
(* by push_merge from nothing.                                              *)
(*                                                                         *)
(* The steps are the iterations of the loops: boolean_scan takes the next   *)
(* endpoint of two streams, normalize_in_place rewrites its list while it   *)
(* reads it. Positions are integers; NaN bounds, which `retain` removes with *)
(* every other invalid span, are not represented. A normal is the surface   *)
(* an endpoint was made on: whose it is, where, and which way it faces.     *)
(***************************************************************************)
EXTENDS Integers, Sequences, FiniteSets, SequencesExt

CONSTANTS
  None,  \* no endpoint, no open span
  Eps,   \* EPS_SPAN_MERGE and EPS_SPAN_MIN, which are equal
  Tasks  \* the calls: [op, a, b], b being <<>> for collect and push

SetOps == {"union", "intersect", "difference"}

Normal == [of : {"a", "b"}, at : Int, out : Int]
Span == [t0 : Int, t1 : Int, n0 : Normal, n1 : Normal]

ASSUME SpansAssumption ==
  /\ None \notin Int /\ None \notin [t : Int, n : Normal]
  /\ Eps \in Nat \ {0}
  /\ \A t \in Tasks : /\ t.op \in SetOps \cup {"collect", "push"}
                      /\ t.a \in Seq(Span) /\ t.b \in Seq(Span)

\* The operands of a set operation are such sets: spans of positive length, in
\* order, that do not touch.
IsSpans(s) ==
  \A i \in DOMAIN s : s[i].t0 < s[i].t1 /\ \A j \in DOMAIN s : i < j => s[i].t1 < s[j].t0

ASSUME OperandsAssumption == \A t \in Tasks : t.op \in SetOps => IsSpans(t.a) /\ IsSpans(t.b)

\* Every bound carries a surface of its owner that lies there and faces out.
Owned(s, owner) ==
  \A i \in DOMAIN s : /\ s[i].n0 = [of |-> owner, at |-> s[i].t0, out |-> -1]
                      /\ s[i].n1 = [of |-> owner, at |-> s[i].t1, out |-> 1]

ASSUME FacesAssumption == \A t \in Tasks : Owned(t.a, "a") /\ Owned(t.b, "b")

VARIABLES
  task,     \* the call; never changes
  stage,    \* "scan", "sort", "merge", "push" or "done"
  ia, ib,   \* the next span of each operand
  in_a,     \* whether the scan is inside a span of a
  in_b,     \* and of b
  open,     \* where, and on which surface, the open output span began, or None
  out,      \* the result so far, and the list that is normalized in place
  read,     \* the next span the merge reads
  write,    \* where it writes the next one it keeps
  current,  \* the span it is extending, or None
  pushed    \* how many spans have been pushed

vars == <<task, stage, ia, ib, in_a, in_b, open, out, read, write, current, pushed>>
scanVars == <<ia, ib, in_a, in_b, open>>
mergeVars == <<read, write, current>>

Init ==
  /\ task \in Tasks
  /\ stage = CASE task.op \in SetOps -> "scan"
               [] task.op = "collect" -> "sort"
               [] task.op = "push" -> "push"
  /\ ia = 1 /\ ib = 1
  /\ in_a = FALSE /\ in_b = FALSE
  /\ open = None
  /\ out = IF task.op = "collect" THEN task.a ELSE <<>>
  /\ read = 1 /\ write = 1
  /\ current = None
  /\ pushed = 0
-----------------------------------------------------------------------------
is_valid(s) == s.t1 > s.t0
length(s) == s.t1 - s.t0

negated(normal) == [normal EXCEPT !.out = -@]

combine(x, y) ==
  CASE task.op = "union" -> x \/ y
    [] task.op = "intersect" -> x /\ y
    [] task.op = "difference" -> x /\ ~y

\* The endpoint a stream presents next, and the surface it lies on.
Endpoint(spans, i, inside) ==
  IF i > Len(spans) THEN None ELSE IF inside THEN spans[i].t1 ELSE spans[i].t0
Surface(spans, i, inside) == IF inside THEN spans[i].n1 ELSE spans[i].n0

ea == Endpoint(task.a, ia, in_a)
eb == Endpoint(task.b, ib, in_b)

\* Nothing more can come out: both streams are spent, or one is and the
\* operation is an intersection.
ScanSpent == IF task.op = "intersect" THEN ea = None \/ eb = None
             ELSE ea = None /\ eb = None

\* The smaller of the two endpoints.
At == IF eb = None THEN ea ELSE IF ea # None /\ ea <= eb THEN ea ELSE eb

\* Slip: the cutter's faces are taken as they are.
normal_as_stored ==
  IF ea = At THEN Surface(task.a, ia, in_a) ELSE Surface(task.b, ib, in_b)

\* The surface an output endpoint here lies on: a's on a tie; b's turned round
\* when b is what is cut away.
normal_here ==
  IF ea = At THEN Surface(task.a, ia, in_a)
  ELSE IF task.op = "difference" THEN negated(Surface(task.b, ib, in_b))
  ELSE Surface(task.b, ib, in_b)

\* One iteration of boolean_scan. On a tie both streams advance.
ScanEndpoint ==
  /\ stage = "scan"
  /\ ~ScanSpent
  /\ in_a' = (in_a # (ea = At))
  /\ in_b' = (in_b # (eb = At))
  /\ ia' = IF in_a /\ ea = At THEN ia + 1 ELSE ia
  /\ ib' = IF in_b /\ eb = At THEN ib + 1 ELSE ib
  /\ LET inside == combine(in_a', in_b')
     IN  /\ open' = IF ~inside THEN None
                    ELSE IF open = None THEN [t |-> At, n |-> normal_here] ELSE open
         /\ out' = IF ~inside /\ open # None
                   THEN Append(out, [t0 |-> open.t, t1 |-> At, n0 |-> open.n, n1 |-> normal_here])
                   ELSE out
  /\ UNCHANGED <<task, stage, mergeVars, pushed>>

ScanEnd ==
  /\ stage = "scan"
  /\ ScanSpent
  /\ stage' = "sort"
  /\ UNCHANGED <<task, scanVars, out, mergeVars, pushed>>
-----------------------------------------------------------------------------
(* normalize_in_place *)

\* In what order the valid spans of a list are taken: ascending by t0, then t1,
\* and spans that agree in both as they came. There is exactly one.
Orders(spans) ==
  LET valid == {i \in DOMAIN spans : is_valid(spans[i])}
      Before(i, j) ==
        \/ spans[i].t0 < spans[j].t0
        \/ /\ spans[i].t0 = spans[j].t0
           /\ spans[i].t1 < spans[j].t1 \/ (spans[i].t1 = spans[j].t1 /\ i < j)
  IN  {order \in [1 .. Cardinality(valid) -> valid] :
         \A i, j \in DOMAIN order : i < j => Before(order[i], order[j])}

\* Where a call goes once its list is normalized.
Normalized == IF task.op = "push" THEN "push" ELSE "done"

Sort ==
  /\ stage = "sort"
  /\ \E order \in Orders(out) : out' = [i \in DOMAIN order |-> out[order[i]]]
  /\ stage' = IF out' = <<>> THEN Normalized ELSE "merge"
  /\ current' = IF out' = <<>> THEN None ELSE out'[1]
  /\ read' = 2
  /\ write' = 1
  /\ UNCHANGED <<task, scanVars, pushed>>

\* Slip: a gap of exactly the threshold is left open.
CloseIfNarrower(gap) == gap < Eps

Close(gap) == gap <= Eps

\* Slip: the fused span ends where the later one does, contained or not.
ExtendedAlways(s, next) == [s EXCEPT !.t1 = next.t1, !.n1 = next.n1]

\* The span with a later one fused in; a normal travels with its bound.
Extended(s, next) ==
  IF next.t1 > s.t1 THEN [s EXCEPT !.t1 = next.t1, !.n1 = next.n1] ELSE s

Survives(s) == length(s) >= Eps

\* The list with the finished current span written, if it is long enough.
Written == IF Survives(current) THEN [out EXCEPT ![write] = current] ELSE out
WriteNext == IF Survives(current) THEN write + 1 ELSE write

MergeNext ==
  /\ stage = "merge"
  /\ read <= Len(out)
  /\ LET next == out[read]
     IN  IF Close(next.t0 - current.t1)
         THEN /\ current' = Extended(current, next)
              /\ UNCHANGED <<out, write>>
         ELSE /\ current' = next
              /\ out' = Written
              /\ write' = WriteNext
  /\ read' = read + 1
  /\ UNCHANGED <<task, stage, scanVars, pushed>>

MergeEnd ==
  /\ stage = "merge"
  /\ read > Len(out)
  /\ out' = SubSeq(Written, 1, WriteNext - 1)
  /\ current' = None
  /\ stage' = Normalized
  /\ UNCHANGED <<task, scanVars, read, write, pushed>>
-----------------------------------------------------------------------------
(* push_merge *)

Pushing == stage = "push" /\ pushed < Len(task.a)
Pushed == task.a[pushed + 1]

\* The span starts no earlier than the last one, and so need not be sorted in.
Appends == out # <<>> => Pushed.t0 >= Last(out).t0

PushIgnored ==
  /\ Pushing
  /\ ~is_valid(Pushed)
  /\ pushed' = pushed + 1
  /\ UNCHANGED <<task, stage, scanVars, out, mergeVars>>

PushInOrder ==
  /\ Pushing
  /\ is_valid(Pushed)
  /\ Appends
  /\ out' = IF out # <<>> /\ Close(Pushed.t0 - Last(out).t1)
            THEN [out EXCEPT ![Len(out)] = Extended(@, Pushed)]
            ELSE Append(out, Pushed)
  /\ pushed' = pushed + 1
  /\ UNCHANGED <<task, stage, scanVars, mergeVars>>

PushOutOfOrder ==
  /\ Pushing
  /\ is_valid(Pushed)
  /\ ~Appends
  /\ out' = Append(out, Pushed)
  /\ pushed' = pushed + 1
  /\ stage' = "sort"
  /\ UNCHANGED <<task, scanVars, mergeVars>>

PushEnd ==
  /\ stage = "push"
  /\ pushed = Len(task.a)
  /\ stage' = "done"
  /\ UNCHANGED <<task, scanVars, out, mergeVars, pushed>>

Next ==
  \/ ScanEndpoint \/ ScanEnd
  \/ Sort \/ MergeNext \/ MergeEnd
  \/ PushIgnored \/ PushInOrder \/ PushOutOfOrder \/ PushEnd

Spec == Init /\ [][Next]_vars
-----------------------------------------------------------------------------
(* What a list of spans means: the unit cells it covers. *)

Points(spans) == UNION {s.t0 .. s.t1 - 1 : s \in ToSet(spans)}

Exact ==
  CASE task.op = "union" -> Points(task.a) \cup Points(task.b)
    [] task.op = "intersect" -> Points(task.a) \cap Points(task.b)
    [] task.op = "difference" -> Points(task.a) \ Points(task.b)
    [] OTHER -> Points(task.a)

\* The cells, with every gap no wider than the threshold filled.
Healed(cells) ==
  LET Between(l, r) == IF r - l - 1 <= Eps THEN l .. r ELSE {l, r}
  IN  UNION {Between(l, r) : l \in cells, r \in cells}

\* Without the runs that are shorter than the threshold.
WithoutSlivers(cells) == {c \in cells : \E i \in c - Eps + 1 .. c : i .. i + Eps - 1 \subseteq cells}
-----------------------------------------------------------------------------
(* Every variable has its type.                                              *)
TypeOK ==
  /\ stage \in {"scan", "sort", "merge", "push", "done"}
  /\ ia \in 1 .. Len(task.a) + 1
  /\ ib \in 1 .. Len(task.b) + 1
  /\ in_a \in BOOLEAN /\ in_b \in BOOLEAN
  /\ out \in Seq(Span)
  /\ stage = "merge" => current \in Span /\ read \in 2 .. Len(out) + 1
  /\ pushed \in 0 .. Len(task.a)

(* "A Spans is always structurally valid" (the module's invariant, asserted  *)
(* in debug builds): spans have positive length and the gaps between them    *)
(* exceed the merge threshold, so they are in order and disjoint. What a set *)
(* operation or from_unsorted returns has no sliver either, which is what    *)
(* makes normalizing again change nothing.                                   *)
StructurallyValid ==
  stage \in {"push", "done"} =>
    /\ \A i \in DOMAIN out : is_valid(out[i])
    /\ \A i \in 1 .. Len(out) - 1 : out[i + 1].t0 - out[i].t1 > Eps
    /\ task.op # "push" => \A i \in DOMAIN out : length(out[i]) >= Eps

(* The merge never overwrites a span it has still to read, though it writes  *)
(* into the list it is reading: the entries from `read` on are the sorted    *)
(* list's.                                                                   *)
UnreadIntact ==
  stage = "merge" =>
    /\ write < read
    /\ \A i \in read .. Len(out) - 1 : out[i].t0 <= out[i + 1].t0
    /\ read <= Len(out) => out[read].t0 >= current.t0

(* A set operation is the operation on sets of points, with gaps up to the   *)
(* threshold healed first and what is still shorter than it dropped then;    *)
(* so is collecting spans in any order. Where all endpoints are further      *)
(* apart than the threshold this is the exact set.                           *)
ResultIsTheSet ==
  stage = "done" /\ task.op # "push" =>
    Points(out) = WithoutSlivers(Healed(Exact))

(* Every bound of a result carries the normal of a surface that lies there   *)
(* and faces away from the material: down at its lower end, up at its upper. *)
(* A cut shows the cutter's surface turned round; a face a already had stays *)
(* a's own. Otherwise the extracted mesh would be closed and inside out.     *)
FacesOutward ==
  stage = "done" =>
    \A s \in ToSet(out) :
      /\ s.n0.at = s.t0 /\ s.n0.out = -1
      /\ s.n1.at = s.t1 /\ s.n1.out = 1
      /\ \A n \in {s.n0, s.n1} :
           (\E x \in ToSet(task.a) : n.at \in {x.t0, x.t1}) => n.of = "a"
==============================================================================
