------------------------------- MODULE MCSpans -------------------------------
(* Every pair of structurally valid sets over a line of eight cells under     *)
(* every set operation, and every list of up to three of the spans in Loose,  *)
(* collected and pushed. The threshold is 2: a gap of one or two cells heals, *)
(* a span of one cell is a sliver.                                            *)
EXTENDS Spans

Line == 0 .. 8

Facing(owner, t, way) == [of |-> owner, at |-> t, out |-> way]

S(owner, t0, t1) ==
  [t0 |-> t0, t1 |-> t1, n0 |-> Facing(owner, t0, -1), n1 |-> Facing(owner, t1, 1)]

\* The structurally valid sets: at most two spans fit.
Sets(owner) ==
  {<<>>}
    \cup {<<S(owner, t0, t1)>> : <<t0, t1>> \in {p \in Line \X Line : p[1] < p[2]}}
    \cup {<<S(owner, p[1], p[2]), S(owner, p[3], p[4])>> :
          p \in {q \in Line \X Line \X Line \X Line :
                   q[1] < q[2] /\ q[3] - q[2] > Eps /\ q[3] < q[4]}}

Loose ==
  {S("a", 0, 1), S("a", 0, 4), S("a", 1, 3), S("a", 2, 3), S("a", 3, 3), S("a", 4, 2),
   S("a", 4, 5), S("a", 4, 8), S("a", 5, 7), S("a", 6, 8), S("a", 7, 8)}

Lists == UNION {[1 .. n -> Loose] : n \in 0 .. 3}

MCTasks ==
  [op : SetOps, a : Sets("a"), b : Sets("b")] \cup [op : {"collect", "push"}, a : Lists, b : {<<>>}]
==============================================================================
