-------------------------------- MODULE MCVerify --------------------------------
(* Radius 4, so that the corners of a cell are further apart than that, and       *)
(* positions in steps of half of it. A few fields that go from one to the other   *)
(* as a program is edited: a gouge deepens, another appears, two of them, or one  *)
(* and stock left over, share a cell.                                             *)
EXTENDS Verify

s(px, py, depth) == [at |-> <<2 * px, 2 * py>>, near |-> <<2 * px, 2 * py>>, signed |-> depth]
f(px, py, way) == [at |-> <<2 * px, 2 * py>>, faces |-> way]

Clean == <<s(0, 0, 1), s(2, 0, 0), s(3, 3, 0)>>
OneGouge == <<s(0, 0, -2), s(1, 0, -3), s(9, 9, 0)>>
Deeper == <<s(0, 0, -4), s(1, 0, -3), s(9, 9, 0)>>
Shared == <<s(0, 0, -2), s(1, 0, -3), s(0, 1, 2)>>
Left == <<s(9, 9, 0), s(5, 5, 1), s(0, 1, 2)>>
corner(p, depth) == [at |-> <<p, p>>, near |-> <<p, p>>, signed |-> depth]
Corners == <<corner(0, -3), corner(3, -2), s(9, 9, 0)>>
Swapped == <<corner(0, -3), corner(3, -4), s(9, 9, 0)>>
Apart == <<s(0, 8, -2), s(3, 8, -3), s(9, 9, 1)>>

\* Fields that are only clustered: chains whose trees meet in the middle, two
\* crossing classes, and every triple of a few samples.
Chain == <<s(-4, 0, 2), s(-2, 0, 3), s(0, 0, 2), s(2, 0, 2), s(4, 0, 3), s(6, 0, 2)>>
Crossing == <<s(0, 0, 2), s(-1, 1, 3), s(1, 1, -2), s(1, 3, -2), s(-1, -1, -4), s(3, 3, 2)>>
Loose == {s(-3, 0, 2), s(-1, 0, -2), s(0, 0, 1), s(1, 2, -3), s(2, 0, 3), s(1, 1, 2)}

Orders(shape) ==
  {[i \in DOMAIN shape |-> shape[p[i]]] :
     p \in {q \in [DOMAIN shape -> DOMAIN shape] : IsInjective(q) /\ q[1] = 3 /\ q[2] \in {1, 6}}}

Slope == <<f(0, 0, "up"), f(1, 1, "down"), f(7, 0, "up"), f(9, 0, "up"), f(7, 4, "down")>>

h(k, role, contact, obstacle, length, at) ==
  [k |-> k, role |-> role, contact |-> contact, obstacle |-> obstacle, length |-> length, at |-> at]

Program(t1, t2, hits, holder, retracts) ==
  [first |-> "T1", kinds |-> <<"rapid", "linear">>, holder |-> holder, retracts |-> retracts,
   reach |-> ("T1" :> t1) @@ ("T2" :> t2),
   hits |-> ("T1" :> hits) @@ ("T2" :> <<>>)]

Touch == {<<1, <<0, 0>>>>, <<2, <<2, 0>>>>, <<2, <<0, 2>>>>}
Near == <<h(1, 2, "near-miss", 0, 1, 0), h(2, 1, "near-miss", 1, 2, 1)>>
Crash == <<h(2, 1, "collision", 0, 1, 1), h(2, 1, "collision", 0, 3, 5), h(2, 2, "collision", 0, 2, 4),
           h(1, 0, "cutter-into-fixture", 1, 2, 4), h(1, 0, "near-miss", 1, 1, 0)>>

Good == Program(Touch, {<<1, <<0, 0>>>>}, Near, TRUE, 0)
Clear == Program(Touch, {}, <<>>, TRUE, 0)
Hits == Program(Touch, {}, Crash, TRUE, 0)
Bare == Program(Touch, {}, <<>>, FALSE, 0)
Retracting == Program(Touch, {}, <<>>, TRUE, 1)

OnlyClustered ==
  [samples : Orders(Chain) \cup Orders(Crossing), facets : {<<>>}]
    \cup [samples : [1 .. 3 -> Loose], facets : {<<f(-1, 3, "up"), f(1, 3, "up"), f(3, 3, None)>>}]

Judged == [samples : {Clean, OneGouge, Deeper, Shared, Left, Apart, Corners, Swapped}, facets : {Slope}]

Plain == [tol |-> TRUE, coarse |-> FALSE, allow |-> FALSE, path |-> TRUE, tools |-> TRUE,
          tool |-> None, split |-> FALSE, start |-> TRUE, out |-> "ok"]

Others == {[Plain EXCEPT !.tol = FALSE], [Plain EXCEPT !.coarse = TRUE],
           [Plain EXCEPT !.coarse = TRUE, !.allow = TRUE], [Plain EXCEPT !.path = FALSE],
           [Plain EXCEPT !.tools = FALSE], [Plain EXCEPT !.tool = "T2"], [Plain EXCEPT !.tool = "T3"],
           [Plain EXCEPT !.split = TRUE], [Plain EXCEPT !.start = FALSE],
           [Plain EXCEPT !.out = None], [Plain EXCEPT !.out = "unwritable"]}

MCFields == Judged \cup OnlyClustered

MCRequests == {<<Plain, Plain>>} \cup {<<Plain, o>> : o \in Others}
                \cup {<<o, o>> : o \in {r \in Others : r.allow \/ r.tool = "T2" \/ r.out = None}}

Disk(samples, program) ==
  [field |-> samples, nominal |-> "nominal", tools |-> "tools", split |-> "split",
   start |-> "start", program |-> program]

MCWorlds ==
  [requests : MCRequests, edits : {1},
   disk : {Disk(d, Good) : d \in Judged}
            \cup {Disk(d, p) : d \in {r \in Judged : r.samples = Clean}, p \in {Clear, Hits, Bare, Retracting}}]
  \cup
  [requests : {<<[Plain EXCEPT !.path = FALSE], [Plain EXCEPT !.tol = FALSE]>>}, edits : {0},
   disk : {Disk(d, Bad) : d \in OnlyClustered}]
  \cup
  [requests : {<<Plain, Plain>>}, edits : {2}, disk : {Disk(d, Clear) : d \in {r \in Judged : r.samples = Clean}}]

MCContents == ("field" :> Judged \cup {Bad}) @@ ("program" :> {Good, Hits, Bad})
                @@ ("start" :> {Bad}) @@ ("tools" :> {Bad}) @@ ("split" :> {Bad})
=================================================================================
