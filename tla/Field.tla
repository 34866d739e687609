-------------------------------- MODULE Field --------------------------------
(* Dexel fields: where the rays of a bundle are (dexel/lattice.rs), the spans a  *)
(* ray's crossings become (dexel/field.rs), and the corners the three bundles of *)
(* a tri-dexel field must share (dexel/tri.rs).                                  *)
(*                                                                               *)
(* Spacings and extents are even, so that every ray passes through whole         *)
(* coordinates. A field is [lattice, arena, placement], its arena the spans of   *)
(* each ray, from 1; a span is [t0, t1, n0, n1], each bound with its outward     *)
(* normal. A bundle that was not built is None.                                  *)
EXTENDS Rays

CONSTANT None    \* no bundle, no mesh, nothing read yet

AXES == <<1, 2, 3>>

cyclic(axis) == <<<<2, 3, 1>>, <<3, 1, 2>>, <<1, 2, 3>>>>[axis]

\* What a span read from a file without normals carries.
PLACEHOLDER == <<0, 0, 0>>

Larger(a, b) == IF a >= b THEN a ELSE b
-----------------------------------------------------------------------------
(* Lattice *)
anisotropic(bounds, spacing, axis) ==
  LET c == cyclic(axis)
      extent == [l \in 1 .. 3 |-> bounds.max[l] - bounds.min[l]]
      count == [n \in 1 .. 2 |->
                  Larger(1, (extent[c[n]] + spacing[c[n]] - 1) \div spacing[c[n]])]
  IN [axis |-> axis, origin |-> bounds.min, spacing |-> <<spacing[c[1]], spacing[c[2]]>>,
      counts |-> count, extent |-> <<extent[c[1]], extent[c[2]]>>, length |-> extent[c[3]]]

spacing_max(lattice) == Larger(lattice.spacing[1], lattice.spacing[2])

ray_count(lattice) == lattice.counts[1] * lattice.counts[2]

\* Rays and lattice coordinates both count from 0.
index(lattice, i, j) == i * lattice.counts[2] + j

coords(lattice, ray) == <<ray \div lattice.counts[2], ray % lattice.counts[2]>>

\* (i + 1/2) cells from a corner moved down by half the slack of the cells.
Centre(lattice, n, i) ==
  ((2 * i + 1) * lattice.spacing[n] - (lattice.counts[n] * lattice.spacing[n] - lattice.extent[n]))
    \div 2

\* A ray starts a cell behind the workspace.
origin_of(lattice, i, j) ==
  LET c == cyclic(lattice.axis)
  IN [lattice.origin EXCEPT ![c[1]] = @ + Centre(lattice, 1, i),
                            ![c[2]] = @ + Centre(lattice, 2, j),
                            ![c[3]] = @ - spacing_max(lattice)]

ray_at(lattice, ray) ==
  LET c == coords(lattice, ray)
  IN [origin |-> origin_of(lattice, c[1], c[2]), w |-> lattice.axis]
-----------------------------------------------------------------------------
(* DexelField::build, one ray *)
grow(bounds, margin) ==
  IF margin <= 0 THEN bounds
  ELSE [min |-> [l \in 1 .. 3 |-> bounds.min[l] - margin],
        max |-> [l \in 1 .. 3 |-> bounds.max[l] + margin]]

with_normals(mesh, a, b) ==
  [t0 |-> a.t, t1 |-> b.t, n0 |-> face_normal(mesh, a.triangle), n1 |-> face_normal(mesh, b.triangle)]

\* Hits in order of the parameter bound material two by two.
Pairs(mesh, hits) ==
  [n \in 1 .. Len(hits) \div 2 |-> with_normals(mesh, hits[2 * n - 1], hits[2 * n])]

\* A span that starts at or before the end of the last one joins it.
Merge(spans, span) ==
  IF spans # <<>> /\ AtOrBefore(span.t0, Last(spans).t1)
  THEN IF Precedes(Last(spans).t1, span.t1)
       THEN [spans EXCEPT ![Len(spans)].t1 = span.t1, ![Len(spans)].n1 = span.n1]
       ELSE spans
  ELSE Append(spans, span)

SpansOf(mesh, hits) ==
  LET pairs == Pairs(mesh, hits)
      merged[n \in 0 .. Len(pairs)] == IF n = 0 THEN <<>> ELSE Merge(merged[n - 1], pairs[n])
  IN merged[Len(pairs)]
-----------------------------------------------------------------------------
(* TriDexelField. A bundle sees a world axis when that axis is one of its two   *)
(* transverse ones; `Which` is which of the two.                                *)
Sees(bundle, axis, world) == bundle # None /\ world # axis

Which(axis, world) == IF cyclic(axis)[1] = world THEN 1 ELSE 2

CornersSeen(bundle, axis, world) ==
  [k \in 1 .. bundle.lattice.counts[Which(axis, world)] |->
     bundle.lattice.origin[world] + Centre(bundle.lattice, Which(axis, world), k - 1)]

\* From the first bundle that sees the axis; none with too few bundles.
corner_coordinates(bundles, world) ==
  LET seeing == {a \in 1 .. 3 : Sees(bundles[a], a, world)}
  IN IF seeing = {} THEN <<>> ELSE CornersSeen(bundles[Min(seeing)], Min(seeing), world)

check_registration(bundles) ==
  \A world \in 1 .. 3 : \A a, b \in {x \in 1 .. 3 : Sees(bundles[x], x, world)} :
    CornersSeen(bundles[a], a, world) = CornersSeen(bundles[b], b, world)
-----------------------------------------------------------------------------
(* What a field is made of, whatever its values. *)
IsSpan(s) == s = [t0 |-> s.t0, t1 |-> s.t1, n0 |-> s.n0, n1 |-> s.n1]

IsSpanList(spans) ==
  /\ Len(spans) \in Nat /\ spans = [n \in 1 .. Len(spans) |-> spans[n]]
  /\ \A n \in 1 .. Len(spans) : IsSpan(spans[n])

\* Every ray of the lattice has its spans.
IsField(b) ==
  LET l == b.lattice
  IN /\ b = [lattice |-> l, arena |-> b.arena, placement |-> b.placement]
     /\ l = [axis |-> l.axis, origin |-> l.origin, spacing |-> <<l.spacing[1], l.spacing[2]>>,
             counts |-> <<l.counts[1], l.counts[2]>>, extent |-> l.extent, length |-> l.length]
     /\ l.axis \in 1 .. 3
     /\ Len(b.arena) \in Nat /\ Len(b.arena) = ray_count(l)
     /\ b.arena = [r \in 1 .. Len(b.arena) |-> b.arena[r]]
     /\ \A r \in 1 .. Len(b.arena) : IsSpanList(b.arena[r])

IsTri(tri) ==
  /\ tri = [provenance |-> tri.provenance, bundles |-> [a \in 1 .. 3 |-> tri.bundles[a]]]
  /\ \A a \in 1 .. 3 : tri.bundles[a] = None \/ IsField(tri.bundles[a])
-----------------------------------------------------------------------------
(* Field files (dexel/io.rs): `.dexel` holds one bundle, `.tdx` three with where *)
(* they came from. A file is a sequence of values, each read whole or not at     *)
(* all; a value is named by its place, so a reader that takes one too many or    *)
(* too few misreads everything behind it.                                        *)
(*                                                                               *)
(* `write` takes the version to write. The program writes FORMAT_VERSION only;   *)
(* files of versions 2 and 3 are what its earlier releases wrote: one spacing    *)
(* for both directions, and in version 2 no normals.                             *)
MAGIC == "CBDEXEL"
TDX_MAGIC == "CBTDX"
FORMAT_VERSION == 4
TDX_FORMAT_VERSION == 1
-----------------------------------------------------------------------------
axis_code(axis) == axis - 1

SpanRecord(version, s) ==
  IF version >= 3 THEN <<s.t0, s.t1, s.n0, s.n1>> ELSE <<s.t0, s.t1>>

write(field, version) ==
  LET l == field.lattice
      Records(spans) == FlattenSeq([n \in DOMAIN spans |-> SpanRecord(version, spans[n])])
      rays == [r \in DOMAIN field.arena |-> <<Len(field.arena[r])>> \o Records(field.arena[r])]
      total == Len(FlattenSeq(field.arena))
  IN <<MAGIC, version, axis_code(l.axis), l.counts[1], l.counts[2], l.origin>>
       \o (IF version >= 4 THEN l.spacing ELSE <<l.spacing[1]>>)
       \o <<l.length, l.extent, field.placement, Len(field.arena), total>>
       \o FlattenSeq(rays)

write_tri(tri, version) ==
  <<TDX_MAGIC, TDX_FORMAT_VERSION, tri.provenance>>
    \o FlattenSeq([a \in 1 .. 3 |-> IF tri.bundles[a] = None THEN <<0>>
                                    ELSE <<1>> \o write(tri.bundles[a], version)])
-----------------------------------------------------------------------------
(* Reading. Every reader is given the file and where it stands, and returns     *)
(* [next, got], or [next |-> 0, got |-> why] when it cannot go on.              *)
Failed(why) == [next |-> 0, got |-> why]

Holds(file, at, values) == at + values - 1 <= Len(file)

\* What was read so far and one thing more.
Then(before, one) ==
  IF before.next = 0 THEN before
  ELSE IF one.next = 0 THEN one
  ELSE [next |-> one.next, got |-> Append(before.got, one.got)]

read_spans(file, at, version) ==
  LET width == IF version >= 3 THEN 4 ELSE 2
  IN IF ~Holds(file, at, 1) \/ ~Holds(file, at + 1, file[at] * width) THEN Failed("Truncated")
     ELSE [next |-> at + 1 + file[at] * width,
           got |-> [n \in 1 .. file[at] |->
                      LET s == at + 1 + (n - 1) * width
                      IN [t0 |-> file[s], t1 |-> file[s + 1],
                          n0 |-> IF version >= 3 THEN file[s + 2] ELSE PLACEHOLDER,
                          n1 |-> IF version >= 3 THEN file[s + 3] ELSE PLACEHOLDER]]]

\* Behind the version: the axis to the placement, then the two totals.
HeaderWidth(version) == IF version >= 4 THEN 11 ELSE 10

\* Slip: spans past the total pass.
RecountAtLeast(arena, total) == Len(FlattenSeq(arena)) >= total

Recount(arena, total) == Len(FlattenSeq(arena)) = total

read_body(file, at, version) ==
  LET cells == IF version >= 4 THEN 2 ELSE 1
      lattice == [axis |-> file[at] + 1, counts |-> <<file[at + 1], file[at + 2]>>,
                  origin |-> file[at + 3],
                  spacing |-> <<file[at + 4], file[at + 3 + cells]>>,
                  length |-> file[at + 4 + cells], extent |-> file[at + 5 + cells]]
      rays == file[at + 7 + cells]
      records[r \in 0 .. rays] ==
        IF r = 0 THEN [next |-> at + HeaderWidth(version), got |-> <<>>]
        ELSE LET before == records[r - 1] IN Then(before, read_spans(file, before.next, version))
      arena == records[rays]
  IN IF file[at] \notin 0 .. 2 THEN Failed("BadHeader")
     ELSE IF rays # ray_count(lattice) THEN Failed("CountMismatch")
     ELSE IF arena.next = 0 THEN Failed("Truncated")
     ELSE IF ~Recount(arena.got, file[at + 8 + cells]) THEN Failed("CountMismatch")
     ELSE [next |-> arena.next,
           got |-> [lattice |-> lattice, arena |-> arena.got, placement |-> file[at + 6 + cells]]]

\* A version it does not know is refused before anything else is read.
read(file, at) ==
  IF ~Holds(file, at, 1) THEN Failed("Truncated")
  ELSE IF file[at] # MAGIC THEN Failed("NotADexelFile")
  ELSE IF ~Holds(file, at, 2) THEN Failed("Truncated")
  ELSE IF file[at + 1] = 0 \/ file[at + 1] > FORMAT_VERSION THEN Failed("UnknownVersion")
  ELSE IF ~Holds(file, at + 2, HeaderWidth(file[at + 1])) THEN Failed("Truncated")
  ELSE read_body(file, at + 2, file[at + 1])

read_bundle(file, at) ==
  IF ~Holds(file, at, 1) THEN Failed("Truncated")
  ELSE IF file[at] = 0 THEN [next |-> at + 1, got |-> None]
  ELSE IF file[at] = 1 THEN read(file, at + 1)
  ELSE Failed("BadHeader")

read_tri(file) ==
  LET bundles[a \in 0 .. 3] ==
        IF a = 0 THEN [next |-> 4, got |-> <<>>]
        ELSE LET before == bundles[a - 1] IN Then(before, read_bundle(file, before.next))
      all == bundles[3]
  IN IF ~Holds(file, 1, 1) THEN Failed("Truncated")
     ELSE IF file[1] # TDX_MAGIC THEN Failed("NotADexelFile")
     ELSE IF ~Holds(file, 1, 2) THEN Failed("Truncated")
     ELSE IF file[2] # TDX_FORMAT_VERSION THEN Failed("UnknownVersion")
     ELSE IF ~Holds(file, 1, 3) THEN Failed("Truncated")
     ELSE IF all.next = 0 THEN all
     ELSE [next |-> all.next, got |-> [provenance |-> file[3], bundles |-> all.got]]

\* What a file holds, by its first value.
detect(file) == IF file = <<>> THEN "None"
                ELSE IF file[1] = MAGIC THEN "Single"
                ELSE IF file[1] = TDX_MAGIC THEN "Tri" ELSE "None"
=============================================================================
