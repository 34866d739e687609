------------------------------ MODULE Catalog ------------------------------
(* Tools and their library: the standard forms drawn as profiles with a shank    *)
(* and holder (tool/catalog.rs), the tool built of one (tool/mod.rs), and the    *)
(* library file (tool/io.rs).                                                    *)
(*                                                                               *)
(* A drawing is [form, shank, ...dimensions]; a shank [diameter, overall,        *)
(* holder], a holder stage [bottom, top, length]. Diameters are even. `slope` is *)
(* the tangent of half the included angle, 0 for an angle out of range; "below"  *)
(* and "above" the range are one case. In the library file None is also a value  *)
(* of another type than the one asked for.                                       *)
EXTENDS Profile, Field

CONSTANT MaxNumber    \* stands for u32::MAX

Cutting == 0
NonCutting == 1
HolderRole == 2

Point == Int \X Int

Element ==
  [kind : {"segment"}, start : Point, end : Point, role : 0 .. 2]
    \union [kind : {"arc"}, start : Point, end : Point, role : 0 .. 2, center : Point, turn : {1, -1}]

Stage == [bottom : Int, top : Int, length : Int]

\* What each form is dimensioned by.
Dimensions ==
  [flat |-> {"diameter", "flute"}, ball |-> {"diameter", "flute"},
   bull |-> {"diameter", "corner", "flute"}, chamfer |-> {"diameter", "tip", "slope", "flute"},
   tapered |-> {"tip", "slope", "flute"}, drill |-> {"diameter", "slope", "flute"},
   barrel |-> {"diameter", "barrel", "flute"}, form |-> {}, holder |-> {}]

IsDrawing(d) ==
  /\ d.form \in DOMAIN Dimensions
  /\ d.shank \in [diameter : Int, overall : Int, holder : Seq(Stage)]
  /\ Dimensions[d.form] \subseteq DOMAIN d
  /\ \A f \in DOMAIN d \ {"form", "shank", "cutting", "pieces"} : d[f] \in IF f = "slope" THEN Nat ELSE Int
  /\ d.form = "form" => d.cutting \in Seq(Element)
-----------------------------------------------------------------------------
(* Chain: pieces of no length are dropped. *)
NewChain == [elements |-> <<>>, cursor |-> <<0, 0>>]

Extend(chain, e) ==
  IF e.end = e.start THEN chain
  ELSE [elements |-> Append(chain.elements, e), cursor |-> e.end]

line_to(chain, r, z, role) ==
  Extend(chain, [kind |-> "segment", start |-> chain.cursor, end |-> <<r, z>>, role |-> role])

arc_to(chain, r, z, center) ==
  Extend(chain, [kind |-> "arc", start |-> chain.cursor, end |-> <<r, z>>, role |-> Cutting,
                 center |-> center, turn |-> 1])

\* The caller's elements, as they are.
from_elements(cutting) ==
  [elements |-> cutting, cursor |-> IF cutting = <<>> THEN <<0, 0>> ELSE Last(cutting).end]

\* The stages one upon another.
Stack(chain, stages, from) ==
  LET at[n \in 0 .. Len(stages)] ==
        IF n = 0 THEN [z |-> from, chain |-> chain]
        ELSE LET s == stages[n]
                 foot == line_to(at[n - 1].chain, s.bottom \div 2, at[n - 1].z, HolderRole)
             IN [z |-> at[n - 1].z + s.length,
                 chain |-> line_to(foot, s.top \div 2, at[n - 1].z + s.length, HolderRole)]
  IN at[Len(stages)].chain

ShankAndHolder(chain, shank, flute_top) ==
  LET r == shank.diameter \div 2
  IN Stack(line_to(line_to(chain, r, flute_top, NonCutting), r, shank.overall, NonCutting),
           shank.holder, shank.overall)

StageChecks(stage) ==
  <<<<stage.bottom > 0, "NotPositive">>, <<stage.top > 0, "NotPositive">>,
    <<stage.length > 0, "NotPositive">>>>

\* The first stage grips the shank; the ones above may narrow.
ShankChecks(shank, flute_top) ==
  <<<<shank.diameter > 0, "NotPositive">>, <<shank.overall >= flute_top, "TooShort">>>>
    \o FlattenSeq([n \in DOMAIN shank.holder |->
         StageChecks(shank.holder[n])
           \o IF n = 1 THEN <<<<shank.holder[1].bottom >= shank.diameter, "HolderNarrowerThanShank">>>>
                       ELSE <<>>])
-----------------------------------------------------------------------------
(* The forms: what each refuses, in the order it looks, and the chain it draws   *)
(* up to the top of the flutes.                                                  *)
\* Height of a cone that widens by `rise`.
Cone(rise, slope) == IF slope = 0 THEN 0 ELSE rise \div slope

\* Height of a barrel's widest point.
Widest(barrel, half) ==
  LET away == half - barrel IN Root(Max({0, barrel * barrel - away * away}))

FormChecks(d) ==
  LET half == IF "diameter" \in DOMAIN d THEN d.diameter \div 2 ELSE 0
      Diameter == <<d.diameter > 0, "NotPositive">>
      Reaches(height) == <<d.flute >= height, "TooShort">>
      Angle == <<d.slope > 0, "OutOfRange">>
  IN CASE d.form = "flat" -> <<Diameter, <<d.flute > 0, "NotPositive">>>>
       [] d.form = "ball" -> <<Diameter, Reaches(half)>>
       [] d.form = "bull" -> <<Diameter, <<d.corner \in 0 .. half, "OutOfRange">>, Reaches(d.corner)>>
       [] d.form = "chamfer" -> <<Diameter, <<d.tip \in 0 .. d.diameter, "OutOfRange">>, Angle,
                                  Reaches(Cone(half - d.tip \div 2, d.slope))>>
       [] d.form = "tapered" -> <<<<d.tip >= 0, "NotFinite">>, Angle, <<d.flute > 0, "NotPositive">>>>
       [] d.form = "drill" -> <<Diameter, Angle, Reaches(Cone(half, d.slope))>>
       [] d.form = "barrel" -> <<Diameter, <<d.barrel >= half, "TooShort">>,
                                 Reaches(Widest(d.barrel, half))>>
       [] d.form = "form" -> <<>>
       [] d.form = "holder" -> <<<<d.shank.holder # <<>>, "EmptyHolder">>>>
                                 \o FlattenSeq([n \in DOMAIN d.shank.holder |->
                                      StageChecks(d.shank.holder[n])])

Flutes(d) ==
  LET half == IF "diameter" \in DOMAIN d THEN d.diameter \div 2 ELSE 0
      Up(chain) == line_to(chain, half, d.flute, Cutting)
      Out(r) == line_to(NewChain, r, 0, Cutting)
  IN CASE d.form = "flat" -> Up(Out(half))
       [] d.form = "ball" -> Up(arc_to(NewChain, half, half, <<0, half>>))
       [] d.form = "bull" -> Up(arc_to(Out(half - d.corner), half, d.corner,
                                       <<half - d.corner, d.corner>>))
       [] d.form = "chamfer" -> Up(line_to(Out(d.tip \div 2), half,
                                           Cone(half - d.tip \div 2, d.slope), Cutting))
       [] d.form = "tapered" -> line_to(Out(d.tip \div 2), d.tip \div 2 + d.flute * d.slope,
                                        d.flute, Cutting)
       [] d.form = "drill" -> Up(line_to(NewChain, half, Cone(half, d.slope), Cutting))
       [] d.form = "barrel" -> Up(arc_to(NewChain, half, Widest(d.barrel, half),
                                         <<half - d.barrel, Widest(d.barrel, half)>>))
       [] d.form = "form" -> from_elements(d.cutting)

\* The name of the first check that fails.
FirstFailed(checks) ==
  FirstFault([n \in DOMAIN checks |-> IF checks[n][1] THEN "None" ELSE checks[n][2]])

DrawnElements(d) ==
  IF d.form = "holder" THEN Stack(NewChain, d.shank.holder, 0).elements
  ELSE ShankAndHolder(Flutes(d), d.shank, Flutes(d).cursor[2]).elements

\* A holder alone has no shank under it. The shank's checks are made once the
\* form's have passed, the profile's once the shank's have.
drawing_fault(d) ==
  OrElse(FirstFailed(FormChecks(d)),
    OrElse(IF d.form = "holder" THEN "None" ELSE FirstFailed(ShankChecks(d.shank, Flutes(d).cursor[2])),
           profile_fault(DrawnElements(d))))
-----------------------------------------------------------------------------
(* Tool and ToolLibrary. An identifier is [name, padded, printable], the name a sequence. *)
id_fault(id) ==
  IF id.name = <<>> THEN "EmptyId"
  ELSE IF id.padded THEN "PaddedId"
  ELSE IF ~id.printable THEN "UnprintableId" ELSE "None"

\* The gauge line is never inside the tool.
gauge_fault(elements, gauge) ==
  IF gauge < total_length(elements) THEN "BadGaugeLength" ELSE "None"

duplicated(tools) ==
  \E i, j \in DOMAIN tools : i < j /\ (tools[i].id = tools[j].id \/ tools[i].number = tools[j].number)
-----------------------------------------------------------------------------
(* The library file, a JSON document: objects are records, arrays sequences, and *)
(* None stands for a value of a type the reader does not ask for.                *)
TOOL_FILE_SCHEMA == "chipbreaker.tool-library"
TOOL_FILE_VERSION == 2

RoleNames == <<"cutting", "non-cutting", "holder">>

element_to_json(e) ==
  IF e.kind = "arc"
  THEN [kind |-> e.kind, role |-> RoleNames[e.role + 1], start |-> e.start, end |-> e.end,
        center |-> e.center, direction |-> IF e.turn = 1 THEN "ccw" ELSE "cw"]
  ELSE [kind |-> e.kind, role |-> RoleNames[e.role + 1], start |-> e.start, end |-> e.end]

tool_to_json(tool) ==
  [id |-> tool.id, number |-> tool.number, description |-> tool.description,
   gauge_length |-> tool.gauge, profile |-> [n \in DOMAIN tool.profile |-> element_to_json(tool.profile[n])]]

library_to_json(tools) ==
  [schema |-> TOOL_FILE_SCHEMA, version |-> TOOL_FILE_VERSION,
   tools |-> [n \in DOMAIN tools |-> tool_to_json(tools[n])]]

IsObject(map) == map = [f \in DOMAIN map |-> map[f]]

IsArray(list) == list \in Seq({list[n] : n \in DOMAIN list})

AreObjects(list) == IsArray(list) /\ \A n \in DOMAIN list : IsObject(list[n])

Has(map, field) == field \in DOMAIN map /\ map[field] # None

\* Slip: a field of another name is passed over.
any_keys(map, allowed) == TRUE

known_keys(map, allowed) == DOMAIN map \subseteq allowed

PointCheck(map, field) ==
  <<<<Has(map, field), "MissingField">>,
    <<Has(map, field) => Len(map[field]) = 2, "BadValue">>,
    <<Has(map, field) => \A n \in DOMAIN map[field] : map[field][n] # None, "BadType">>>>

element_checks(map) ==
  LET arc == Has(map, "kind") /\ map.kind = "arc"
      keys == {"kind", "role", "start", "end"}
                \union IF arc THEN {"center", "direction"} ELSE {}
  IN <<<<Has(map, "kind"), "MissingField">>, <<Has(map, "role"), "MissingField">>,
       <<Has(map, "role") => map.role \in Range(RoleNames), "BadValue">>,
       <<Has(map, "kind") => map.kind \in {"segment", "arc"}, "BadValue">>,
       <<known_keys(map, keys), "UnknownField">>>>
     \o (IF arc THEN <<<<Has(map, "direction"), "MissingField">>,
                       <<Has(map, "direction") => map.direction \in {"ccw", "cw"}, "BadValue">>>>
         ELSE <<>>)
     \o PointCheck(map, "start") \o PointCheck(map, "end")
     \o (IF arc THEN PointCheck(map, "center") ELSE <<>>)

element_from_json(map) ==
  LET role == CHOOSE r \in 0 .. 2 : RoleNames[r + 1] = map.role
  IN IF map.kind = "arc"
     THEN [kind |-> map.kind, role |-> role, start |-> map.start, end |-> map.end,
           center |-> map.center, turn |-> IF map.direction = "ccw" THEN 1 ELSE -1]
     ELSE [kind |-> map.kind, role |-> role, start |-> map.start, end |-> map.end]

\* The objects of the array of tools.
AreTools(list) ==
  AreObjects(list) /\ \A n \in DOMAIN list : Has(list[n], "profile") => AreObjects(list[n].profile)

\* A description is optional; one that is not a string is none.
tool_from_json(map) ==
  [id |-> map.id, number |-> map.number, gauge |-> map.gauge_length,
   description |-> IF Has(map, "description") THEN map.description ELSE "",
   profile |-> [n \in DOMAIN map.profile |-> element_from_json(map.profile[n])]]

tool_keys == {"id", "number", "description", "gauge_length", "profile"}

\* The first thing wrong with a tool: its fields, its elements, the profile they
\* make and its length.
tool_fault(map) ==
  LET fields == FirstFailed(<<<<known_keys(map, tool_keys), "UnknownField">>,
                              <<Has(map, "id"), "MissingField">>,
                              <<Has(map, "id") => id_fault(map.id) = "None", "BadId">>,
                              <<Has(map, "number"), "MissingField">>,
                              <<Has(map, "number") => map.number <= MaxNumber, "BadValue">>,
                              <<Has(map, "gauge_length"), "MissingField">>,
                              <<Has(map, "profile"), "BadType">>>>)
      elements == OrElse(fields, FirstFailed(FlattenSeq([n \in DOMAIN map.profile |->
                                                           element_checks(map.profile[n])])))
      tool == tool_from_json(map)
  IN OrElse(elements, OrElse(profile_fault(tool.profile), gauge_fault(tool.profile, tool.gauge)))

from_json(document) == [n \in DOMAIN document.tools |-> tool_from_json(document.tools[n])]

library_fault(document) ==
  LET root == FirstFailed(<<<<known_keys(document, {"schema", "version", "tools"}), "UnknownField">>,
                            <<Has(document, "schema"), "MissingField">>,
                            <<Has(document, "schema") => document.schema = TOOL_FILE_SCHEMA, "WrongSchema">>,
                            <<Has(document, "version"), "MissingField">>,
                            <<Has(document, "version") => document.version = TOOL_FILE_VERSION,
                              "UnsupportedVersion">>,
                            <<Has(document, "tools"), "BadType">>>>)
  IN OrElse(root, OrElse(FirstFault([n \in DOMAIN document.tools |-> tool_fault(document.tools[n])]),
                         IF duplicated(from_json(document)) THEN "BadValue" ELSE "None"))
=============================================================================
