------------------------------- MODULE Parse -------------------------------
(* The stages of `parse` before the interpreter of Program: text into words     *)
(* (gcode/lex.rs) and words into blocks with at most one code of each modal     *)
(* group (gcode/block.rs), what they refuse and what they warn of (gcode/diag.rs).*)
(*                                                                              *)
(* A text is a sequence of lines, a line a sequence of items: what a character, *)
(* a number, a keyword or the marker of a foreign language is. An item has a    *)
(* field `is`; a letter its upper case in `of`; a number ten times its value in *)
(* `tenths`, whether it has a point and whether it has a sign. Lengths are      *)
(* counted in tenths. A site is a line and the place of an item in it, 0 for    *)
(* the whole line.                                                              *)
EXTENDS Program

CONSTANT Texts   \* the texts that are parsed

VARIABLE text    \* the text of the program, None for one that is given as blocks

parseVars == <<programVars, text>>
-----------------------------------------------------------------------------
(* Diagnostics *)
LexErrors == {"ForeignLanguage", "MacroProgramming", "OWord", "UnknownWord", "NotANumber"}
BlockErrors == {"CutterCompensation", "UnsupportedCode", "UnknownWord", "ModalGroupConflict"}

\* A site, an error and a warning have the same form; an error ends the parse.
Diagnostic(kind, line, column) == [kind |-> kind, line |-> line, column |-> column]

-----------------------------------------------------------------------------
(* lex: one item after the other.                                               *)

\* Between two lines: the blocks so far, the comment that is still open, and what
\* has been warned of; None as long as nothing has been refused.
NothingRead == [blocks |-> <<>>, open |-> None, warnings |-> <<>>, error |-> None]

\* Within a line also: whether anything but a blank came, whether a marker has
\* ended the line, and the letter that waits for its number, by its place.
BeginLine(s) ==
  [blocks |-> s.blocks, open |-> s.open, warnings |-> s.warnings, error |-> s.error,
   words |-> <<>>, skip |-> FALSE, seen |-> FALSE, tail |-> FALSE, letter |-> None]

Refusing(s, kind, l, i) == [s EXCEPT !.error = Diagnostic(kind, l, i)]

Warning(s, kind, l, i) == [s EXCEPT !.warnings = Append(@, Diagnostic(kind, l, i))]

\* A comment runs to the first closing parenthesis, past the end of its line too.
InComment(s, item, l, i) ==
  CASE item.is = "close" -> [s EXCEPT !.open = None]
    [] item.is = "open" -> Warning(s, "NestedComment", l, i)
    [] OTHER -> s

\* The number of a letter; blanks may come between.
read_number(s, item, l, i) ==
  CASE item.is = "blank" -> s
    [] item.is = "number" ->
         [s EXCEPT !.words = Append(@, [letter |-> s.letter.of, tenths |-> item.tenths,
                                        point |-> item.point, column |-> s.letter.at]),
                   !.letter = None]
    [] OTHER -> Refusing(s, "NotANumber", l, s.letter.at)

\* An item that may begin a word, a comment or the end of the line.
BeginItem(s, item, l, i) ==
  CASE item.is = "blank" -> s
    [] item.is = "slash" /\ ~s.seen -> [s EXCEPT !.skip = TRUE, !.seen = TRUE]
    [] item.is \in {"percent", "semicolon"} -> [s EXCEPT !.tail = TRUE]
    [] item.is = "open" -> [s EXCEPT !.open = [line |-> l, column |-> i], !.seen = TRUE]
    [] item.is = "close" -> Warning(s, "UnbalancedComment", l, i)
    [] item.is \in {"hash", "keyword"} -> Refusing(s, "MacroProgramming", l, i)
    [] item.is = "o" -> Refusing(s, "OWord", l, i)
    [] item.is = "letter" -> [s EXCEPT !.letter = [of |-> item.of, at |-> i], !.seen = TRUE]
    [] OTHER -> Refusing(s, "UnknownWord", l, i)

LexItem(s, item, l, i) ==
  IF s.error # None \/ s.tail THEN s
  ELSE IF s.letter # None THEN read_number(s, item, l, i)
  ELSE IF s.open # None THEN InComment(s, item, l, i)
  ELSE BeginItem(s, item, l, i)

\* Slip: a comment is carried on without a word.
CarriedOn(s, l) ==
  LET t == IF s.error = None /\ s.letter # None THEN Refusing(s, "NotANumber", l, s.letter.at) ELSE s
  IN  [blocks |-> Append(t.blocks, [words |-> t.words, skip |-> t.skip, line |-> l]),
       open |-> t.open, warnings |-> t.warnings, error |-> t.error]

\* A comment this line opened and did not close is warned of, and carried on.
EndLine(s, l) ==
  LET t == IF s.error # None THEN s
           ELSE IF s.letter # None THEN Refusing(s, "NotANumber", l, s.letter.at)
           ELSE IF s.open # None /\ s.open.line = l
           THEN Warning(s, "UnbalancedComment", l, s.open.column)
           ELSE s
  IN  [blocks |-> Append(t.blocks, [words |-> t.words, skip |-> t.skip, line |-> l]),
       open |-> t.open, warnings |-> t.warnings, error |-> t.error]

LexLine(s, line, l) ==
  LET after[i \in 0 .. Len(line)] ==
        IF i = 0 THEN BeginLine(s) ELSE LexItem(after[i - 1], line[i], l, i)
  IN  IF s.error # None THEN s ELSE EndLine(after[Len(line)], l)

\* A marker of another language anywhere in the line, comments included; and what
\* Siemens calls a parameter, R and digits before an equals sign.
Foreign(line) ==
  \/ \E i \in DOMAIN line : line[i].is = "marker"
  \/ \E i \in DOMAIN line, j \in DOMAIN line :
       /\ line[i].is = "letter" /\ line[i].of = "R"
       /\ i + 1 < j /\ line[i + 1].is = "number" /\ ~line[i + 1].point /\ ~line[i + 1].sign
       /\ line[j].is = "equals"
       /\ \A k \in i + 2 .. j - 1 : line[k].is = "blank"

\* The whole text is searched for another language before any of it is read.
detect_foreign(lines) == {l \in DOMAIN lines : Foreign(lines[l])}

lex(lines) ==
  LET after[l \in 0 .. Len(lines)] ==
        IF l = 0 THEN NothingRead ELSE LexLine(after[l - 1], lines[l], l)
  IN  IF detect_foreign(lines) # {}
      THEN Refusing(NothingRead, "ForeignLanguage", Min(detect_foreign(lines)), 0)
      ELSE after[Len(lines)]
-----------------------------------------------------------------------------
(* assemble *)
code_key(word) == IF word.tenths \in 0 .. 10000 THEN word.tenths ELSE -1

as_u32(word) == (word.tenths + 5) \div 10

GGroups ==
  [motion |-> {0, 10, 20, 30, 330, 331, 382, 383, 384, 385, 730, 740, 760} \cup (800 .. 890),
   plane |-> {170, 180, 190}, distance |-> {900, 910}, arc_distance |-> {901, 911},
   feed_mode |-> {930, 940, 950}, units |-> {200, 210}, cutter_comp |-> {400, 410, 420},
   tool_length |-> {430, 431, 440, 490}, cycle_return |-> {980, 990},
   work_offset |-> {540, 550, 560, 570, 580, 590, 591, 592, 593},
   path_control |-> {610, 611, 640},
   nonmodal |-> {40, 100, 280, 281, 300, 301, 530, 920, 921, 922, 923}]

MGroups ==
  [stopping |-> {0, 10, 20, 300, 600}, spindle |-> {30, 40, 50}, tool_change |-> {60},
   coolant |-> {70, 80, 90}]

\* The slots of a block, by the letter that fills them.
Slots == {"X", "Y", "Z", "A", "B", "C", "I", "J", "K", "R", "F", "S", "T", "H", "D", "P", "Q",
          "L", "N", "O"}

Keys(raw, letter) == {code_key(w) : w \in {x \in Range(raw.words) : x.letter = letter}}

\* Why a word is refused.
word_fault(word) ==
  IF word.letter = "G"
  THEN IF code_key(word) \in {410, 420} THEN "CutterCompensation"
       ELSE IF \A g \in DOMAIN GGroups : code_key(word) \notin GGroups[g] THEN "UnsupportedCode"
       ELSE None
  ELSE IF word.letter \notin Slots \cup {"M"} THEN "UnknownWord" ELSE None

\* Two codes of one group, also if they are the same one.
conflict(raw) ==
  \E i, j \in DOMAIN raw.words :
    /\ i < j /\ raw.words[i].letter = raw.words[j].letter
    /\ \/ /\ raw.words[i].letter = "G"
          /\ \E g \in DOMAIN GGroups :
               {code_key(raw.words[i]), code_key(raw.words[j])} \subseteq GGroups[g]
       \/ /\ raw.words[i].letter = "M"
          /\ \E g \in DOMAIN MGroups :
               {code_key(raw.words[i]), code_key(raw.words[j])} \subseteq MGroups[g]

\* The first word that is refused, or the block whose codes conflict.
assemble_error(raw) ==
  LET bad == {i \in DOMAIN raw.words : word_fault(raw.words[i]) # None}
  IN  IF bad # {}
      THEN Diagnostic(word_fault(raw.words[Min(bad)]), raw.line, raw.words[Min(bad)].column)
      ELSE IF conflict(raw) THEN Diagnostic("ModalGroupConflict", raw.line, 0)
      ELSE None

\* What the interpreter's codes are called in Resolver; of the others it knows
\* only that they are some code of their group.
render_code ==
  (0 :> "G0") @@ (10 :> "G1") @@ (20 :> "G2") @@ (30 :> "G3") @@ (730 :> "G73") @@ (800 :> "G80")
    @@ (810 :> "G81") @@ (820 :> "G82") @@ (830 :> "G83") @@ (840 :> "G84") @@ (740 :> "G74")
    @@ (850 :> "G85") @@ (860 :> "G86") @@ (870 :> "G87") @@ (880 :> "G88") @@ (890 :> "G89")
    @@ (170 :> "G17") @@ (180 :> "G18") @@ (190 :> "G19") @@ (901 :> "G90.1") @@ (911 :> "G91.1")
    @@ (930 :> "G93") @@ (940 :> "G94") @@ (950 :> "G95")
    @@ (610 :> "G61") @@ (611 :> "G61.1") @@ (640 :> "G64")
    @@ (200 :> "G20") @@ (210 :> "G21") @@ (900 :> "G90") @@ (910 :> "G91")
    @@ (980 :> "G98") @@ (990 :> "G99") @@ (430 :> "G43") @@ (440 :> "G44")
    @@ (431 :> "G49") @@ (490 :> "G49")
    @@ (40 :> "G4") @@ (100 :> "G10") @@ (280 :> "G28") @@ (300 :> "G30") @@ (530 :> "G53")
    @@ (920 :> "G92") @@ (921 :> "G92.1") @@ (922 :> "G92.1") @@ (923 :> "G92.3")

Rendered(key) == IF key \in DOMAIN render_code THEN render_code[key] ELSE "G?"

RenderedM ==
  (0 :> "M0") @@ (10 :> "M1") @@ (20 :> "M2") @@ (30 :> "M3") @@ (40 :> "M4") @@ (50 :> "M5")
    @@ (60 :> "M6") @@ (200 :> "M20") @@ (300 :> "M30") @@ (980 :> "M98") @@ (990 :> "M99")

\* G54 is 1, G59 is 6, G59.1 is 7.
WorkOffsetId(key) == IF key % 10 = 0 THEN (key - 530) \div 10 ELSE 6 + (key % 10)

\* The fields of Resolver's blocks and what fills them. The other letters are left
\* out there, and what G40 cancels is refused.
Measures == [x |-> "X", z |-> "Z", f |-> "F", s |-> "S", q |-> "Q", r |-> "R"]
Counts == [t |-> "T", h |-> "H", p |-> "P", l |-> "L", o |-> "O"]
ModalFields == DOMAIN GGroups \ {"cutter_comp"}

\* Slip: the first word of a letter counts.
Earliest(raw, letter) ==
  raw.words[Min({i \in DOMAIN raw.words : raw.words[i].letter = letter})]

\* Of several words with one letter the last counts.
Latest(raw, letter) ==
  raw.words[Max({i \in DOMAIN raw.words : raw.words[i].letter = letter})]

Named(raw, letter) == \E i \in DOMAIN raw.words : raw.words[i].letter = letter

WithoutPoint(raw) ==
  \E letter \in {"X", "Z"} : Named(raw, letter) /\ ~Latest(raw, letter).point

CodeOf(raw, g) == CHOOSE key \in Keys(raw, "G") : key \in GGroups[g]

Fields(raw) ==
  {n \in DOMAIN Measures : Named(raw, Measures[n])}
    \cup {n \in DOMAIN Counts : Named(raw, Counts[n]) /\ Latest(raw, Counts[n]).tenths >= 0}
    \cup {g \in ModalFields : \E key \in Keys(raw, "G") : key \in GGroups[g]}
    \cup {n \in {"m"} : Named(raw, "M")} \cup {n \in {"skip"} : raw.skip}
    \cup {n \in {"nopoint"} : WithoutPoint(raw)}

assemble_block(raw) ==
  [n \in Fields(raw) |->
     CASE n \in DOMAIN Measures -> Latest(raw, Measures[n]).tenths
       [] n \in DOMAIN Counts -> as_u32(Latest(raw, Counts[n]))
       [] n = "work_offset" -> WorkOffsetId(CodeOf(raw, n))
       [] n \in ModalFields \ {"work_offset"} -> Rendered(CodeOf(raw, n))
       [] n = "m" -> {IF key \in DOMAIN RenderedM THEN RenderedM[key] ELSE "M?" : key \in Keys(raw, "M")}
       [] n \in {"skip", "nopoint"} -> TRUE]
-----------------------------------------------------------------------------
(* parse *)

\* The lines that carry words, assembled when all is read; the first thing the text
\* is refused for; what was warned of. `at` holds the line of each block.
parse(lines) ==
  LET read == lex(lines)
      worded == SelectSeq(read.blocks, LAMBDA raw : raw.words # <<>>)
      faults == SelectSeq(worded, LAMBDA raw : assemble_error(raw) # None)
      refusal == IF read.error # None THEN read.error
                 ELSE IF faults # <<>> THEN assemble_error(faults[1]) ELSE None
      accepted == IF refusal = None THEN worded ELSE <<>>
  IN  [refusal |-> refusal, warnings |-> read.warnings,
       blocks |-> [n \in DOMAIN accepted |-> assemble_block(accepted[n])],
       at |-> [n \in DOMAIN accepted |-> accepted[n].line]]

\* A text that is refused, or has no words, is a program without blocks.
ASSUME ParseAssumption ==
  /\ None \notin Texts
  /\ <<>> \in Programs
  /\ {parse(lines).blocks : lines \in Texts} \subseteq Programs

\* A text that is refused is not interpreted.
ParseInit ==
  \/ text = None /\ ProgramInit
  \/ /\ text \in Texts
     /\ program = parse(text).blocks /\ trace = <<>> /\ PowerUp
     /\ IF parse(text).refusal = None
        THEN status = "running" /\ stack = <<Frame(1, Len(program))>>
        ELSE status = "error" /\ stack = <<>>

ParseNext == ProgramNext /\ UNCHANGED text

ParseSpec == ParseInit /\ [][ParseNext]_parseVars /\ Progress
-----------------------------------------------------------------------------
(* Properties. Where a reader of the text sees a comment and the end of a line. *)
Seen(line, i, is) == Cardinality({j \in 1 .. i - 1 : line[j].is = is})

Commented(line, i) == Seen(line, i, "open") > Seen(line, i, "close")

\* The items of a line that are no comment and stand before its end.
Visible(line) ==
  {i \in DOMAIN line :
     /\ ~Commented(line, i)
     /\ \A j \in 1 .. i - 1 : line[j].is \in {"percent", "semicolon"} => Commented(line, j)}

LettersAt(line) == {i \in Visible(line) : line[i].is = "letter"}

NumberAfter(line, i) == line[Min({j \in DOMAIN line : j > i /\ line[j].is # "blank"})]

\* The last value the line gives a letter.
ValueOf(line, letter) ==
  NumberAfter(line, Max({i \in LettersAt(line) : line[i].of = letter})).tenths

\* The block says what the line says: the lengths, the modal codes, the slash.
Says(block, line) ==
  /\ \A f \in DOMAIN Measures :
       IF \E i \in LettersAt(line) : line[i].of = Measures[f]
       THEN f \in DOMAIN block /\ block[f] = ValueOf(line, Measures[f])
       ELSE f \notin DOMAIN block
  /\ \A g \in ModalFields :
       Cardinality({i \in LettersAt(line) :
           line[i].of = "G" /\ NumberAfter(line, i).tenths \in GGroups[g]})
         = (IF g \in DOMAIN block THEN 1 ELSE 0)
  /\ "skip" \in DOMAIN block <=> \E i \in Visible(line) : line[i].is = "slash"

\* The first line whose comments do not end where they should.
Muddled(lines) ==
  LET sites == {w.line : w \in Range(parse(lines).warnings)}
  IN  IF sites = {} THEN Len(lines) + 1 ELSE Min(sites)

\* "The program cannot be turned into a toolpath without guessing, and guessing is
\* the failure mode this project has already decided never to accept" (diag.rs:8):
\* a text is refused at a place in it, or each of its lines is one block that says
\* what the line says to a reader, or no block if it says nothing; unless a warning
\* about a comment has been given by then. About lex, read_number and assemble.
NothingIsSilent ==
  LET parsed == parse(text)
      refusal == parsed.refusal
      Mine(l) == {n \in DOMAIN parsed.at : parsed.at[n] = l}
  IN  text # None =>
        IF refusal # None
        THEN /\ refusal.kind \in LexErrors \cup BlockErrors
             /\ refusal.line \in DOMAIN text /\ refusal.column \in 0 .. Len(text[refusal.line])
        ELSE \A l \in 1 .. Muddled(text) - 1 :
               IF LettersAt(text[l]) = {} THEN Mine(l) = {}
               ELSE \E n \in DOMAIN program : Mine(l) = {n} /\ Says(program[n], text[l])
=============================================================================
