----------------------------- MODULE TerminalText -----------------------------
(***************************************************************************)
(* Model text and its terminal-safe rendering: render_model_text of        *)
(* crates/harness-cli/src/main.rs, and the size the same text has in a     *)
(* prompt and in a line of JSON.  A text is a sequence of runs of equal    *)
(* characters, so that texts at the limits of the code stay short here.    *)
(***************************************************************************)
EXTENDS Naturals, Sequences

(* The characters the code tells apart, each with its bytes in UTF-8 and in *)
(* a JSON string.  control is a C0 control but CR, LF, TAB, VT and FF, of   *)
(* which VT stands for both and is written as the longer; C1 is a control   *)
(* of two bytes but NEL, space2 and space3 are U+00A0 and the white space   *)
(* of three bytes, bidi2 is U+061C, bidi3 another bidi control, and wide    *)
(* any other character of three bytes.                                      *)
Bytes ==
    [letter |-> 1, space |-> 1, quote |-> 1, CR |-> 1, LF |-> 1, TAB |-> 1,
     VT |-> 1, control |-> 1, NEL |-> 2, C1 |-> 2, space2 |-> 2, space3 |-> 3,
     bidi2 |-> 2, bidi3 |-> 3, wide |-> 3]
JsonBytes ==
    [Bytes EXCEPT !.quote = 2, !.CR = 2, !.LF = 2, !.TAB = 2, !.VT = 6, !.control = 6]
Char == DOMAIN Bytes
Whitespace == {"space", "CR", "LF", "TAB", "VT", "NEL", "space2", "space3"}

Run(c, n) == [char |-> c, count |-> n]
ModelText == Seq([char : Char, count : Nat \ {0}])
SizeBy(width, text) ==
    LET size[n \in 0 .. Len(text)] ==
            IF n = 0 THEN 0 ELSE size[n - 1] + text[n].count * width[text[n].char]
    IN  size[Len(text)]

(* str::len, and the bytes serde_json writes for the text. *)
Size(text) == SizeBy(Bytes, text)
JsonSize(text) == SizeBy(JsonBytes, text)

(* trim().is_empty() *)
IsBlank(text) == \A i \in DOMAIN text : text[i].char \in Whitespace

-----------------------------------------------------------------------------
(* Defects for the mutation runs, each named for the definition it replaces. *)
ShouldEscapeControlsOnly(c) == c \in {"VT", "control", "NEL", "C1"}

IsBidiControl(c) == c \in {"bidi2", "bidi3"}
ShouldEscape(c) == c \in {"VT", "control", "NEL", "C1"} \/ IsBidiControl(c)

(* What is pushed for a run: the character as it is or as its escape, and   *)
(* how often.  CR is written as LF, and not at all before an LF.            *)
Written(text, i) ==
    LET c == text[i].char
        beforeLF == i < Len(text) /\ text[i + 1].char = "LF"
        count == text[i].count - (IF c = "CR" /\ beforeLF THEN 1 ELSE 0)
    IN  IF count = 0 THEN <<>>
        ELSE <<[char |-> IF c = "CR" THEN "LF" ELSE c,
                escaped |-> ShouldEscape(c), count |-> count]>>

LineEnd == [char |-> "LF", escaped |-> FALSE, count |-> 1]

(* The first n of the given sequences, one after the other. *)
Joined(pieces, n) ==
    LET upTo[m \in 0 .. n] == IF m = 0 THEN <<>> ELSE upTo[m - 1] \o pieces[m]
    IN  upTo[n]

(* render_model_text *)
Render(text) ==
    LET runs == Joined([i \in DOMAIN text |-> Written(text, i)], Len(text))
    IN  IF runs # <<>> /\ runs[Len(runs)].char = "LF" THEN runs ELSE Append(runs, LineEnd)
=============================================================================
