------------------------------- MODULE CommandMC -------------------------------
(* A small instance of Command for TLC: every sequence of up to three words *)
(* as the first command, then the commands that read what it left.          *)
EXTENDS Command, TLC

MCPromptOf ==
    ("" :> <<>>)
    @@ ("blank" :> <<Run("space3", 2), Run("NEL", 1)>>)
    @@ ("longest" :> <<Run("control", MAX_PROMPT_BYTES)>>)
    @@ ("too-long" :> <<Run("wide", MAX_PROMPT_BYTES \div 3), Run("letter", 3)>>)
    @@ ("mixed" :> <<Run("letter", 1), Run("CR", 1), Run("LF", 1), Run("bidi3", 1)>>)

Word == {"-h", "-V", "auth", "login", "logout", "status", "model", "test", "session", "list",
         "show", "ask", "openai-codex", "--", "not-utf8"} \cup DOMAIN MCPromptOf \cup Id

(* Up to three words, and one more than a command takes. *)
MCFirstArguments ==
    UNION {[1 .. n -> Word] : n \in 0 .. 3}
    \cup {Append(Usage[c], w) : c \in DOMAIN Usage, w \in Word}
    \cup {<<"ask", "openai-codex", "mixed", w>> : w \in Word}
    \cup {<<"session", "show", i, w>> : i \in Id, w \in Word}
MCLaterArguments ==
    {<<"session", "list">>} \cup {<<"session", "show", i>> : i \in Id}

(* Texts of every kind of character, of some that follow each other, and    *)
(* the longest.                                                             *)
MCAnswers ==
    {<<Run(c, 2)>> : c \in Char}
    \cup {<<Run("CR", 2), Run(c, 1)>> : c \in {"LF", "letter", "C1"}}
    \cup {<<Run("control", MAX_TEXT_BYTES)>>, <<Run("quote", MAX_TEXT_BYTES)>>}

IdSymmetry == Permutations(Id)
=============================================================================
