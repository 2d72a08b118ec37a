---------------------------- MODULE Conversation ----------------------------
(***************************************************************************)
(* What one Telegram update means: commands.py parses it, i18n.py resolves *)
(* the language, dispatch.py answers it in the chat or mints a job, whose  *)
(* request prompts.py frames.                                              *)
(*                                                                         *)
(* A text is a sequence of atoms, each a piece of text the parser cannot   *)
(* tell apart further: concatenation is concatenation of texts, so         *)
(* <<"dragon", "@bot">> is one word. Upper and lower case are one.         *)
(* StoryMaking takes the reaction on, from the job to the reply.           *)
(***************************************************************************)
EXTENDS Naturals, Sequences, FiniteSets, FiniteSetsExt

CONSTANTS
    Atoms,          \* pieces of text
    MaxAtoms,       \* bound: atoms in a message
    Hints           \* what Telegram says of the sender's language

ASSUME ConversationAssumption ==
    /\ Atoms \subseteq {" ", "newline", "lang:en", "lang:xx", "lang:", "/fairytale",
                        "/custom", "/surprise", "/family", "/start", "@bot",
                        "dragon"}
    /\ MaxAtoms \in Nat
    /\ \A h \in Hints : h \in Seq({"en", "ru", "he", "xx", "-", "US"})

Texts == UNION {[1 .. n -> Atoms] : n \in 0 .. MaxAtoms}
Updates == [chat : BOOLEAN, text : Texts, hint : Hints]

Languages == {"en", "ru", "he"}
Modes == {"fairytale", "custom", "random"}
NoJob == [mode |-> "none", wish |-> <<>>]
NotHandled == [result |-> "none", reply |-> "none", lang |-> "none", job |-> NoJob]

-----------------------------------------------------------------------------
(* Python's strip(), partition(" "), split("@", 1)[0], split("-")[0].      *)

IsSpace(a) == a \in {" ", "newline"}

Strip(s) ==
    LET kept == {i \in DOMAIN s : ~IsSpace(s[i])}
    IN  IF kept = {} THEN <<>> ELSE SubSeq(s, Min(kept), Max(kept))

FirstAt(s, a) == Min({i \in DOMAIN s : s[i] = a} \cup {Len(s) + 1})
Before(s, a) == SubSeq(s, 1, FirstAt(s, a) - 1)
After(s, a) == SubSeq(s, FirstAt(s, a) + 1, Len(s))

IsToken(a) == a \in {"lang:en", "lang:xx", "lang:"}
IsSlash(a) == a \in {"/fairytale", "/custom", "/surprise", "/family", "/start"}

-----------------------------------------------------------------------------
(* i18n.py, commands.py, prompts.py                                        *)

\* resolve(): the part before "-", or the default.
Resolve(code) ==
    LET base == Before(code, "-")
    IN  IF \E l \in Languages : base = <<l>> THEN base[1] ELSE "ru"

\* split_language_token(): the code behind "lang:", up to the first blank.
StartsWithToken(text) == text # <<>> /\ IsToken(text[1])
Code(text) ==
    IF ~StartsWithToken(text) THEN <<>>
    ELSE (CASE text[1] = "lang:en" -> <<"en">>
            [] text[1] = "lang:xx" -> <<"xx">>
            [] text[1] = "lang:"   -> <<>>) \o Tail(Before(text, " "))

\* Mutant: the rest of the message is not stripped.
WithoutTokenUnstripped(text) == IF StartsWithToken(text) THEN After(text, " ") ELSE text

\* The rest of split_language_token().
WithoutToken(text) == IF StartsWithToken(text) THEN Strip(After(text, " ")) ELSE text

\* head.split("@", 1)[0] of the first word, words ending at a blank.
Head1(text) == Before(Before(text, " "), "@bot")

\* parse_query()
IsFamilyQuery(text) == Head1(text) = <<"/family">>

\* parse_text(): plain text is a custom scene; an unknown command is none.
Mode(text) ==
    CASE ~IsSlash(text[1])              -> "custom"
      [] Head1(text) = <<"/fairytale">> -> "fairytale"
      [] Head1(text) = <<"/custom">>    -> "custom"
      [] Head1(text) = <<"/surprise">>  -> "random"
      [] OTHER                          -> "none"

\* What follows the command, or the whole of a plain text.
Args(text) == IF IsSlash(text[1]) THEN Strip(After(text, " ")) ELSE text

\* compose_request(): /surprise ignores what follows it.
Request(mode, args) == [mode |-> mode, wish |-> IF mode = "random" THEN <<>> ELSE args]

-----------------------------------------------------------------------------
(* Dispatcher.handle_update, without the failures of its calls (Intake).   *)

\* send_text() of an answer; nothing is enqueued.
Reply(lang, key) == [result |-> "handled", reply |-> key, lang |-> lang, job |-> NoJob]

\* The branches of handle_update, in its order.
Reaction(u, hasCast) ==
    LET raw  == Strip(u.text)
        code == Code(raw)
        lang == Resolve(IF code # <<>> THEN code ELSE u.hint)
        text == WithoutToken(raw)
    IN  IF ~u.chat \/ raw = <<>>
          THEN [NotHandled EXCEPT !.result = "ignored"]
        ELSE IF text = <<>> THEN Reply(lang, "menu")
        ELSE IF IsFamilyQuery(text)
          THEN Reply(lang, IF hasCast THEN "family_list" ELSE "family_empty")
        ELSE IF Mode(text) = "none" THEN Reply(lang, "greeting")
        ELSE [result |-> "accepted", reply |-> "ack", lang |-> lang,
              job |-> Request(Mode(text), Args(text))]
=============================================================================
