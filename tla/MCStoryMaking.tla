--------------------------- MODULE MCStoryMaking ----------------------------
(* Small instances of StoryMaking for TLC.                                 *)
EXTENDS StoryMaking

\* Telegram says nothing of the sender's language, or one with a region.
SomeHints == {<<>>, <<"he", "-", "US">>}

Person(i, n, a) == [id |-> i, names |-> [l \in {"en", "ru"} |-> n],
                    appearance |-> a, english |-> TRUE]
Ids == <<"a", "b", "c", "d", "e", "f", "g", "h", "i">>

\* A small cast; the largest one; one too many; one description too long; one
\* not in English; one without an English name; one named in a language the bot
\* does not speak; an id given twice; no character.
Family   == <<Person("a", 4, 80), Person("b", 1, 10)>>
FullCast == [i \in 1 .. 8 |-> Person(Ids[i], MaxName, MaxAppearance)]
Crowd    == [i \in 1 .. 9 |-> Person(Ids[i], 4, 80)]
TooLong  == <<Person("a", 4, 80), Person("b", 4, MaxAppearance + 1)>>
Foreign  == <<Person("a", 4, 80), [Person("b", 4, 80) EXCEPT !.english = FALSE]>>
Unnamed  == <<[Person("a", 4, 80) EXCEPT !.names = [l \in {"ru"} |-> 4]]>>
Babel    == <<[Person("a", 4, 80) EXCEPT !.names = [l \in {"en", "xx"} |-> 4]]>>
Twice    == <<Person("a", 4, 80), Person("a", 5, 90)>>
Empty    == <<>>

AllFiles == {Absent, Family, FullCast, Crowd, TooLong, Foreign, Unnamed, Babel,
             Twice, Empty}
=============================================================================
