------------------------- MODULE StoryMaking_proof --------------------------
(***************************************************************************)
(* Proofs about StoryMaking, for any texts and languages of updates, any   *)
(* registry files and answers of any number of lines.                      *)
(***************************************************************************)
EXTENDS StoryMaking, FiniteSetTheorems, SequenceTheorems, TLAPS

-----------------------------------------------------------------------------
(* Numbers: there is no induction over data, but a smallest counterexample. *)

LEMMA SmallestOf ==
    ASSUME NEW T, T \subseteq Nat, T # {}
    PROVE  \E m \in T : \A t \in T : m <= t
<1> DEFINE R == OpToRel(<, Nat)
<1>1. IsWellFoundedOn(R, Nat)
  BY NatLessThanWellFounded
<1>2. \A t, u \in Nat : t < u => <<t, u>> \in R
  BY DEF OpToRel
<1> HIDE DEF R
<1>3. PICK m \in T : \A t \in T : ~ (<<t, m>> \in R)
  BY <1>1, WFMin
<1>4. \A t \in T : ~ (t < m)
  BY <1>2, <1>3
<1> QED
  BY <1>3, <1>4

LEMMA MinIsLeast ==
    ASSUME NEW T, T \subseteq Nat, T # {}
    PROVE  Min(T) \in T /\ \A t \in T : Min(T) <= t
BY SmallestOf DEF Min

LEMMA MaxIsGreatest ==
    ASSUME NEW n \in Nat, NEW T, T \subseteq 0 .. n, T # {}
    PROVE  Max(T) \in T /\ \A t \in T : t <= Max(T)
<1> DEFINE U == {n - t : t \in T}
<1>0. \A t \in T : t \in Nat /\ n - t \in Nat
  OBVIOUS
<1>1. U \subseteq Nat /\ U # {}
  BY <1>0
<1>2. PICK u \in U : \A v \in U : u <= v
  BY <1>1, SmallestOf
<1>3. PICK m \in T : u = n - m
  OBVIOUS
<1>4. \A t \in T : n - m <= n - t
  BY <1>2, <1>3
<1>5. \A t \in T : m >= t
  BY <1>0, <1>4
<1> QED
  BY <1>5 DEF Max

-----------------------------------------------------------------------------
(* strip() and partition().                                                *)

\* What a strip() leaves begins and ends with what it keeps.
LEMMA SubSeqOfKept ==
    ASSUME NEW S, NEW s \in Seq(S), NEW K, K \subseteq DOMAIN s, K # {}
    PROVE  LET kept == SubSeq(s, Min(K), Max(K))
           IN  /\ Min(K) \in K /\ Max(K) \in K /\ Min(K) <= Max(K)
               /\ kept \in Seq(S)
               /\ Len(kept) = Max(K) - Min(K) + 1
               /\ \A i \in DOMAIN kept : kept[i] = s[Min(K) + i - 1] /\ Min(K) + i - 1 \in DOMAIN s
<1>1. DOMAIN s = 1 .. Len(s) /\ Len(s) \in Nat
  OBVIOUS
<1>2. K \subseteq Nat /\ K \subseteq 0 .. Len(s)
  BY <1>1
<1>3. Min(K) \in K /\ \A t \in K : Min(K) <= t
  BY <1>2, MinIsLeast
<1>4. Max(K) \in K /\ \A t \in K : t <= Max(K)
  BY <1>1, <1>2, MaxIsGreatest
<1> DEFINE a == Min(K)
           b == Max(K)
<1>5. a \in 1 .. Len(s) /\ b \in 1 .. Len(s) /\ a <= b
  BY <1>1, <1>3, <1>4
<1> HIDE DEF a, b
<1>6. /\ SubSeq(s, a, b) \in Seq(S)
      /\ Len(SubSeq(s, a, b)) = b - a + 1
      /\ \A i \in 1 .. (b - a + 1) : SubSeq(s, a, b)[i] = s[a + i - 1]
  BY <1>1, <1>5
<1>7. \A i \in 1 .. (b - a + 1) : a + i - 1 \in 1 .. Len(s)
  BY <1>1, <1>5
<1> QED
  BY <1>1, <1>3, <1>4, <1>5, <1>6, <1>7 DEF a, b

\* strip() is done after one time.
LEMMA StripStrips ==
    ASSUME NEW S, NEW s \in Seq(S)
    PROVE  /\ Strip(s) \in Seq(S)
           /\ Strip(s) # <<>> =>
                 ~IsSpace(Strip(s)[1]) /\ ~IsSpace(Strip(s)[Len(Strip(s))])
<1> DEFINE K == {i \in DOMAIN s : ~IsSpace(s[i])}
<1>1. CASE K = {}
  BY <1>1 DEF Strip
<1>2. CASE K # {}
  <2>1. Strip(s) = SubSeq(s, Min(K), Max(K))
    BY <1>2 DEF Strip
  <2>0. K \subseteq DOMAIN s
    OBVIOUS
  <2> HIDE DEF K
  <2>2. /\ Min(K) \in K /\ Max(K) \in K /\ Min(K) <= Max(K)
        /\ Strip(s) \in Seq(S)
        /\ Len(Strip(s)) = Max(K) - Min(K) + 1
        /\ \A i \in DOMAIN Strip(s) : Strip(s)[i] = s[Min(K) + i - 1]
    BY <1>2, <2>0, <2>1, SubSeqOfKept
  <2>3. DOMAIN Strip(s) = 1 .. Len(Strip(s))
    BY <2>2
  <2> DEFINE a == Min(K)
             b == Max(K)
             n == Len(Strip(s))
  <2>4. a \in Nat /\ b \in Nat /\ n \in Nat /\ n = b - a + 1 /\ a <= b
    BY <2>0, <2>2
  <2> HIDE DEF a, b, n
  <2>7. 1 \in 1 .. n /\ n \in 1 .. n /\ a + 1 - 1 = a /\ a + n - 1 = b
    BY <2>4
  <2>5. Strip(s)[1] = s[a] /\ Strip(s)[n] = s[b]
    BY <2>2, <2>3, <2>7 DEF a, n
  <2>6. ~IsSpace(s[Min(K)]) /\ ~IsSpace(s[Max(K)])
    BY <2>2 DEF K
  <2> QED
    BY <2>2, <2>5, <2>6 DEF a, b, n
<1> QED
  BY <1>1, <1>2

LEMMA StripOfStripped ==
    ASSUME NEW S, NEW s \in Seq(S), s # <<>>, ~IsSpace(s[1]), ~IsSpace(s[Len(s)])
    PROVE  Strip(s) = s
<1> DEFINE K == {i \in DOMAIN s : ~IsSpace(s[i])}
<1>1. DOMAIN s = 1 .. Len(s) /\ Len(s) \in Nat /\ Len(s) # 0
  OBVIOUS
<1>2. 1 \in K /\ Len(s) \in K /\ K \subseteq 1 .. Len(s)
  BY <1>1
<1>6. Strip(s) = SubSeq(s, Min(K), Max(K))
  BY <1>2 DEF Strip
<1> HIDE DEF K
<1>0. K \subseteq Nat /\ K \subseteq 0 .. Len(s) /\ K # {}
  BY <1>1, <1>2
<1>3. Min(K) \in K /\ \A t \in K : Min(K) <= t
  BY <1>0, MinIsLeast
<1>4. Max(K) \in K /\ \A t \in K : t <= Max(K)
  BY <1>0, <1>1, MaxIsGreatest
<1>5. Min(K) = 1 /\ Max(K) = Len(s)
  <2> DEFINE a == Min(K)
             b == Max(K)
             n == Len(s)
  <2>1. a \in 1 .. n /\ b \in 1 .. n /\ n \in Nat /\ a <= 1 /\ n <= b
    BY <1>1, <1>2, <1>3, <1>4
  <2> HIDE DEF a, b, n
  <2>2. a = 1 /\ b = n
    BY <2>1
  <2> QED
    BY <2>2 DEF a, b, n
<1> QED
  BY <1>1, <1>5, <1>6

LEMMA FirstAtIs ==
    ASSUME NEW S, NEW s \in Seq(S), NEW a
    PROVE  /\ FirstAt(s, a) \in 1 .. Len(s) + 1
           /\ \A i \in DOMAIN s : s[i] = a => FirstAt(s, a) <= i
<1> DEFINE K == {i \in DOMAIN s : s[i] = a} \cup {Len(s) + 1}
<1>1. Len(s) \in Nat /\ DOMAIN s = 1 .. Len(s)
  OBVIOUS
<1>2. K \subseteq Nat /\ K # {} /\ K \subseteq 1 .. Len(s) + 1
  BY <1>1
<1>3. FirstAt(s, a) = Min(K)
  BY DEF FirstAt
<1>4. \A i \in DOMAIN s : s[i] = a => i \in K
  OBVIOUS
<1> HIDE DEF K
<1>5. Min(K) \in K /\ \A t \in K : Min(K) <= t
  BY <1>2, MinIsLeast
<1> QED
  BY <1>2, <1>3, <1>4, <1>5

\* What is before an atom begins as the text does.
LEMMA BeforeIs ==
    ASSUME NEW S, NEW s \in Seq(S), NEW a
    PROVE  /\ Before(s, a) \in Seq(S)
           /\ Before(s, a) # <<>> => s # <<>> /\ Before(s, a)[1] = s[1]
<1> DEFINE f == FirstAt(s, a)
<1>1. Len(s) \in Nat /\ DOMAIN s = 1 .. Len(s)
  OBVIOUS
<1>2. f \in 1 .. Len(s) + 1 /\ Before(s, a) = SubSeq(s, 1, f - 1)
  BY FirstAtIs DEF Before
<1> HIDE DEF f
<1>3. f - 1 \in 0 .. Len(s) /\ f \in Nat
  BY <1>1, <1>2
<1>4. SubSeq(s, 1, f - 1) \in Seq(S) /\ Len(SubSeq(s, 1, f - 1)) = f - 1
  BY <1>1, <1>3
<1>5. CASE f - 1 = 0
  BY <1>2, <1>4, <1>5
<1>6. CASE f - 1 # 0
  <2>1. 1 \in 1 .. f - 1 /\ Len(s) # 0
    BY <1>1, <1>3, <1>6
  <2>2. SubSeq(s, 1, f - 1)[1] = s[1]
    BY <1>1, <1>3, <2>1
  <2> QED
    BY <1>2, <1>4, <2>1, <2>2
<1> QED
  BY <1>5, <1>6

LEMMA AfterIs ==
    ASSUME NEW S, NEW s \in Seq(S), NEW a
    PROVE  After(s, a) \in Seq(S)
<1> DEFINE f == FirstAt(s, a)
<1>1. f \in 1 .. Len(s) + 1 /\ Len(s) \in Nat
  BY FirstAtIs
<1> HIDE DEF f
<1>2. f + 1 \in Nat \ {0}
  BY <1>1
<1>3. SubSeq(s, f + 1, Len(s)) \in Seq(S)
  BY <1>1, <1>2
<1> QED
  BY <1>3 DEF After, f

LEMMA ResolveIs == ASSUME NEW code PROVE Resolve(code) \in Languages
BY DEF Resolve, Languages

LEMMA ResolveOfLanguage == ASSUME NEW l \in Languages PROVE Resolve(<<l>>) = l
<1>1. <<l>> \in Seq(Languages) /\ Len(<<l>>) = 1 /\ DOMAIN <<l>> = {1} /\ <<l>>[1] # "-"
  BY DEF Languages
<1>2. FirstAt(<<l>>, "-") = Min({2})
  BY <1>1 DEF FirstAt
<1>3. Min({2}) = 2
  BY MinIsLeast
<1>4. Before(<<l>>, "-") = <<l>>
  <2>1. Before(<<l>>, "-") = SubSeq(<<l>>, 1, 1)
    BY <1>2, <1>3 DEF Before
  <2> QED
    BY <1>1, <2>1
<1> QED
  BY <1>1, <1>4 DEF Resolve

-----------------------------------------------------------------------------
(* The reaction of the web tier.                                           *)

LEMMA TrimmedText ==
    ASSUME NEW u \in Updates
    PROVE  /\ Strip(u.text) \in Seq(Atoms)
           /\ Strip(u.text) # <<>> =>
                 /\ ~IsSpace(Strip(u.text)[1])
                 /\ ~IsSpace(Strip(u.text)[Len(Strip(u.text))])
<1>1. PICK n \in 0 .. MaxAtoms : u.text \in [1 .. n -> Atoms]
  BY DEF Updates, Texts
<1>2. u.text \in Seq(Atoms)
  <2>1. MaxAtoms \in Nat
    BY ConversationAssumption, Zenon DEF ConversationAssumption
  <2> QED
    BY <1>1, <2>1
<1> QED
  BY <1>2, StripStrips

\* A plain text is not a query of the family's names, and its mode is custom.
LEMMA PlainText ==
    ASSUME NEW S, NEW s \in Seq(S), s # <<>>, ~IsSlash(s[1]), ~IsToken(s[1])
    PROVE  /\ Code(s) = <<>> /\ WithoutToken(s) = s
           /\ ~IsFamilyQuery(s) /\ Mode(s) = "custom" /\ Args(s) = s
<1>1. ~StartsWithToken(s)
  BY DEF StartsWithToken
<1>2. Head1(s) # <<>> => Head1(s)[1] = s[1]
  <2>0. \A a : Before(s, a) \in Seq(S) /\ (Before(s, a) # <<>> => Before(s, a)[1] = s[1])
    BY BeforeIs
  <2>1. /\ Before(s, " ") \in Seq(S)
        /\ Before(s, " ") # <<>> => Before(s, " ")[1] = s[1]
    BY <2>0, Zenon
  <2>2. Head1(s) # <<>> => Before(s, " ") # <<>> /\ Head1(s)[1] = Before(s, " ")[1]
    BY <2>1, BeforeIs DEF Head1
  <2> QED
    BY <2>1, <2>2
<1>3. \A x : IsSlash(x) => Head1(s) # <<x>>
  <2> SUFFICES ASSUME NEW x, IsSlash(x), Head1(s) = <<x>> PROVE FALSE
    OBVIOUS
  <2>1. <<x>> # <<>> /\ <<x>>[1] = x
    OBVIOUS
  <2> QED
    BY <1>2, <2>1
<1> QED
  <2>1. Code(s) = <<>> /\ WithoutToken(s) = s
    BY <1>1 DEF Code, WithoutToken
  <2>2. Mode(s) = "custom"
    BY <1>3 DEF Mode, IsSlash
  <2>4. ~IsFamilyQuery(s)
    BY <1>3 DEF IsFamilyQuery, IsSlash
  <2>3. Args(s) = s
    BY DEF Args
  <2> QED
    BY <2>1, <2>2, <2>3, <2>4

\* handle_update once language and text are known.
Answered(text, lang, hasFamily) ==
    IF text = <<>> THEN Reply(lang, "menu")
    ELSE IF IsFamilyQuery(text)
      THEN Reply(lang, IF hasFamily THEN "family_list" ELSE "family_empty")
    ELSE IF Mode(text) = "none" THEN Reply(lang, "greeting")
    ELSE [result |-> "accepted", reply |-> "ack", lang |-> lang,
          job |-> Request(Mode(text), Args(text))]

LEMMA ReactionIs ==
    ASSUME NEW u, NEW h, u.chat, Strip(u.text) # <<>>
    PROVE  \E lang \in Languages :
              Reaction(u, h) = Answered(WithoutToken(Strip(u.text)), lang, h)
<1> DEFINE raw == Strip(u.text)
           code == Code(raw)
           lang == Resolve(IF code # <<>> THEN code ELSE u.hint)
           text == WithoutToken(raw)
<1>1. raw # <<>>
  OBVIOUS
<1>2. Reaction(u, h) = Answered(text, lang, h)
  BY <1>1 DEF Reaction, Answered
<1>3. lang \in Languages
  BY ResolveIs
<1> QED
  BY <1>2, <1>3

LEMMA IgnoredIs ==
    ASSUME NEW u, NEW h, ~u.chat
    PROVE  Reaction(u, h) = [NotHandled EXCEPT !.result = "ignored"]
BY DEF Reaction

Anyhow(reaction) == [reaction EXCEPT !.lang = "any"]

\* The language an answer is given in is all that depends on it.
LEMMA AnsweredInAny ==
    ASSUME NEW text, NEW l, NEW m, NEW h
    PROVE  Anyhow(Answered(text, l, h)) = Anyhow(Answered(text, m, h))
<1> USE DEF Anyhow
<1>1. CASE text = <<>>
  BY <1>1 DEF Answered, Reply
<1>2. CASE text # <<>> /\ IsFamilyQuery(text)
  BY <1>2 DEF Answered, Reply
<1>3. CASE text # <<>> /\ ~IsFamilyQuery(text) /\ Mode(text) = "none"
  BY <1>3 DEF Answered, Reply
<1>4. CASE text # <<>> /\ ~IsFamilyQuery(text) /\ Mode(text) # "none"
  BY <1>4 DEF Answered
<1> QED
  BY <1>1, <1>2, <1>3, <1>4

LEMMA PlainReaction ==
    ASSUME NEW u \in Updates, NEW h, u.chat, Strip(u.text) # <<>>,
           ~IsSlash(Strip(u.text)[1]), ~IsToken(Strip(u.text)[1])
    PROVE  Reaction(u, h).job = [mode |-> "custom", wish |-> Strip(u.text)]
<1> DEFINE raw == Strip(u.text)
<1>1. raw \in Seq(Atoms)
  BY TrimmedText
<1>2. /\ WithoutToken(raw) = raw /\ ~IsFamilyQuery(raw)
      /\ Mode(raw) = "custom" /\ Args(raw) = raw
  BY <1>1, PlainText
<1>3. PICK lang : Reaction(u, h) = Answered(raw, lang, h)
  BY <1>2, ReactionIs
<1>4. Answered(raw, lang, h).job = Request("custom", raw)
  BY <1>2 DEF Answered
<1> QED
  BY <1>3, <1>4 DEF Request

LEMMA TokenReaction ==
    ASSUME NEW u \in Updates, NEW h, StartsWithToken(Strip(u.text)),
           NEW rest, rest = Strip(After(Strip(u.text), " ")), rest # <<>>, ~IsToken(rest[1])
    PROVE  Anyhow(Reaction(u, h)) = Anyhow(Reaction([u EXCEPT !.text = rest], h))
<1> DEFINE raw == Strip(u.text)
           v == [u EXCEPT !.text = rest]
<1>1. raw \in Seq(Atoms) /\ raw # <<>> /\ WithoutToken(raw) = rest
  BY TrimmedText DEF StartsWithToken, WithoutToken
<1>2. Strip(rest) = rest
  <2>1. \A a : After(raw, a) \in Seq(Atoms)
    BY <1>1, AfterIs
  <2>2. After(raw, " ") \in Seq(Atoms)
    BY <2>1, Zenon
  <2>3. /\ rest \in Seq(Atoms)
        /\ ~IsSpace(rest[1]) /\ ~IsSpace(rest[Len(rest)])
    BY <2>2, StripStrips
  <2> QED
    BY <2>3, StripOfStripped
<1>3. v.text = rest /\ v.chat = u.chat /\ u.chat \in BOOLEAN
  BY DEF Updates
<1>4. CASE u.chat
  <2>1. PICK l : Reaction(u, h) = Answered(rest, l, h)
    BY <1>1, <1>4, ReactionIs
  <2>2. WithoutToken(rest) = rest
    BY DEF WithoutToken, StartsWithToken
  <2>3. PICK m : Reaction(v, h) = Answered(rest, m, h)
    BY <1>2, <1>3, <1>4, <2>2, ReactionIs
  <2> QED
    BY <2>1, <2>3, AnsweredInAny
<1>5. CASE ~u.chat
  BY <1>3, <1>5, IgnoredIs
<1> QED
  BY <1>3, <1>4, <1>5

-----------------------------------------------------------------------------
(* Splitting a story: the loop over the lines, by a smallest line at which *)
(* it would go wrong.                                                      *)

\* The loop's story_lines, after each of the first k lines.
OneMoreLine(g, raw, n) == IF IsProse(raw[n]) THEN Append(g[n - 1], raw[n]) ELSE g[n - 1]
Collects(g, raw, k) ==
    g = [n \in 0 .. k |-> IF n = 0 THEN <<>> ELSE OneMoreLine(g, raw, n)]

LEMMA CollectsExists ==
    ASSUME NEW raw, NEW k \in Nat PROVE \E g : Collects(g, raw, k)
<1> DEFINE Bad == {n \in Nat : ~ \E g : Collects(g, raw, n)}
<1> SUFFICES ASSUME Bad # {} PROVE FALSE
  OBVIOUS
<1>1. PICK m \in Bad : \A n \in Bad : m <= n
  BY SmallestOf
<1>2. m # 0
  <2> DEFINE g == [n \in 0 .. 0 |-> <<>>]
  <2>1. Collects(g, raw, 0)
    BY DEF Collects
  <2> QED
    BY <2>1
<1>3. m \in Nat /\ m - 1 \in Nat /\ ~ (m <= m - 1)
  BY <1>2
<1>4. PICK g : Collects(g, raw, m - 1)
  BY <1>1, <1>3
<1> DEFINE h == [n \in 0 .. m |-> IF n = m THEN OneMoreLine(g, raw, m) ELSE g[n]]
<1>5. \A n \in 0 .. m - 1 : g[n] = IF n = 0 THEN <<>> ELSE OneMoreLine(g, raw, n)
  BY <1>4 DEF Collects
<1>6. \A n \in 0 .. m : h[n] = IF n = m THEN OneMoreLine(g, raw, m) ELSE g[n]
  OBVIOUS
<1>7. \A n \in 0 .. m : n # 0 => h[n - 1] = g[n - 1]
  BY <1>3, <1>6
<1>8. \A n \in 0 .. m : n # 0 => OneMoreLine(h, raw, n) = OneMoreLine(g, raw, n)
  BY <1>7 DEF OneMoreLine
<1>9. \A n \in 0 .. m : h[n] = IF n = 0 THEN <<>> ELSE OneMoreLine(h, raw, n)
  BY <1>2, <1>3, <1>5, <1>6, <1>8
<1>10. h = [n \in 0 .. m |-> h[n]]
  OBVIOUS
<1> HIDE DEF h
<1>11. Collects(h, raw, m)
  BY <1>9, <1>10 DEF Collects
<1> QED
  BY <1>1, <1>11

\* Only lines that are not a marker's get into the story.
LEMMA StoryLinesIs ==
    ASSUME NEW raw \in Seq(Lines) PROVE StoryLines(raw) \in Seq(Lines \ Markers)
<1> DEFINE f == CHOOSE g : Collects(g, raw, Len(raw))
<1>1. Len(raw) \in Nat /\ DOMAIN raw = 1 .. Len(raw)
  OBVIOUS
<1>2. StoryLines(raw) = f[Len(raw)]
  BY DEF StoryLines, Collects, OneMoreLine
<1>3. Collects(f, raw, Len(raw))
  BY <1>1, CollectsExists
<1> HIDE DEF f
<1>4. \A n \in 0 .. Len(raw) : f[n] = IF n = 0 THEN <<>> ELSE OneMoreLine(f, raw, n)
  BY <1>3 DEF Collects
<1> DEFINE Bad == {n \in 0 .. Len(raw) : f[n] \notin Seq(Lines \ Markers)}
<1>5. Bad = {}
  <2> SUFFICES ASSUME Bad # {} PROVE FALSE
    OBVIOUS
  <2>1. PICK m \in Bad : \A n \in Bad : m <= n
    <3>1. Bad \subseteq Nat
      OBVIOUS
    <3> QED
      BY <3>1, SmallestOf
  <2>2. m # 0
    <3>1. f[0] = <<>>
      BY <1>1, <1>4
    <3>2. <<>> \in Seq(Lines \ Markers)
      OBVIOUS
    <3> QED
      BY <3>1, <3>2
  <2>3. m \in 1 .. Len(raw) /\ m - 1 \in 0 .. Len(raw) /\ ~ (m <= m - 1)
    BY <1>1, <2>2
  <2>4. f[m - 1] \in Seq(Lines \ Markers)
    BY <2>1, <2>3
  <2>5. IsProse(raw[m]) => raw[m] \in Lines \ Markers
    BY <1>1, <2>3 DEF IsProse, IsMarker
  <2>6. f[m] = OneMoreLine(f, raw, m)
    BY <1>4, <2>3
  <2>7. f[m] \in Seq(Lines \ Markers)
    BY <2>4, <2>5, <2>6 DEF OneMoreLine
  <2> QED
    BY <2>7
<1> QED
  BY <1>1, <1>2, <1>5

\* s is what is left of the first n lines of raw without those outside Kept: pos
\* tells where each of its lines was, in the same order, and misses none of Kept.
IsWithout(s, raw, n, pos, Kept) ==
    /\ pos \in [1 .. Len(s) -> {i \in 1 .. n : IsProse(raw[i])}]
    /\ \A k \in 1 .. Len(s) : s[k] = raw[pos[k]]
    /\ \A j, k \in 1 .. Len(s) : j < k => pos[j] < pos[k]
    /\ \A i \in 1 .. n : IsProse(raw[i]) /\ raw[i] \in Kept
                            => \E k \in 1 .. Len(s) : pos[k] = i

\* One more line of the loop.
LEMMA OneMoreIsKept ==
    ASSUME NEW raw \in Seq(Lines), NEW n \in 1 .. Len(raw), NEW s \in Seq(Lines),
           NEW pos, IsWithout(s, raw, n - 1, pos, Lines)
    PROVE  \E next : IsWithout(IF IsProse(raw[n]) THEN Append(s, raw[n]) ELSE s,
                               raw, n, next, Lines)
<1>0. /\ Len(raw) \in Nat /\ DOMAIN raw = 1 .. Len(raw) /\ n \in Nat /\ n # 0
      /\ 1 .. n = (1 .. n - 1) \cup {n} /\ Len(s) \in Nat
  OBVIOUS
<1>1. CASE ~IsProse(raw[n])
  <2>1. {i \in 1 .. n : IsProse(raw[i])} = {i \in 1 .. n - 1 : IsProse(raw[i])}
    BY <1>0, <1>1
  <2>2. IsWithout(s, raw, n, pos, Lines)
    BY <1>0, <1>1, <2>1 DEF IsWithout
  <2> QED
    BY <1>1, <2>2
<1>2. CASE IsProse(raw[n])
  <2> DEFINE t == Append(s, raw[n])
             next == [k \in 1 .. Len(s) + 1 |-> IF k = Len(s) + 1 THEN n ELSE pos[k]]
  <2>1. /\ Len(t) = Len(s) + 1 /\ t[Len(s) + 1] = raw[n]
        /\ \A k \in 1 .. Len(s) : t[k] = s[k]
    BY <1>0
  <2>2. 1 .. Len(s) + 1 = (1 .. Len(s)) \cup {Len(s) + 1} /\ Len(s) + 1 \notin 1 .. Len(s)
    BY <1>0
  <2>3. next[Len(s) + 1] = n /\ \A k \in 1 .. Len(s) : next[k] = pos[k]
    BY <2>2
  <2>4. \A k \in 1 .. Len(s) : pos[k] \in 1 .. n - 1 /\ IsProse(raw[pos[k]]) /\ pos[k] < n
    BY <1>0 DEF IsWithout
  <2>5. next \in [1 .. Len(t) -> {i \in 1 .. n : IsProse(raw[i])}]
    BY <1>0, <1>2, <2>1, <2>2, <2>4
  <2> HIDE DEF t, next
  <2>6. \A k \in 1 .. Len(t) : t[k] = raw[next[k]]
    BY <2>1, <2>2, <2>3 DEF IsWithout
  <2>7. \A j, k \in 1 .. Len(t) : j < k => next[j] < next[k]
    <3> SUFFICES ASSUME NEW j \in 1 .. Len(t), NEW k \in 1 .. Len(t), j < k
                 PROVE  next[j] < next[k]
      OBVIOUS
    <3>1. j \in 1 .. Len(s)
      BY <1>0, <2>1
    <3>2. CASE k \in 1 .. Len(s)
      BY <2>3, <3>1, <3>2 DEF IsWithout
    <3>3. CASE k = Len(s) + 1
      BY <2>3, <2>4, <3>1, <3>3
    <3> QED
      BY <2>1, <2>2, <3>2, <3>3
  <2>8. ASSUME NEW i \in 1 .. n, IsProse(raw[i]), raw[i] \in Lines
        PROVE  \E k \in 1 .. Len(t) : next[k] = i
    <3>1. CASE i = n
      BY <2>1, <2>2, <2>3, <3>1
    <3>2. CASE i \in 1 .. n - 1
      <4>1. PICK k \in 1 .. Len(s) : pos[k] = i
        BY <2>8, <3>2 DEF IsWithout
      <4> QED
        BY <2>1, <2>2, <2>3, <4>1
    <3> QED
      BY <1>0, <3>1, <3>2
  <2>9. IsWithout(t, raw, n, next, Lines)
    BY <2>5, <2>6, <2>7, <2>8 DEF IsWithout
  <2> QED
    BY <1>2, <2>9 DEF t
<1> QED
  BY <1>1, <1>2

\* The loop leaves out the marker lines and no other.
LEMMA StoryLinesAre ==
    ASSUME NEW raw \in Seq(Lines)
    PROVE  \E pos : IsWithout(StoryLines(raw), raw, Len(raw), pos, Lines)
<1> DEFINE f == CHOOSE g : Collects(g, raw, Len(raw))
<1>1. Len(raw) \in Nat /\ DOMAIN raw = 1 .. Len(raw)
  OBVIOUS
<1>2. StoryLines(raw) = f[Len(raw)]
  BY DEF StoryLines, Collects, OneMoreLine
<1>3. Collects(f, raw, Len(raw))
  BY <1>1, CollectsExists
<1> HIDE DEF f
<1>4. \A n \in 0 .. Len(raw) : f[n] = IF n = 0 THEN <<>> ELSE OneMoreLine(f, raw, n)
  BY <1>3 DEF Collects
<1> DEFINE Kept(n) == f[n] \in Seq(Lines) /\ \E pos : IsWithout(f[n], raw, n, pos, Lines)
           Bad == {n \in 0 .. Len(raw) : ~Kept(n)}
<1>5. Bad = {}
  <2> SUFFICES ASSUME Bad # {} PROVE FALSE
    OBVIOUS
  <2>1. PICK m \in Bad : \A n \in Bad : m <= n
    <3>1. Bad \subseteq Nat
      OBVIOUS
    <3> QED
      BY <3>1, SmallestOf
  <2>2. m # 0
    <3>1. f[0] = <<>> /\ Len(<<>>) = 0 /\ <<>> \in Seq(Lines)
      BY <1>1, <1>4
    <3>2. 1 .. 0 = {}
      OBVIOUS
    <3>3. IsWithout(<<>>, raw, 0, [i \in {} |-> 0], Lines)
      BY <3>1, <3>2 DEF IsWithout
    <3> QED
      BY <3>1, <3>3
  <2>3. m \in 1 .. Len(raw) /\ m - 1 \in 0 .. Len(raw) /\ ~ (m <= m - 1)
    BY <1>1, <2>2
  <2>4. Kept(m - 1)
    BY <2>1, <2>3
  <2>5. f[m] = IF IsProse(raw[m]) THEN Append(f[m - 1], raw[m]) ELSE f[m - 1]
    BY <1>4, <2>3 DEF OneMoreLine
  <2>6. \E pos : IsWithout(f[m], raw, m, pos, Lines)
    BY <2>3, <2>4, <2>5, OneMoreIsKept
  <2>7. f[m] \in Seq(Lines)
    <3>1. raw[m] \in Lines
      BY <1>1, <2>3
    <3> QED
      BY <2>4, <2>5, <3>1
  <2> QED
    BY <2>6, <2>7
<1> QED
  BY <1>1, <1>2, <1>5

\* The strip() of the joined lines takes off blank ones only: the story is the
\* answer without its markers, all its prose in its order.
LEMMA StoryIsItsProse ==
    ASSUME NEW raw \in Seq(Lines)
    PROVE  \E pos : IsWithout(StoryOf(raw), raw, Len(raw), pos, Lines \ {"blank"})
<1> DEFINE s == StoryLines(raw)
           K == {i \in DOMAIN s : s[i] # "blank"}
<1>1. s \in Seq(Lines \ Markers) /\ DOMAIN s = 1 .. Len(s) /\ Len(s) \in Nat
  BY StoryLinesIs
<1>2. PICK pos : IsWithout(s, raw, Len(raw), pos, Lines)
  BY StoryLinesAre
<1>3. StoryOf(raw) = IF K = {} THEN <<>> ELSE SubSeq(s, Min(K), Max(K))
  BY DEF StoryOf, StripBlank
<1>4. ASSUME NEW i \in 1 .. Len(raw), IsProse(raw[i]), raw[i] \in Lines \ {"blank"}
      PROVE  \E k \in K : pos[k] = i
  <2>1. PICK k \in 1 .. Len(s) : pos[k] = i
    BY <1>2, <1>4 DEF IsWithout
  <2>2. s[k] = raw[i]
    BY <1>2, <2>1 DEF IsWithout
  <2>3. k \in K
    BY <1>1, <1>4, <2>2
  <2> QED
    BY <2>1, <2>3
<1>0. K \subseteq DOMAIN s
  OBVIOUS
<1> HIDE DEF s, K
<1>5. CASE K = {}
  <2>1. StoryOf(raw) = <<>> /\ Len(<<>>) = 0 /\ 1 .. 0 = {}
    BY <1>3, <1>5
  <2>2. IsWithout(<<>>, raw, Len(raw), [i \in {} |-> 0], Lines \ {"blank"})
    BY <1>4, <1>5, <2>1 DEF IsWithout
  <2> QED
    BY <2>1, <2>2
<1>6. CASE K # {}
  <2> DEFINE a == Min(K)
             b == Max(K)
             t == SubSeq(s, a, b)
             next == [k \in 1 .. b - a + 1 |-> pos[a + k - 1]]
  <2>1. StoryOf(raw) = t
    BY <1>3, <1>6
  <2>2. K \subseteq Nat /\ K \subseteq 0 .. Len(s)
    BY <1>0, <1>1
  <2>3. a \in K /\ b \in K /\ \A k \in K : a <= k
    BY <1>6, <2>2, MinIsLeast, SubSeqOfKept, <1>0, <1>1
  <2>4. \A k \in K : k <= b
    BY <1>1, <1>6, <2>2, MaxIsGreatest
  <2> HIDE DEF a, b
  <2>5. a \in 1 .. Len(s) /\ b \in 1 .. Len(s) /\ a <= b
    BY <1>0, <1>1, <2>3
  <2>6. /\ Len(t) = b - a + 1
        /\ \A k \in 1 .. b - a + 1 : t[k] = s[a + k - 1]
        /\ \A k \in 1 .. b - a + 1 : a + k - 1 \in 1 .. Len(s)
    BY <1>1, <2>5
  <2>7. \A k \in 1 .. b - a + 1 : next[k] = pos[a + k - 1]
    OBVIOUS
  <2>8. next \in [1 .. Len(t) -> {i \in 1 .. Len(raw) : IsProse(raw[i])}]
    BY <1>2, <2>6 DEF IsWithout
  <2> HIDE DEF t, next
  <2>9. \A k \in 1 .. Len(t) : t[k] = raw[next[k]]
    BY <1>2, <2>6, <2>7 DEF IsWithout
  <2>10. \A j, k \in 1 .. Len(t) : j < k => next[j] < next[k]
    <3>1. \A j, k \in 1 .. Len(s) : j < k => pos[j] < pos[k]
      BY <1>2 DEF IsWithout
    <3> SUFFICES ASSUME NEW j \in 1 .. b - a + 1, NEW k \in 1 .. b - a + 1, j < k
                 PROVE  next[j] < next[k]
      BY <2>6
    <3> DEFINE x == a + j - 1
               y == a + k - 1
    <3>2. x \in 1 .. Len(s) /\ y \in 1 .. Len(s) /\ x < y
      BY <1>1, <2>5, <2>6
    <3>3. next[j] = pos[x] /\ next[k] = pos[y]
      BY <2>7
    <3> HIDE DEF x, y
    <3> QED
      BY <3>1, <3>2, <3>3
  <2>11. ASSUME NEW i \in 1 .. Len(raw), IsProse(raw[i]), raw[i] \in Lines \ {"blank"}
         PROVE  \E k \in 1 .. Len(t) : next[k] = i
    <3>1. PICK k \in K : pos[k] = i
      BY <1>4, <2>11
    <3>2. k \in 1 .. Len(s) /\ a <= k /\ k <= b
      BY <1>0, <1>1, <2>3, <2>4
    <3> DEFINE j == k - a + 1
    <3>3. j \in 1 .. b - a + 1 /\ a + j - 1 = k
      BY <1>1, <2>5, <3>2
    <3> HIDE DEF j
    <3> QED
      BY <2>6, <2>7, <3>1, <3>3
  <2>12. IsWithout(t, raw, Len(raw), next, Lines \ {"blank"})
    BY <2>8, <2>9, <2>10, <2>11 DEF IsWithout
  <2> QED
    BY <2>1, <2>12
<1> QED
  BY <1>5, <1>6

LEMMA StoryOfIs ==
    ASSUME NEW raw \in Seq(Lines)
    PROVE  /\ StoryOf(raw) \in Seq(Lines)
           /\ \A i \in DOMAIN StoryOf(raw) : ~IsMarker(StoryOf(raw)[i])
<1> DEFINE s == StoryLines(raw)
           K == {i \in DOMAIN s : s[i] # "blank"}
<1>1. s \in Seq(Lines \ Markers)
  BY StoryLinesIs
<1>2. CASE K = {}
  BY <1>2 DEF StoryOf, StripBlank
<1>3. CASE K # {}
  <2>1. StoryOf(raw) = SubSeq(s, Min(K), Max(K)) /\ K \subseteq DOMAIN s
    BY <1>3 DEF StoryOf, StripBlank
  <2> HIDE DEF K, s
  <2>2. StoryOf(raw) \in Seq(Lines \ Markers)
    BY <1>1, <1>3, <2>1, SubSeqOfKept
  <2> QED
    BY <2>2 DEF IsMarker
<1> QED
  BY <1>2, <1>3

-----------------------------------------------------------------------------
(* The length of an image prompt: a sum over a cast, by the smallest       *)
(* number of characters for which it would be wrong.                       *)

MaxDescribed == 2 + MaxName + 2 + MaxAppearance + 1

\* g[s] is the sum over the characters of c in s, for the sets s in D.
Element(s) == CHOOSE i \in s : TRUE
Sums(g, c, D) ==
    g = [s \in D |-> IF s = {} THEN 0 ELSE Described(c[Element(s)]) + g[s \ {Element(s)}]]

\* The sets of at most k members of S.
UpTo(S, k) == {s \in SUBSET S : Cardinality(s) <= k}

LEMMA UpToLess ==
    ASSUME NEW S, IsFiniteSet(S), NEW k \in Nat, NEW s \in UpTo(S, k), s # {}
    PROVE  k # 0 /\ Element(s) \in s /\ s \ {Element(s)} \in UpTo(S, k - 1)
<1>1. s \subseteq S /\ IsFiniteSet(s) /\ Cardinality(s) \in Nat /\ Cardinality(s) <= k
  BY FS_Subset, FS_CardinalityType DEF UpTo
<1>2. Element(s) \in s
  BY DEF Element
<1>3. Cardinality(s) # 0
  BY <1>1, FS_EmptySet
<1>4. Cardinality(s \ {Element(s)}) = Cardinality(s) - 1
  BY <1>1, <1>2, FS_RemoveElement
<1> QED
  BY <1>1, <1>2, <1>3, <1>4 DEF UpTo

LEMMA SumsExist ==
    ASSUME NEW c, NEW S, IsFiniteSet(S), NEW k \in Nat
    PROVE  \E g : Sums(g, c, UpTo(S, k))
<1> DEFINE Bad == {n \in Nat : ~ \E g : Sums(g, c, UpTo(S, n))}
<1> SUFFICES ASSUME Bad # {} PROVE FALSE
  OBVIOUS
<1>1. PICK m \in Bad : \A n \in Bad : m <= n
  BY SmallestOf
<1>2. m # 0
  <2> DEFINE g == [s \in UpTo(S, 0) |-> 0]
  <2>1. \A s \in UpTo(S, 0) : s = {}
    BY UpToLess
  <2>2. Sums(g, c, UpTo(S, 0))
    BY <2>1 DEF Sums
  <2> QED
    BY <2>2
<1>3. m \in Nat /\ m - 1 \in Nat /\ ~ (m <= m - 1)
  BY <1>2
<1>4. PICK g : Sums(g, c, UpTo(S, m - 1))
  BY <1>1, <1>3
<1> DEFINE sum(s) == IF s = {} THEN 0 ELSE Described(c[Element(s)]) + g[s \ {Element(s)}]
           h == [s \in UpTo(S, m) |-> sum(s)]
<1>5. \A s \in UpTo(S, m - 1) : g[s] = sum(s)
  BY <1>4 DEF Sums
<1>6. UpTo(S, m - 1) \subseteq UpTo(S, m)
  <2> SUFFICES ASSUME NEW s \in UpTo(S, m - 1) PROVE s \in UpTo(S, m)
    OBVIOUS
  <2>1. s \in SUBSET S /\ Cardinality(s) \in Nat /\ Cardinality(s) <= m - 1
    BY FS_Subset, FS_CardinalityType DEF UpTo
  <2> QED
    BY <1>3, <2>1 DEF UpTo
<1>7. \A s \in UpTo(S, m) : s # {} => h[s \ {Element(s)}] = g[s \ {Element(s)}]
  BY <1>3, <1>5, <1>6, UpToLess
<1>8. h = [s \in UpTo(S, m) |->
             IF s = {} THEN 0 ELSE Described(c[Element(s)]) + h[s \ {Element(s)}]]
  BY <1>7
<1>9. Sums(h, c, UpTo(S, m))
  BY <1>8 DEF Sums
<1> QED
  BY <1>1, <1>9

\* The lengths of the descriptions of the characters of c in S.
SumOf(c, S) == MapThenSumSet(LAMBDA i : Described(c[i]), S)

LEMMA SumIsBounded ==
    ASSUME NEW c, NEW S, IsFiniteSet(S),
           \A i \in S : Described(c[i]) \in 0 .. MaxDescribed
    PROVE  SumOf(c, S) \in 0 .. MaxDescribed * Cardinality(S)
<1> DEFINE f == CHOOSE g : Sums(g, c, SUBSET S)
<1>1. SumOf(c, S) = f[S]
  BY DEF SumOf, MapThenSumSet, MapThenFoldSet, Sums, Element
<1>2. Sums(f, c, SUBSET S)
  <2>1. Cardinality(S) \in Nat
    BY FS_CardinalityType
  <2>2. UpTo(S, Cardinality(S)) = SUBSET S
    BY FS_Subset DEF UpTo
  <2>3. \E g : Sums(g, c, UpTo(S, Cardinality(S)))
    BY <2>1, SumsExist
  <2>4. \E g : Sums(g, c, SUBSET S)
    BY <2>2, <2>3
  <2> QED
    BY <2>4, Zenon
<1> HIDE DEF f
<1>3. \A s \in SUBSET S :
         f[s] = IF s = {} THEN 0 ELSE Described(c[Element(s)]) + f[s \ {Element(s)}]
  BY <1>2 DEF Sums
<1> DEFINE Bad == {n \in Nat : \E s \in SUBSET S :
                      Cardinality(s) = n /\ f[s] \notin 0 .. MaxDescribed * n}
<1>4. Bad = {}
  <2> SUFFICES ASSUME Bad # {} PROVE FALSE
    OBVIOUS
  <2>1. PICK m \in Bad : \A n \in Bad : m <= n
    <3>1. Bad \subseteq Nat
      OBVIOUS
    <3> QED
      BY <3>1, SmallestOf
  <2>2. PICK s \in SUBSET S : Cardinality(s) = m /\ f[s] \notin 0 .. MaxDescribed * m
    BY <2>1
  <2>3. m \in Nat /\ IsFiniteSet(s)
    BY <2>1, FS_Subset
  <2>4. CASE s = {}
    <3>1. m = 0 /\ f[s] = 0
      BY <1>3, <2>2, <2>4, FS_EmptySet
    <3> QED
      BY <2>2, <3>1 DEF MaxDescribed, MaxName, MaxAppearance
  <2>5. CASE s # {}
    <3> DEFINE x == Element(s)
               r == s \ {x}
    <3>1. x \in s
      BY <2>5 DEF Element
    <3>2. Cardinality(r) = m - 1 /\ m # 0 /\ m - 1 \in Nat /\ r \in SUBSET S
      <4>1. Cardinality(r) = m - 1 /\ Cardinality(r) \in Nat
        BY <2>2, <2>3, <3>1, FS_RemoveElement, FS_CardinalityType
      <4> QED
        BY <2>3, <4>1
    <3>3. f[s] = Described(c[x]) + f[r]
      BY <1>3, <2>5
    <3> HIDE DEF x, r
    <3>4. f[r] \in 0 .. MaxDescribed * (m - 1)
      <4>1. m - 1 \notin Bad
        BY <2>1, <2>3, <3>2
      <4> QED
        BY <3>2, <4>1
    <3>5. Described(c[x]) \in 0 .. MaxDescribed
      BY <3>1
    <3> QED
      BY <2>2, <2>3, <3>2, <3>3, <3>4, <3>5 DEF MaxDescribed, MaxName, MaxAppearance
  <2> QED
    BY <2>4, <2>5
<1>5. Cardinality(S) \in Nat
  BY FS_CardinalityType
<1> QED
  BY <1>1, <1>4, <1>5

\* The fixed parts, the longest hint and eight full descriptions fit.
LEMMA PromptFits ==
    ASSUME NEW hint \in Nat, NEW c,
           c = <<>> \/ (c \in Files \ {Absent} /\ ValidRegistry(c))
    PROVE  PromptLength(hint, c) <= MaxPrompt
<1>1. Scene(hint) \in 0 .. 400
  <2>1. CASE hint = 0
    BY <2>1 DEF Scene, FallbackScene
  <2>2. CASE hint # 0
    <3>1. {hint, MaxHint} \subseteq Nat /\ {hint, MaxHint} # {}
      BY DEF MaxHint
    <3>2. Min({hint, MaxHint}) \in {hint, MaxHint} /\ Min({hint, MaxHint}) <= MaxHint
      BY <3>1, MinIsLeast
    <3>3. Scene(hint) = Min({hint, MaxHint})
      BY <2>2 DEF Scene
    <3> DEFINE m == Min({hint, MaxHint})
    <3>4. m \in {hint, 400} /\ m <= 400 /\ Scene(hint) = m
      BY <3>2, <3>3 DEF MaxHint
    <3> HIDE DEF m
    <3> QED
      BY <3>4
  <2> QED
    BY <2>1, <2>2
<1>2. PromptLength(hint, c) =
        ScenePrefix + Scene(hint) + 2 + StyleSuffix +
          (IF c = <<>> THEN 0 ELSE 2 + CastHeader + (Len(c) - 1) + SumOf(c, DOMAIN c))
  BY Zenon DEF PromptLength, SumOf
<1> DEFINE sum == SumOf(c, DOMAIN c)
           scene == Scene(hint)
<1>3. CASE c = <<>>
  <2>1. PromptLength(hint, c) = ScenePrefix + scene + 2 + StyleSuffix + 0 /\ scene \in 0 .. 400
    BY <1>1, <1>2, <1>3
  <2> HIDE DEF scene
  <2> QED
    BY <2>1 DEF ScenePrefix, StyleSuffix, MaxPrompt
<1>4. CASE c # <<>>
  <2>1. c \in Seq({c[i] : i \in DOMAIN c}) /\ ValidRegistry(c)
    BY <1>4, StoryAssumption DEF StoryAssumption
  <2>2. DOMAIN c = 1 .. Len(c) /\ Len(c) \in Nat /\ Len(c) <= 8
    BY <2>1 DEF ValidRegistry, MaxCharacters
  <2>3. IsFiniteSet(DOMAIN c) /\ Cardinality(DOMAIN c) \in 0 .. 8
    <3>1. 1 \in Int /\ Len(c) \in Int
      BY <2>2
    <3>2. IsFiniteSet(1 .. Len(c)) /\ Cardinality(1 .. Len(c)) = IF 1 > Len(c) THEN 0 ELSE Len(c) - 1 + 1
      BY <3>1, FS_Interval
    <3> QED
      BY <2>2, <3>2
  <2>4. ASSUME NEW i \in DOMAIN c PROVE Described(c[i]) \in 0 .. MaxDescribed
    <3> DEFINE name == c[i].names["en"]
               looks == c[i].appearance
    <3>1. ValidCharacter(c[i])
      BY <2>1 DEF ValidRegistry
    <3>2. looks \in MinAppearance .. MaxAppearance
      BY <3>1 DEF ValidCharacter
    <3>3. name \in 1 .. MaxName
      BY <3>1 DEF ValidCharacter
    <3>4. Described(c[i]) = 2 + name + 2 + looks + 1
      BY DEF Described
    <3> HIDE DEF name, looks
    <3> QED
      BY <3>2, <3>3, <3>4 DEF MaxDescribed, MinAppearance, MaxAppearance, MaxName
  <2>5. sum \in 0 .. MaxDescribed * Cardinality(DOMAIN c)
    BY <2>3, <2>4, SumIsBounded
  <2>6. PromptLength(hint, c) =
          ScenePrefix + scene + 2 + StyleSuffix + (2 + CastHeader + (Len(c) - 1) + sum)
    BY <1>2, <1>4
  <2> HIDE DEF sum, scene
  <2>7. sum \in Int /\ sum <= 2760
    BY <2>3, <2>5 DEF MaxDescribed, MaxName, MaxAppearance
  <2>8. scene \in 0 .. 400
    BY <1>1 DEF scene
  <2> QED
    BY <2>2, <2>6, <2>7, <2>8 DEF ScenePrefix, StyleSuffix, CastHeader, MaxPrompt
<1> QED
  BY <1>3, <1>4

LEMMA HintOfIs == ASSUME NEW raw \in Seq(Lines) PROVE HintOf(raw) \in Nat
<1> DEFINE marks == {i \in DOMAIN raw : IsMarker(raw[i])}
<1>1. DOMAIN raw = 1 .. Len(raw) /\ Len(raw) \in Nat
  OBVIOUS
<1>2. CASE marks = {}
  BY <1>2 DEF HintOf
<1>3. CASE marks # {}
  <2>1. HintOf(raw) = LineLength[raw[Max(marks)]] /\ marks \subseteq DOMAIN raw
    BY <1>3 DEF HintOf
  <2> HIDE DEF marks
  <2>2. marks \subseteq 0 .. Len(raw)
    BY <1>1, <2>1
  <2>3. Max(marks) \in DOMAIN raw
    BY <1>1, <1>3, <2>1, <2>2, MaxIsGreatest
  <2>4. raw[Max(marks)] \in Lines
    BY <2>3
  <2> QED
    BY <2>1, <2>4 DEF LineLength
<1> QED
  BY <1>2, <1>3

-----------------------------------------------------------------------------
(* The invariant: what each stage of the message has settled.              *)

Stages == {"asked", "answered", "queued", "story", "image", "send", "done"}
Valid(f) == f \in Files \ {Absent} /\ ValidRegistry(f)

\* Until there is a job no pod works on it and nothing was said; what the message was made into is
\* what handle_update makes of it.
AtTheWebTier ==
    step \in {"asked", "answered"} =>
        update \in Updates /\ job = Unqueued /\ pod = "down" /\ spoken = {}
AnsweredAsRead == step = "answered" => outcome = Reaction(update, hasCast)

\* Then there is one language, the job's.
JobSpeaks ==
    step \notin {"asked", "answered"} => job.language \in Languages /\ spoken \subseteq {job.language}

\* A cast is a whole valid file or nobody, as the pod's registry is.
WholeCasts ==
    /\ file \in Files \cup {Absent}
    /\ registry = <<>> \/ Valid(registry)
    /\ cast = <<>> \/ Valid(cast)
    /\ CastIsComplete

IsIllustration == \E hint \in Nat : imagePrompt = Illustration(hint, cast)

\* Both prompts of an attempt are composed of the same local.
PromptsOfCast ==
    /\ step \in {"story", "image", "send"} => storyPrompt = ComposeStoryPrompt(cast)
    /\ step \notin {"image", "send", "done"} => imagePrompt = NoPrompt
    /\ step \in {"image", "send"} => IsIllustration
    /\ imagePrompt = NoPrompt \/ IsIllustration

\* A story that may be sent has no marker, and what was sent has none.
StoryIsClean ==
    /\ step \in {"image", "send"} => \A i \in DOMAIN story : ~IsMarker(story[i])
    /\ NoMarkerInChat

StoryInvariant ==
    /\ step \in Stages
    /\ AtTheWebTier
    /\ AnsweredAsRead
    /\ JobSpeaks
    /\ WholeCasts
    /\ PromptsOfCast
    /\ StoryIsClean

LEMMA AnswerIs == ASSUME NEW a \in Answers PROVE a.raw \in Seq(Lines)
<1>1. PICK n \in 0 .. MaxLines : a.raw \in [1 .. n -> Lines]
  BY DEF Answers
<1>2. MaxLines \in Nat
  BY StoryAssumption DEF StoryAssumption
<1> QED
  BY <1>1, <1>2

\* An update that is accepted is spoken of in a language of the bot.
LEMMA AcceptedSpeaks ==
    ASSUME NEW u, NEW h, Reaction(u, h).result = "accepted"
    PROVE  Reaction(u, h).lang \in Languages
<1>1. CASE u.chat /\ Strip(u.text) # <<>>
  <2>1. PICK lang \in Languages :
           Reaction(u, h) = Answered(WithoutToken(Strip(u.text)), lang, h)
    BY <1>1, ReactionIs
  <2>2. \A text : Answered(text, lang, h).lang = lang
    BY DEF Answered, Reply
  <2> QED
    BY <2>1, <2>2
<1>2. CASE ~u.chat
  BY <1>2 DEF Reaction, NotHandled
<1>3. CASE u.chat /\ Strip(u.text) = <<>>
  BY <1>3 DEF Reaction, NotHandled, Reply
<1> QED
  BY <1>1, <1>2, <1>3

LEMMA StoryInit == Init => StoryInvariant
<1> SUFFICES ASSUME Init PROVE StoryInvariant
  OBVIOUS
<1> USE DEF Init
<1>1. step \in Stages /\ AtTheWebTier /\ AnsweredAsRead /\ JobSpeaks
  BY DEF Stages, AtTheWebTier, AnsweredAsRead, JobSpeaks
<1>2. WholeCasts
  BY DEF WholeCasts, CastIsComplete
<1>3. PromptsOfCast
  BY DEF PromptsOfCast
<1>4. StoryIsClean
  BY DEF StoryIsClean, NoMarkerInChat, Nothing
<1> QED
  BY <1>1, <1>2, <1>3, <1>4 DEF StoryInvariant

LEMMA StoryStep == StoryInvariant /\ [Next]_vars => StoryInvariant'
<1> SUFFICES ASSUME StoryInvariant, [Next]_vars PROVE StoryInvariant'
  OBVIOUS
<1> USE DEF StoryInvariant
<1>1. CASE HandleUpdate
  <2> USE <1>1 DEF HandleUpdate, attempt
  <2>1. (step \in Stages /\ AtTheWebTier /\ AnsweredAsRead /\ JobSpeaks)'
    BY DEF Stages, AtTheWebTier, AnsweredAsRead, JobSpeaks
  <2>2. WholeCasts'
    BY DEF WholeCasts, CastIsComplete
  <2>3. PromptsOfCast'
    BY DEF PromptsOfCast, IsIllustration
  <2>4. StoryIsClean'
    BY DEF StoryIsClean, NoMarkerInChat
  <2> QED
    BY <2>1, <2>2, <2>3, <2>4
<1>2. CASE Enqueue
  <2> USE <1>2 DEF Enqueue, attempt
  <2>1. outcome.lang \in Languages
    BY AcceptedSpeaks DEF AnsweredAsRead
  <2>2. (step \in Stages /\ AtTheWebTier /\ AnsweredAsRead /\ JobSpeaks)'
    BY <2>1 DEF Stages, AtTheWebTier, AnsweredAsRead, JobSpeaks, NewJob
  <2>3. WholeCasts'
    BY DEF WholeCasts, CastIsComplete
  <2>4. PromptsOfCast'
    BY DEF PromptsOfCast, IsIllustration
  <2>5. StoryIsClean'
    BY DEF StoryIsClean, NoMarkerInChat
  <2> QED
    BY <2>2, <2>3, <2>4, <2>5
<1>3. ASSUME NEW f \in Files, EditFile(f) PROVE StoryInvariant'
  <2> USE <1>3 DEF EditFile, web, attempt
  <2>1. (step \in Stages /\ AtTheWebTier /\ AnsweredAsRead /\ JobSpeaks)'
    BY DEF Stages, AtTheWebTier, AnsweredAsRead, JobSpeaks
  <2>2. WholeCasts'
    BY DEF WholeCasts, CastIsComplete
  <2>3. PromptsOfCast'
    BY DEF PromptsOfCast, ComposeStoryPrompt, IsIllustration
  <2>4. StoryIsClean'
    BY DEF StoryIsClean, NoMarkerInChat
  <2> QED
    BY <2>1, <2>2, <2>3, <2>4
<1>4. CASE StartPod
  <2> USE <1>4 DEF StartPod, web, attempt
  <2>1. (step \in Stages /\ AtTheWebTier /\ AnsweredAsRead /\ JobSpeaks)'
    BY DEF Stages, AtTheWebTier, AnsweredAsRead, JobSpeaks
  <2>2. WholeCasts'
    <3>1. CASE file = Absent /\ ~Required
      BY <3>1 DEF WholeCasts, CastIsComplete, Valid
    <3>2. CASE file # Absent /\ ValidRegistry(file)
      <4>1. registry' = file /\ cast' = cast /\ file \in Files \ {Absent}
        BY <3>2 DEF WholeCasts
      <4> QED
        BY <3>2, <4>1 DEF WholeCasts, CastIsComplete, Valid
    <3>3. CASE file = Absent /\ Required
      BY <3>3 DEF WholeCasts, CastIsComplete, Valid
    <3>4. CASE file # Absent /\ ~ValidRegistry(file)
      BY <3>4 DEF WholeCasts, CastIsComplete, Valid
    <3> QED
      BY <3>1, <3>2, <3>3, <3>4, StoryAssumption DEF StoryAssumption
  <2>3. PromptsOfCast'
    BY DEF PromptsOfCast, ComposeStoryPrompt, IsIllustration
  <2>4. StoryIsClean'
    BY DEF StoryIsClean, NoMarkerInChat
  <2> QED
    BY <2>1, <2>2, <2>3, <2>4
<1>5. CASE StopPod
  <2> USE <1>5 DEF StopPod, Forget, web, attempt
  <2>1. (step \in Stages /\ AtTheWebTier /\ AnsweredAsRead /\ JobSpeaks)'
    BY DEF Stages, AtTheWebTier, AnsweredAsRead, JobSpeaks
  <2>2. WholeCasts'
    BY DEF WholeCasts, CastIsComplete, Valid
  <2>3. PromptsOfCast'
    BY DEF PromptsOfCast, ComposeStoryPrompt, IsIllustration
  <2>4. StoryIsClean'
    BY DEF StoryIsClean, NoMarkerInChat
  <2> QED
    BY <2>1, <2>2, <2>3, <2>4
<1>6. CASE Begin
  <2> USE <1>6 DEF Begin, web
  <2>1. (step \in Stages /\ AtTheWebTier /\ AnsweredAsRead /\ JobSpeaks)'
    BY DEF Stages, AtTheWebTier, AnsweredAsRead, JobSpeaks
  <2>2. WholeCasts'
    BY DEF WholeCasts, CastIsComplete, Valid
  <2>3. PromptsOfCast'
    BY DEF PromptsOfCast, ComposeStoryPrompt, IsIllustration
  <2>4. StoryIsClean'
    BY DEF StoryIsClean, NoMarkerInChat
  <2> QED
    BY <2>1, <2>2, <2>3, <2>4
<1>7. ASSUME NEW a \in Answers, StoryAnswers(a) PROVE StoryInvariant'
  <2> USE <1>7 DEF StoryAnswers, web
  <2>1. (step \in Stages /\ AtTheWebTier /\ AnsweredAsRead /\ JobSpeaks)'
    BY DEF Stages, AtTheWebTier, AnsweredAsRead, JobSpeaks
  <2>2. WholeCasts'
    BY DEF WholeCasts, CastIsComplete, Valid
  <2>3. a.raw \in Seq(Lines)
    BY AnswerIs
  <2>4. PromptsOfCast'
    <3>1. HintOf(a.raw) \in Nat
      BY <2>3, HintOfIs
    <3>2. imagePrompt' = Illustration(HintOf(a.raw), cast')
      BY DEF ComposeImagePrompt
    <3>3. IsIllustration'
      BY <3>1, <3>2 DEF IsIllustration
    <3>4. storyPrompt' = ComposeStoryPrompt(cast)'
      BY DEF PromptsOfCast, ComposeStoryPrompt
    <3> QED
      BY <3>3, <3>4 DEF PromptsOfCast
  <2>5. StoryIsClean'
    <3>1. \A i \in DOMAIN story' : ~IsMarker(story'[i])
      BY <2>3, StoryOfIs
    <3> QED
      BY <3>1 DEF StoryIsClean, NoMarkerInChat
  <2> QED
    BY <2>1, <2>2, <2>4, <2>5
<1>8. CASE ImageAnswers
  <2> USE <1>8 DEF ImageAnswers, web, attempt
  <2>1. (step \in Stages /\ AtTheWebTier /\ AnsweredAsRead /\ JobSpeaks)'
    BY DEF Stages, AtTheWebTier, AnsweredAsRead, JobSpeaks
  <2>2. WholeCasts'
    BY DEF WholeCasts, CastIsComplete, Valid
  <2>3. PromptsOfCast'
    BY DEF PromptsOfCast, ComposeStoryPrompt, IsIllustration
  <2>4. StoryIsClean'
    BY DEF StoryIsClean, NoMarkerInChat
  <2> QED
    BY <2>1, <2>2, <2>3, <2>4
<1>9. CASE Fail
  <2> USE <1>9 DEF Fail, Forget, web
  <2>1. (step \in Stages /\ AtTheWebTier /\ AnsweredAsRead /\ JobSpeaks)'
    BY DEF Stages, AtTheWebTier, AnsweredAsRead, JobSpeaks
  <2>2. WholeCasts'
    BY DEF WholeCasts, CastIsComplete, Valid
  <2>3. PromptsOfCast'
    BY DEF PromptsOfCast, IsIllustration
  <2>4. StoryIsClean'
    BY DEF StoryIsClean, NoMarkerInChat
  <2> QED
    BY <2>1, <2>2, <2>3, <2>4
<1>10. CASE GiveUp
  <2> USE <1>10 DEF GiveUp, Forget, web
  <2>1. Resolve(<<job.language>>) = job.language
    BY ResolveOfLanguage DEF JobSpeaks
  <2>2. (step \in Stages /\ AtTheWebTier /\ AnsweredAsRead /\ JobSpeaks)'
    BY <2>1 DEF Stages, AtTheWebTier, AnsweredAsRead, JobSpeaks
  <2>3. WholeCasts'
    BY DEF WholeCasts, CastIsComplete, Valid
  <2>4. PromptsOfCast'
    BY DEF PromptsOfCast, IsIllustration
  <2>5. StoryIsClean'
    BY DEF StoryIsClean, NoMarkerInChat
  <2> QED
    BY <2>2, <2>3, <2>4, <2>5
<1>11. CASE Send
  <2> USE <1>11 DEF Send, web, attempt
  <2>1. storyPrompt.language = job.language
    <3>1. Resolve(<<job.language>>) = job.language
      BY ResolveOfLanguage DEF JobSpeaks
    <3> QED
      BY <3>1 DEF PromptsOfCast, ComposeStoryPrompt
  <2>2. (step \in Stages /\ AtTheWebTier /\ AnsweredAsRead /\ JobSpeaks)'
    BY <2>1 DEF Stages, AtTheWebTier, AnsweredAsRead, JobSpeaks
  <2>3. WholeCasts'
    BY DEF WholeCasts, CastIsComplete, Valid
  <2>4. PromptsOfCast'
    BY DEF PromptsOfCast, IsIllustration
  <2>5. StoryIsClean'
    BY DEF StoryIsClean, NoMarkerInChat
  <2> QED
    BY <2>2, <2>3, <2>4, <2>5
<1>12. CASE UNCHANGED vars
  <2> USE <1>12 DEF vars, web, attempt
  <2>1. (step \in Stages /\ AtTheWebTier /\ AnsweredAsRead /\ JobSpeaks)'
    BY DEF Stages, AtTheWebTier, AnsweredAsRead, JobSpeaks
  <2>2. WholeCasts'
    BY DEF WholeCasts, CastIsComplete, Valid
  <2>3. PromptsOfCast'
    BY DEF PromptsOfCast, ComposeStoryPrompt, IsIllustration
  <2>4. StoryIsClean'
    BY DEF StoryIsClean, NoMarkerInChat
  <2> QED
    BY <2>1, <2>2, <2>3, <2>4
<1> QED
  BY <1>1, <1>2, <1>3, <1>4, <1>5, <1>6, <1>7, <1>8, <1>9, <1>10, <1>11, <1>12 DEF Next

\* In every reachable state the invariant of the stages holds: one language per
\* job, one whole cast per attempt, no marker in a story.
THEOREM StoryIsMade == Spec => []StoryInvariant
<1>1. Init => StoryInvariant
  BY StoryInit
<1>2. StoryInvariant /\ [Next]_vars => StoryInvariant'
  BY StoryStep
<1> QED
  BY <1>1, <1>2, PTL DEF Spec

\* What is sent as a story is the one of the answer that was accepted.
StoryOfAnswer ==
    /\ step \in {"image", "send"} => answer.raw \in Seq(Lines) /\ story = StoryOf(answer.raw)
    /\ step # "done" => sent = Nothing
    /\ sent.as \in {"caption", "message"} =>
           answer.raw \in Seq(Lines) /\ sent.text = StoryOf(answer.raw)

LEMMA StorySentInit == Init => StoryOfAnswer
BY DEF Init, StoryOfAnswer, Nothing

LEMMA StorySentStep == StoryInvariant /\ StoryOfAnswer /\ [Next]_vars => StoryOfAnswer'
<1> SUFFICES ASSUME StoryInvariant, StoryOfAnswer, [Next]_vars PROVE StoryOfAnswer'
  OBVIOUS
<1> USE DEF StoryOfAnswer, web, attempt, Nothing
<1>1. CASE HandleUpdate
  BY <1>1 DEF HandleUpdate
<1>2. CASE Enqueue
  BY <1>2 DEF Enqueue
<1>3. ASSUME NEW f \in Files, EditFile(f) PROVE StoryOfAnswer'
  BY <1>3 DEF EditFile
<1>4. CASE StartPod
  BY <1>4 DEF StartPod
<1>5. CASE StopPod
  BY <1>5 DEF StopPod, Forget
<1>6. CASE Begin
  BY <1>6 DEF Begin
<1>7. ASSUME NEW a \in Answers, StoryAnswers(a) PROVE StoryOfAnswer'
  <2>1. a.raw \in Seq(Lines)
    BY AnswerIs
  <2> QED
    BY <1>7, <2>1 DEF StoryAnswers
<1>8. CASE ImageAnswers
  BY <1>8 DEF ImageAnswers
<1>9. CASE Fail
  BY <1>9 DEF Fail, Forget
<1>10. CASE GiveUp
  BY <1>10 DEF GiveUp, Forget
<1>11. CASE Send
  BY <1>11 DEF Send
<1>12. CASE UNCHANGED vars
  BY <1>12 DEF vars
<1> QED
  BY <1>1, <1>2, <1>3, <1>4, <1>5, <1>6, <1>7, <1>8, <1>9, <1>10, <1>11, <1>12 DEF Next

-----------------------------------------------------------------------------
(* The properties.                                                         *)

\* The cap of the image adapter never cuts a prompt: whatever file the pod has
\* loaded and however long the answer's hint is, the limits of characters.py and
\* prompts.py keep the prompt within 4000 characters.
THEOREM PromptFitsUnderCap == Spec => []PromptIsNeverCut
<1>1. StoryInvariant => PromptIsNeverCut
  <2> SUFFICES ASSUME StoryInvariant PROVE PromptIsNeverCut
    OBVIOUS
  <2>1. CASE imagePrompt = NoPrompt
    BY <2>1 DEF PromptIsNeverCut, NoPrompt, MaxPrompt
  <2>2. CASE IsIllustration
    <3>1. PICK hint \in Nat : imagePrompt = Illustration(hint, cast)
      BY <2>2 DEF IsIllustration
    <3>2. imagePrompt.length = PromptLength(hint, cast)
      BY <3>1 DEF Illustration
    <3>3. cast = <<>> \/ (cast \in Files \ {Absent} /\ ValidRegistry(cast))
      BY DEF StoryInvariant, WholeCasts, Valid
    <3>4. PromptLength(hint, cast) <= MaxPrompt
      BY <3>3, PromptFits
    <3> QED
      BY <3>2, <3>4 DEF PromptIsNeverCut
  <2> QED
    BY <2>1, <2>2 DEF StoryInvariant, PromptsOfCast
<1> QED
  BY <1>1, StoryIsMade, PTL

\* The story and its picture are about the same characters and looks, however
\* often the registry file changes and pods are replaced: both prompts are
\* composed from the one local of process().
THEOREM StoryAndPictureAgree == Spec => []SameCastInBoth
<1>1. StoryInvariant => SameCastInBoth
  <2> SUFFICES ASSUME StoryInvariant, step \in {"image", "send"}
               PROVE  Looks(imagePrompt.cast) = Looks(storyPrompt.cast)
    BY DEF SameCastInBoth
  <2> DEFINE looks == [i \in DOMAIN cast |-> <<cast[i].id, cast[i].appearance>>]
  <2>1. PICK hint \in Nat : imagePrompt = Illustration(hint, cast)
    BY DEF StoryInvariant, PromptsOfCast, IsIllustration
  <2>2. Looks(imagePrompt.cast) = looks
    BY <2>1 DEF Illustration, Looks
  <2>3. Looks(storyPrompt.cast) = looks
    BY DEF StoryInvariant, PromptsOfCast, ComposeStoryPrompt, Looks
  <2> QED
    BY <2>2, <2>3
<1> QED
  BY <1>1, StoryIsMade, PTL

\* A pod that runs has loaded every character of a valid file, or none because
\* there is no file and none is required: load_registry() is all or nothing.
THEOREM CastIsAllOrNothing == Spec => []CastIsComplete
<1>1. StoryInvariant => CastIsComplete
  BY DEF StoryInvariant, WholeCasts
<1> QED
  BY <1>1, StoryIsMade, PTL

\* The story model is never given an id for a name: whatever languages a
\* registry names its characters in, display_name() stops at a name that
\* _validate() demanded, and in the job's language if there is one.
EveryoneHasAName ==
    step \in {"story", "image", "send"} =>
        \A i \in DOMAIN storyPrompt.cast :
            LET c == cast[i]
            IN  storyPrompt.cast[i].called =
                    IF job.language \in DOMAIN c.names THEN job.language ELSE "en"

THEOREM NobodyIsCalledById == Spec => []EveryoneHasAName
<1>1. StoryInvariant => EveryoneHasAName
  <2> SUFFICES ASSUME StoryInvariant, step \in {"story", "image", "send"},
                      NEW i \in DOMAIN storyPrompt.cast
               PROVE  storyPrompt.cast[i].called =
                          IF job.language \in DOMAIN cast[i].names THEN job.language ELSE "en"
    BY DEF EveryoneHasAName
  <2>1. storyPrompt = ComposeStoryPrompt(cast)
    BY DEF StoryInvariant, PromptsOfCast
  <2>2. i \in DOMAIN cast /\ storyPrompt.cast[i].called = DisplayName(cast[i], job.language)
    BY <2>1 DEF ComposeStoryPrompt
  <2>3. ValidRegistry(cast)
    BY <2>2 DEF StoryInvariant, WholeCasts, Valid
  <2>4. "en" \in DOMAIN cast[i].names
    BY <2>2, <2>3 DEF ValidRegistry, ValidCharacter
  <2> QED
    BY <2>2, <2>4 DEF DisplayName
<1> QED
  BY <1>1, StoryIsMade, PTL

\* No line that split_illustration_hint() takes for the image model's is ever
\* sent to the chat, for answers of any number of lines with any number of them.
THEOREM MarkersStayInside == Spec => []NoMarkerInChat
<1>1. StoryInvariant => NoMarkerInChat
  BY DEF StoryInvariant, StoryIsClean
<1> QED
  BY <1>1, StoryIsMade, PTL

\* A text without a command reaches the job as the scene, whole, for texts of
\* any length: parse_text() cuts nothing off it.
THEOREM PlainTextIsKept == Spec => []PlainTextIsTheScene
<1>1. StoryInvariant => PlainTextIsTheScene
  <2> SUFFICES ASSUME StoryInvariant, step = "answered", update.chat,
                      Trimmed # <<>>, ~IsSlash(Trimmed[1]), ~IsToken(Trimmed[1])
               PROVE  outcome.job = [mode |-> "custom", wish |-> Trimmed]
    BY DEF PlainTextIsTheScene
  <2>1. update \in Updates /\ outcome = Reaction(update, hasCast)
    BY DEF StoryInvariant, AtTheWebTier, AnsweredAsRead
  <2> QED
    BY <2>1, PlainReaction DEF Trimmed
<1> QED
  BY <1>1, StoryIsMade, PTL

\* A language token in front of a message changes nothing but the language of
\* the reaction: split_language_token() leaves the message it stands before.
THEOREM TokenIsOnlyALanguage == Spec => []TokenOnlyChoosesLanguage
<1>1. StoryInvariant => TokenOnlyChoosesLanguage
  <2> DEFINE rest == Strip(After(Trimmed, " "))
  <2> SUFFICES ASSUME StoryInvariant, step = "answered", StartsWithToken(Trimmed),
                      rest # <<>>, ~IsToken(rest[1])
               PROVE  Anyhow(outcome) =
                      Anyhow(Reaction([update EXCEPT !.text = rest], hasCast))
    BY DEF TokenOnlyChoosesLanguage, Anyhow
  <2>1. update \in Updates /\ outcome = Reaction(update, hasCast)
    BY DEF StoryInvariant, AtTheWebTier, AnsweredAsRead
  <2>2. rest = Strip(After(Strip(update.text), " ")) /\ StartsWithToken(Strip(update.text))
    BY DEF Trimmed
  <2> HIDE DEF rest
  <2> QED
    BY <2>1, <2>2, TokenReaction
<1> QED
  BY <1>1, StoryIsMade, PTL

\* What the family reads is the whole story: every prose line of the accepted
\* answer, once and in its order, and no marker line, wherever the model put
\* them; split_illustration_hint() and strip() lose nothing that is told.
ReadsWholeStory ==
    sent.as \in {"caption", "message"} =>
        \E pos : IsWithout(sent.text, answer.raw, Len(answer.raw), pos, Lines \ {"blank"})

THEOREM WholeStoryIsRead == Spec => []ReadsWholeStory
<1>1. Spec => []StoryOfAnswer
  <2>1. Init => StoryOfAnswer
    BY StorySentInit
  <2>2. StoryInvariant /\ StoryOfAnswer /\ [Next]_vars => StoryOfAnswer'
    BY StorySentStep
  <2> QED
    BY <2>1, <2>2, StoryIsMade, PTL DEF Spec
<1>2. StoryOfAnswer => ReadsWholeStory
  <2> SUFFICES ASSUME StoryOfAnswer, sent.as \in {"caption", "message"}
               PROVE  \E pos : IsWithout(sent.text, answer.raw, Len(answer.raw), pos,
                                         Lines \ {"blank"})
    BY DEF ReadsWholeStory
  <2>1. answer.raw \in Seq(Lines) /\ sent.text = StoryOf(answer.raw)
    BY DEF StoryOfAnswer
  <2> QED
    BY <2>1, StoryIsItsProse
<1> QED
  BY <1>1, <1>2, PTL

\* The acknowledgement, the story and the apology of one message are all in the
\* language of its job, through any number of attempts and pods.
THEOREM SpeaksOneLanguage == Spec => []OneLanguage
<1>1. StoryInvariant => OneLanguage
  <2> SUFFICES ASSUME StoryInvariant PROVE OneLanguage
    OBVIOUS
  <2>1. spoken = {} \/ spoken = {job.language}
    BY DEF StoryInvariant, AtTheWebTier, JobSpeaks
  <2>2. Cardinality({}) = 0 /\ Cardinality({job.language}) = 1
    BY FS_EmptySet, FS_Singleton
  <2> QED
    BY <2>1, <2>2 DEF OneLanguage
<1> QED
  BY <1>1, StoryIsMade, PTL
=============================================================================
