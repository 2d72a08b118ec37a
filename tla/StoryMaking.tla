---------------------------- MODULE StoryMaking -----------------------------
(***************************************************************************)
(* What becomes of one message of the family. The web tier reads it        *)
(* (Conversation) and queues a job; a worker pod, with the cast it loaded  *)
(* at startup (characters.py), builds the prompts (prompts.py), checks the *)
(* story model's answer and splits it (story_vertex.py, story_common.py),  *)
(* builds the image prompt under its cap (image_vertex.py) and replies     *)
(* (pipeline.py, telegram.py), while the registry file is edited and pods  *)
(* are replaced. Generated text is kept as lines and lengths.              *)
(***************************************************************************)
EXTENDS Conversation

CONSTANTS
    Files,          \* contents the registry file can have, or Absent
    Absent,         \* no registry file
    Required,       \* characters_required
    MaxLines        \* bound: lines of a model's answer

MaxCharacters == 8
MaxName == 40
MinAppearance == 10
MaxAppearance == 300
MaxHint == 400
MaxPrompt == 4000
CaptionLimit == 1024

\* The lengths of the fixed parts of compose_image_prompt.
ScenePrefix == 44
FallbackScene == 36
CastHeader == 55
StyleSuffix == 140

\* A character's names are kept as their lengths, by language.
ASSUME StoryAssumption ==
    /\ \A f \in Files \ {Absent} :
          /\ f \in Seq({f[i] : i \in DOMAIN f})
          /\ \A i \in DOMAIN f :
                /\ f[i].id \in STRING
                /\ DOMAIN f[i].names \subseteq Languages \cup {"xx"}
                /\ \A l \in DOMAIN f[i].names : f[i].names[l] \in Nat
                /\ f[i].appearance \in Nat
                /\ f[i].english \in BOOLEAN
    /\ Required \in BOOLEAN
    /\ MaxLines \in Nat

\* Lines of a story model's answer; a marker line starts with ILLUSTRATION:.
Markers == {"hint", "longHint", "bareMarker"}
Lines == {"prose", "blank"} \cup Markers
LineLength == [l \in Lines |-> CASE l = "prose"    -> 600
                                 [] l = "hint"     -> 120
                                 [] l = "longHint" -> 2500
                                 [] OTHER          -> 0]
FinishReasons == {"none", "STOP", "MAX_TOKENS", "SAFETY"}
Answers == [finish : FinishReasons, raw : UNION {[1 .. n -> Lines] : n \in 0 .. MaxLines}]

VARIABLES
    update,         \* the message the web tier has to handle
    hasCast,        \* whether the web tier has loaded characters
    outcome,        \* what handle_update made of it
    job,            \* the job it minted
    file,           \* the registry file as mounted now
    pod,            \* the worker's: "down", "running", or "failed" to start
    registry,       \* the cast it loaded
    step,           \* where the message is: "asked", "answered" by the web tier,
                    \* "queued", in an await of process() ("story", "image",
                    \* "send"), or "done"
    cast,           \* local of process()
    storyPrompt,    \* its language and the cast named in it
    answer,         \* the story model's answer, once accepted
    story,          \* lines of StoryResult.text
    imagePrompt,    \* cast named in the image prompt, and its length
    sent,           \* what the chat shows: text lines and how
    spoken          \* languages the chat was addressed in

web == <<update, hasCast, outcome>>
attempt == <<cast, storyPrompt, answer, story, imagePrompt>>
vars == <<web, job, file, pod, registry, step, attempt, sent, spoken>>

NoUpdate == [chat |-> FALSE, text |-> <<>>, hint |-> <<>>]
Unqueued == [mode |-> "none", language |-> "none"]
NoStoryPrompt == [language |-> "none", cast |-> <<>>]
NoAnswer == [finish |-> "none", raw |-> <<>>]
NoPrompt == [cast |-> <<>>, length |-> 0]
Nothing  == [text |-> <<>>, as |-> "nothing"]

Init ==
    /\ update \in Updates
    /\ hasCast \in BOOLEAN
    /\ outcome = NotHandled
    /\ job = Unqueued
    /\ file = Absent
    /\ pod = "down"
    /\ registry = <<>>
    /\ step = "asked"
    /\ cast = <<>>
    /\ storyPrompt = NoStoryPrompt
    /\ answer = NoAnswer
    /\ story = <<>>
    /\ imagePrompt = NoPrompt
    /\ sent = Nothing
    /\ spoken = {}

-----------------------------------------------------------------------------
(* The web tier: dispatch.py. It shares nothing with the worker but the    *)
(* job, so the worker's steps wait until there is one.                     *)

HandleUpdate ==
    /\ step = "asked"
    /\ outcome' = Reaction(update, hasCast)
    /\ step' = "answered"
    /\ UNCHANGED <<update, hasCast, job, file, pod, registry, attempt, sent, spoken>>

\* Mutant: the job does not carry the language; the worker reads the default.
NewJobDefault(mode, language) == [mode |-> mode, language |-> "ru"]

\* new_job(): the request's wording goes into the prompt, and is left out here.
NewJob(mode, language) == [mode |-> mode, language |-> language]

\* _enqueue() acknowledges and publishes the job; handle_update is over.
Enqueue ==
    /\ step = "answered" /\ outcome.result = "accepted"
    /\ job' = NewJob(outcome.job.mode, outcome.lang)
    /\ spoken' = {outcome.lang}
    /\ update' = NoUpdate /\ hasCast' = FALSE /\ outcome' = NotHandled
    /\ step' = "queued"
    /\ UNCHANGED <<file, pod, registry, attempt, sent>>

-----------------------------------------------------------------------------
(* characters.py                                                           *)

\* The checks on one character, those on text as one flag.
ValidCharacter(c) ==
    /\ c.appearance \in MinAppearance .. MaxAppearance
    /\ c.english
    /\ "en" \in DOMAIN c.names
    /\ DOMAIN c.names \subseteq Languages
    /\ \A l \in DOMAIN c.names : c.names[l] \in 1 .. MaxName

\* _validate()
ValidRegistry(f) ==
    /\ Len(f) <= MaxCharacters
    /\ \A i \in DOMAIN f : ValidCharacter(f[i])
    /\ \A i, j \in DOMAIN f : i # j => f[i].id # f[j].id

\* display_name(): the language of the name a character goes by.
DisplayName(c, l) ==
    IF l \in DOMAIN c.names THEN l ELSE IF "en" \in DOMAIN c.names THEN "en" ELSE "id"

\* A new ConfigMap: the mount changes under a running pod.
EditFile(f) ==
    /\ job # Unqueued
    /\ f # file
    /\ file' = f
    /\ UNCHANGED <<web, job, pod, registry, step, attempt, sent, spoken>>

\* Mutant: characters that do not validate are left out.
StartPodLenient ==
    /\ pod # "running" /\ job # Unqueued
    /\ pod' = "running"
    /\ registry' = IF file = Absent THEN <<>> ELSE SelectSeq(file, ValidCharacter)
    /\ UNCHANGED <<web, job, file, step, attempt, sent, spoken>>

\* load_registry() in the lifespan: an invalid file is fatal, an absent one if
\* it is required.
StartPod ==
    /\ pod # "running" /\ job # Unqueued
    /\ IF IF file = Absent THEN ~Required ELSE ValidRegistry(file)
         THEN pod' = "running" /\ registry' = IF file = Absent THEN <<>> ELSE file
         ELSE pod' = "failed" /\ UNCHANGED registry
    /\ UNCHANGED <<web, job, file, step, attempt, sent, spoken>>

\* An attempt ends; its locals are gone.
Forget ==
    /\ cast' = <<>>
    /\ storyPrompt' = NoStoryPrompt
    /\ answer' = NoAnswer
    /\ story' = <<>>
    /\ imagePrompt' = NoPrompt

\* The pod is replaced; what it has not finished is delivered again.
StopPod ==
    /\ pod = "running"
    /\ pod' = "down"
    /\ registry' = <<>>
    /\ IF step = "done" THEN UNCHANGED <<step, attempt>> ELSE step' = "queued" /\ Forget
    /\ UNCHANGED <<web, job, file, sent, spoken>>

-----------------------------------------------------------------------------
(* Pipeline.process, up to its awaits.                                     *)

\* compose_story_prompt() and the system prompt of the job's language.
ComposeStoryPrompt(chars) ==
    [language |-> Resolve(<<job.language>>),
     cast |-> [i \in DOMAIN chars |->
                 [who |-> chars[i].id, looks |-> chars[i].appearance,
                  called |-> DisplayName(chars[i], job.language)]]]

\* The cast is resolved once, for fairy tales only, and goes into the prompt.
Begin ==
    /\ pod = "running" /\ step = "queued"
    /\ cast' = IF job.mode = "fairytale" THEN registry ELSE <<>>
    /\ storyPrompt' = ComposeStoryPrompt(cast')
    /\ step' = "story"
    /\ UNCHANGED <<web, job, file, pod, registry, answer, story, imagePrompt, sent, spoken>>

IsMarker(line) == line \in Markers
IsProse(line) == ~IsMarker(line)

\* strip() of the joined lines.
StripBlank(s) ==
    LET kept == {i \in DOMAIN s : s[i] # "blank"}
    IN  IF kept = {} THEN <<>> ELSE SubSeq(s, Min(kept), Max(kept))

\* Mutant: only the last line may be the illustration line.
StoryOfLastLine(raw) ==
    StripBlank(IF raw # <<>> /\ IsMarker(raw[Len(raw)])
                 THEN SubSeq(raw, 1, Len(raw) - 1) ELSE raw)

\* The loop of split_illustration_hint(): lines that are not a marker's.
StoryLines(raw) ==
    LET lines[n \in 0 .. Len(raw)] ==
            IF n = 0 THEN <<>>
            ELSE IF IsProse(raw[n]) THEN Append(lines[n - 1], raw[n]) ELSE lines[n - 1]
    IN  lines[Len(raw)]

\* Its results: the lines, stripped, and the last marker's hint.
StoryOf(raw) == StripBlank(StoryLines(raw))
HintOf(raw) ==
    LET marks == {i \in DOMAIN raw : IsMarker(raw[i])}
    IN  IF marks = {} THEN 0 ELSE LineLength[raw[Max(marks)]]

\* The checks of VertexStoryProvider.generate on finish_reason and text.
Accepted(a) == a.finish \in {"none", "STOP"} /\ a.raw # <<>>

\* Mutant: the hint goes into the prompt in full.
SceneUncut(hint) == IF hint = 0 THEN FallbackScene ELSE hint

\* hint[:_MAX_HINT_CHARS], or the fallback.
Scene(hint) == IF hint = 0 THEN FallbackScene ELSE Min({hint, MaxHint})

\* Length of "- name: appearance." and of the whole prompt.
Described(c) == 2 + c.names["en"] + 2 + c.appearance + 1
PromptLength(hint, chars) ==
    ScenePrefix + Scene(hint) + 2 + StyleSuffix +
        (IF chars = <<>> THEN 0
         ELSE 2 + CastHeader + (Len(chars) - 1) +
              MapThenSumSet(LAMBDA i : Described(chars[i]), DOMAIN chars))

\* The image prompt of these characters, by their English names.
Illustration(hint, chars) ==
    [cast |-> [i \in DOMAIN chars |->
                 [who |-> chars[i].id, looks |-> chars[i].appearance, called |-> "en"]],
     length |-> PromptLength(hint, chars)]

\* Mutant: the illustration takes the cast of the registry file as it is now.
ComposeFromFile(hint) ==
    Illustration(hint, IF job.mode = "fairytale" /\ file # Absent /\ ValidRegistry(file)
                         THEN file ELSE <<>>)

\* compose_image_prompt()
ComposeImagePrompt(hint) == Illustration(hint, cast)

\* The story model answers; without another await the image prompt is composed.
StoryAnswers(a) ==
    /\ step = "story"
    /\ Accepted(a)
    /\ answer' = a
    /\ story' = StoryOf(a.raw)
    /\ imagePrompt' = ComposeImagePrompt(HintOf(a.raw))
    /\ step' = "image"
    /\ UNCHANGED <<web, job, file, pod, registry, cast, storyPrompt, sent, spoken>>

\* The image model returns an image; both files are stored (JobDelivery).
ImageAnswers ==
    /\ step = "image"
    /\ step' = "send"
    /\ UNCHANGED <<web, job, file, pod, registry, attempt, sent, spoken>>

\* A model refuses, raises or gives an answer that is not accepted, or storing
\* or sending raises; the job will be delivered again.
Fail ==
    /\ step \in {"story", "image", "send"}
    /\ step' = "queued"
    /\ Forget
    /\ UNCHANGED <<web, job, file, pod, registry, sent, spoken>>

\* The same on the last attempt (JobDelivery counts them): the chat is told.
GiveUp ==
    /\ step \in {"story", "image", "send"}
    /\ sent' = [text |-> <<>>, as |-> "apology"]
    /\ spoken' = spoken \cup {Resolve(<<job.language>>)}
    /\ step' = "done"
    /\ Forget
    /\ UNCHANGED <<web, job, file, pod, registry>>

\* len() of the story text, with its line breaks.
StoryLength ==
    MapThenSumSet(LAMBDA i : LineLength[story[i]], DOMAIN story) +
        (IF story = <<>> THEN 0 ELSE Len(story) - 1)

\* send_story_and_image(): a caption, or a message before the photo.
Send ==
    /\ step = "send"
    /\ sent' = [text |-> story,
                as |-> IF StoryLength <= CaptionLimit THEN "caption" ELSE "message"]
    /\ spoken' = spoken \cup {storyPrompt.language}
    /\ step' = "done"
    /\ UNCHANGED <<web, job, file, pod, registry, attempt>>

Next ==
    \/ HandleUpdate
    \/ Enqueue
    \/ \E f \in Files : EditFile(f)
    \/ StartPod
    \/ StopPod
    \/ Begin
    \/ \E a \in Answers : StoryAnswers(a)
    \/ ImageAnswers
    \/ Fail
    \/ GiveUp
    \/ Send

Spec == Init /\ [][Next]_vars

-----------------------------------------------------------------------------
(* Properties.                                                             *)

\* The image adapter's cap never cuts the cast or the style off the prompt: the
\* limits that the registry and the hint are held to fit into it together.
PromptIsNeverCut == imagePrompt.length <= MaxPrompt

Looks(chars) == [i \in DOMAIN chars |-> <<chars[i].who, chars[i].looks>>]

\* A story and its illustration agree about who is in them and what they look
\* like, also when the registry was edited between the two model calls.
SameCastInBoth ==
    step \in {"image", "send"} => Looks(imagePrompt.cast) = Looks(storyPrompt.cast)

\* A pod runs with all characters of a valid file or, if that is allowed, with
\* no file at all; never with a part of one.
CastIsComplete ==
    pod = "running" =>
        \/ registry \in Files \ {Absent} /\ ValidRegistry(registry)
        \/ ~Required /\ registry = <<>>

\* The line meant for the image model is never shown to the family.
NoMarkerInChat == \A i \in DOMAIN sent.text : ~IsMarker(sent.text[i])

Trimmed == Strip(update.text)

\* What the family types without a command is the scene they asked for, in full
\* and in their words; no part of it is taken for a command or a language.
PlainTextIsTheScene ==
    (/\ step = "answered" /\ update.chat
     /\ Trimmed # <<>> /\ ~IsSlash(Trimmed[1]) /\ ~IsToken(Trimmed[1]))
        => outcome.job = [mode |-> "custom", wish |-> Trimmed]

\* A language in front of a message changes the language of the answer and
\* nothing else: the rest means what it would mean alone.
TokenOnlyChoosesLanguage ==
    LET rest == Strip(After(Trimmed, " "))
    IN  (/\ step = "answered" /\ StartsWithToken(Trimmed)
         /\ rest # <<>> /\ ~IsToken(rest[1]))
            => [outcome EXCEPT !.lang = "any"] =
               [Reaction([update EXCEPT !.text = rest], hasCast) EXCEPT !.lang = "any"]

\* One message is answered in one language: the acknowledgement by the web tier,
\* the story or the apology by the worker, whatever was tried in between.
OneLanguage == Cardinality(spoken) <= 1
=============================================================================
