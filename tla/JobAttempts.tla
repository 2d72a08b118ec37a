----------------------------- MODULE JobAttempts -----------------------------
(***************************************************************************)
(* What the attempts of one job leave behind: the objects they store under *)
(* the job's keys (adapters/storage_gcs.py, storage_localdir.py), the      *)
(* model calls they are billed for (story_vertex.py, image_vertex.py) and  *)
(* what the metrics count of them (pipeline.py, metrics.py).               *)
(***************************************************************************)
EXTENDS Naturals, FiniteSets

CONSTANT MaxAttempts    \* deliveries of the job

ASSUME AttemptsAssumption == MaxAttempts \in Nat \ {0}

Attempts == 1 .. MaxAttempts
Files == {"text", "image"}

VARIABLES
    step,           \* step[a]: the await of process() that attempt a is in
    acked,          \* an ack took effect
    overlapped,     \* <<b, a>>: a began while the older b was still running
    object,         \* object[f]: the attempt whose f is stored, 0 for none
    uploads,        \* <<f, a>>: uploads in a thread that nobody awaits
    cut,            \* <<f, a>>: uploads that were ever cut off
    shown,          \* attempts whose story the chat shows
    paid,           \* <<f, a>>: model calls billed
    counted,        \* attempts in JOB_COST, JOB_COST_TOTAL, JOBS_PROCESSED
    errors          \* attempts in JOBS_PROCESSED with status error

archive == <<object, uploads, cut>>
ledger  == <<paid, counted, errors>>
vars == <<step, acked, overlapped, archive, shown, ledger>>

TypeOK ==
    /\ step \in [Attempts -> {"none", "story", "picture", "saveText",
                              "saveImage", "send", "over"}]
    /\ acked \in BOOLEAN
    /\ overlapped \subseteq Attempts \X Attempts
    /\ object \in [Files -> 0 .. MaxAttempts]
    /\ uploads \subseteq cut /\ cut \subseteq Files \X Attempts
    /\ shown \subseteq Attempts
    /\ paid \subseteq Files \X Attempts
    /\ counted \subseteq Attempts /\ errors \subseteq Attempts

Init ==
    /\ step = [a \in Attempts |-> "none"]
    /\ acked = FALSE /\ overlapped = {}
    /\ object = [f \in Files |-> 0]
    /\ uploads = {} /\ cut = {} /\ shown = {}
    /\ paid = {} /\ counted = {} /\ errors = {}

Goto(a, next) == step' = [step EXCEPT ![a] = next]

\* What the await of a step calls in a thread: a model, or an upload; and the
\* file it makes.
Calls(a) == step[a] \in {"story", "picture"}
Uploads(a) == step[a] \in {"saveText", "saveImage"}
File(a) == IF step[a] \in {"story", "saveText"} THEN "text" ELSE "image"
Bill(a) == paid' = paid \cup {<<File(a), a>>}
Write(f, a) == object' = [object EXCEPT ![f] = a]

\* The subscription delivers the job again, perhaps while an older attempt runs
\* on: its lease may end before its time budget does.
Deliver(a) ==
    /\ ~acked
    /\ step[a] = "none"
    /\ \A b \in Attempts : b < a => step[b] # "none"
    /\ overlapped' = overlapped \cup {b \in Attempts : b < a /\ step[b] # "over"} \X {a}
    /\ Goto(a, "story")
    /\ UNCHANGED <<acked, archive, shown, ledger>>

\* The story, then the picture.
Generate(a) ==
    /\ Calls(a)
    /\ Bill(a)
    /\ Goto(a, IF step[a] = "story" THEN "picture" ELSE "saveText")
    /\ UNCHANGED <<acked, overlapped, archive, shown, counted, errors>>

\* Mutant: the upload is started and not awaited.
SaveInBackground(a) ==
    /\ Uploads(a)
    /\ uploads' = uploads \cup {<<File(a), a>>}
    /\ Goto(a, IF step[a] = "saveText" THEN "saveImage" ELSE "send")
    /\ UNCHANGED <<acked, overlapped, object, cut, shown, ledger>>

\* storage.save() of the text, then of the image, each over what is there.
Save(a) ==
    /\ Uploads(a)
    /\ Write(File(a), a)
    /\ Goto(a, IF step[a] = "saveText" THEN "saveImage" ELSE "send")
    /\ UNCHANGED <<acked, overlapped, uploads, cut, shown, ledger>>

\* The chat has story and picture; the job is counted and acked, and the ack may
\* be lost.
Reply(a) ==
    /\ step[a] = "send"
    /\ shown' = shown \cup {a}
    /\ counted' = counted \cup {a}
    /\ acked' \in {acked, TRUE}
    /\ Goto(a, "over")
    /\ UNCHANGED <<overlapped, archive, paid, errors>>

\* Mutant: the cost is booked on the way out, whatever happened.
FailCounted(a) ==
    /\ step[a] \notin {"none", "over"}
    /\ Goto(a, "over")
    /\ errors' = errors \cup {a}
    /\ counted' = counted \cup {a}
    /\ UNCHANGED <<acked, overlapped, archive, shown, paid>>

\* A step raises: a rejected answer is billed, a failed request may have had its
\* effect. The attempt is counted as an error, its cost is not.
Fail(a) ==
    /\ step[a] \notin {"none", "over"}
    /\ \/ UNCHANGED <<object, shown, paid>>
       \/ Calls(a) /\ Bill(a) /\ UNCHANGED <<object, shown>>
       \/ Uploads(a) /\ Write(File(a), a) /\ UNCHANGED <<shown, paid>>
       \/ step[a] = "send" /\ shown' = shown \cup {a} /\ UNCHANGED <<object, paid>>
    /\ errors' = errors \cup {a}
    /\ Goto(a, "over")
    /\ UNCHANGED <<acked, overlapped, uploads, cut, counted>>

\* The time budget, the drain window or a kill ends process() at an await: no
\* handler runs and nothing is counted; the call goes on in its thread, is
\* billed, and an upload may still be written.
Cut(a) ==
    /\ step[a] \notin {"none", "over"}
    /\ \/ UNCHANGED <<uploads, cut, shown, paid>>
       \/ Calls(a) /\ Bill(a) /\ UNCHANGED <<uploads, cut, shown>>
       \/ /\ Uploads(a)
          /\ uploads' = uploads \cup {<<File(a), a>>}
          /\ cut' = cut \cup {<<File(a), a>>}
          /\ UNCHANGED <<shown, paid>>
       \/ step[a] = "send" /\ shown' = shown \cup {a} /\ UNCHANGED <<uploads, cut, paid>>
    /\ Goto(a, "over")
    /\ UNCHANGED <<acked, overlapped, object, counted, errors>>

\* A call that nobody awaits is written after all, or fails.
LateUpload(f, a) ==
    /\ <<f, a>> \in uploads
    /\ uploads' = uploads \ {<<f, a>>}
    /\ Write(f, a) \/ UNCHANGED object
    /\ UNCHANGED <<step, acked, overlapped, cut, shown, ledger>>

Advance(a) == Generate(a) \/ Save(a) \/ Reply(a) \/ Fail(a) \/ Cut(a)

Next ==
    \/ \E a \in Attempts : Deliver(a)
    \/ \E a \in Attempts : Advance(a)
    \/ \E f \in Files, a \in Attempts : LateUpload(f, a)

Spec == Init /\ [][Next]_vars

-----------------------------------------------------------------------------
(* Properties.                                                             *)

\* The chat has a's reply, or is about to get it.
Replied(a) == a \in shown \/ step[a] = "send"

\* c's f may stand where a replied: a later attempt has replaced it, which has
\* made both files before it stores one; or c's upload was cut off and landed
\* late; or c was still running when a began.
MayReplace(f, c, a) ==
    \/ c > a /\ Files \X {c} \subseteq paid
    \/ <<f, c>> \in cut
    \/ <<c, a>> \in overlapped

\* docs/design/reliability.md: storing a job again is an idempotent overwrite.
\* Each file of a reply is in the store, that of the attempt that replied, or
\* what replaced it is one of these: nothing else writes late, an older attempt
\* that ended leaves the newer one's files alone, and so does a later one that
\* fails in a model call.
ReplyMatchesArchive ==
    \A a \in Attempts, f \in Files :
        Replied(a) => object[f] = a \/ MayReplace(f, object[f], a)

\* What is counted as a success was billed for both calls, shown, and archived
\* by some attempt; and no attempt is counted as a success and as an error.
SuccessIsReal ==
    /\ \A a \in counted : a \in shown /\ Files \X {a} \subseteq paid
    /\ counted # {} => \A f \in Files : object[f] # 0
    /\ counted \cap errors = {}
=============================================================================
