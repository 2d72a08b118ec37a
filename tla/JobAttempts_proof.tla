------------------------- MODULE JobAttempts_proof -------------------------
(***************************************************************************)
(* For any number of attempts: what JobAttempts counts as a success is     *)
(* one, and the archive of a reply is lost to nobody but those that        *)
(* MayReplace it. The inductive invariant says what each step presupposes. *)
(***************************************************************************)
EXTENDS JobAttempts, TLAPS

\* Which calls an attempt has paid for when it is at a step.
Progress ==
    \A a \in Attempts :
        /\ step[a] \in {"picture", "saveText", "saveImage", "send"} => <<"text", a>> \in paid
        /\ step[a] \in {"saveText", "saveImage", "send"} => <<"image", a>> \in paid
        /\ step[a] \in {"saveImage", "send"} => object["text"] # 0
        /\ step[a] = "send" => object["image"] # 0

\* An attempt is counted at its end, in one way.
Counts ==
    /\ \A a \in counted : /\ a \in shown /\ step[a] = "over"
                          /\ <<"text", a>> \in paid /\ <<"image", a>> \in paid
    /\ counted # {} => object["text"] # 0 /\ object["image"] # 0
    /\ \A a \in errors : step[a] = "over" /\ a \notin counted
    /\ \A a \in shown : step[a] = "over"

\* An older attempt is over, or has been noted as overlapping.
Serial ==
    \A a, b \in Attempts :
        (b < a /\ step[a] # "none") => step[b] = "over" \/ <<b, a>> \in overlapped

\* a has stored its f and has not failed since.
Has(a, f) == Replied(a) \/ (f = "text" /\ step[a] = "saveImage")

\* What an attempt has stored is there, or replaced by one that may.
Owned ==
    \A a \in Attempts, f \in Files :
        Has(a, f) => object[f] = a \/ MayReplace(f, object[f], a)

IInv == TypeOK /\ Progress /\ Counts /\ Serial /\ Owned

LEMMA InitIInv == Init => IInv
<1> SUFFICES ASSUME Init PROVE IInv
  OBVIOUS
<1> USE AttemptsAssumption DEF AttemptsAssumption, Init, Attempts, Files
<1>1. TypeOK
  <2>1. object \in [Files -> 0 .. MaxAttempts]
    OBVIOUS
  <2>3. acked \in BOOLEAN /\ overlapped \subseteq Attempts \X Attempts
    OBVIOUS
  <2>2. uploads \subseteq cut /\ cut \subseteq Files \X Attempts /\ paid \subseteq Files \X Attempts
    OBVIOUS
  <2> QED
    BY <2>1, <2>2, <2>3 DEF TypeOK
<1>2. Progress /\ Counts
  BY DEF Progress, Counts
<1>3. Serial /\ Owned
  BY DEF Serial, Owned, Has, Replied
<1> QED
  BY <1>1, <1>2, <1>3 DEF IInv

\* Every variable keeps its type.
LEMMA NextTypeOK == TypeOK /\ [Next]_vars => TypeOK'
<1> SUFFICES ASSUME TypeOK, [Next]_vars PROVE TypeOK'
  OBVIOUS
<1> USE AttemptsAssumption DEF AttemptsAssumption, TypeOK, Attempts, Files, archive,
        ledger, Goto, Write, Bill, File, Calls, Uploads
<1>1. ASSUME NEW a \in Attempts, Deliver(a) PROVE TypeOK'
  BY <1>1 DEF Deliver
<1>2. ASSUME NEW a \in Attempts, Generate(a) PROVE TypeOK'
  BY <1>2 DEF Generate
<1>3. ASSUME NEW a \in Attempts, Save(a) PROVE TypeOK'
  BY <1>3 DEF Save
<1>4. ASSUME NEW a \in Attempts, Reply(a) PROVE TypeOK'
  BY <1>4 DEF Reply
<1>5. ASSUME NEW a \in Attempts, Fail(a) PROVE TypeOK'
  <2>1. step' \in [Attempts -> {"none", "story", "picture", "saveText", "saveImage", "send", "over"}]
    BY <1>5 DEF Fail
  <2>2. object' \in [Files -> 0 .. MaxAttempts]
    BY <1>5 DEF Fail
  <2>3. paid' \subseteq Files \X Attempts
    BY <1>5 DEF Fail
  <2> QED
    BY <1>5, <2>1, <2>2, <2>3 DEF Fail
<1>6. ASSUME NEW a \in Attempts, Cut(a) PROVE TypeOK'
  <2>1. step' \in [Attempts -> {"none", "story", "picture", "saveText", "saveImage", "send", "over"}]
    BY <1>6 DEF Cut
  <2>2. File(a) \in Files
    OBVIOUS
  <2>4. cut \subseteq cut' /\ (cut' = cut \/ cut' = cut \cup {<<File(a), a>>})
    BY <1>6 DEF Cut
  <2>5. uploads' = uploads \/ (uploads' = uploads \cup {<<File(a), a>>} /\ <<File(a), a>> \in cut')
    BY <1>6 DEF Cut
  <2>6. uploads' \subseteq cut' /\ cut' \subseteq Files \X Attempts
    BY <2>2, <2>4, <2>5
  <2>3. paid' \subseteq Files \X Attempts
    BY <1>6 DEF Cut
  <2> QED
    BY <1>6, <2>1, <2>3, <2>6 DEF Cut
<1>7. ASSUME NEW f \in Files, NEW a \in Attempts, LateUpload(f, a) PROVE TypeOK'
  BY <1>7 DEF LateUpload
<1>8. CASE UNCHANGED vars
  BY <1>8 DEF vars
<1>9. QED
  BY <1>1, <1>2, <1>3, <1>4, <1>5, <1>6, <1>7, <1>8 DEF Next, Advance

\* A step that writes no file keeps Owned, as long as no attempt comes to have
\* a file.
LEMMA OwnedStays ==
    ASSUME Owned, paid \subseteq paid', cut \subseteq cut', overlapped \subseteq overlapped',
           UNCHANGED object,
           \A a \in Attempts, f \in Files : Has(a, f)' => Has(a, f)
    PROVE  Owned'
BY DEF Owned, MayReplace

\* One that writes f for c keeps it if c may replace what the others have.
LEMMA OwnedByWriter ==
    ASSUME Owned, TypeOK, paid \subseteq paid', cut \subseteq cut',
           overlapped \subseteq overlapped',
           NEW f \in Files, NEW c \in Attempts, Write(f, c),
           \A a \in Attempts, g \in Files : Has(a, g)' => Has(a, g) \/ (a = c /\ g = f),
           \A a \in Attempts : a # c /\ Has(a, f) => MayReplace(f, c, a)
    PROVE  Owned'
<1> SUFFICES ASSUME NEW a \in Attempts, NEW g \in Files, Has(a, g)'
             PROVE  (object[g] = a \/ MayReplace(g, object[g], a))'
  BY DEF Owned
<1>1. \A h \in Files : object'[h] = IF h = f THEN c ELSE object[h]
  BY DEF Write, TypeOK
<1>2. CASE g = f
  <2>1. a = c \/ MayReplace(f, c, a)
    BY <1>2
  <2> QED
    BY <1>1, <1>2, <2>1 DEF MayReplace
<1>3. CASE g # f
  <2>1. object[g] = a \/ MayReplace(g, object[g], a)
    BY <1>3 DEF Owned
  <2> QED
    BY <1>1, <1>3, <2>1 DEF MayReplace
<1> QED
  BY <1>2, <1>3

\* A running attempt may replace what any other has stored: it has paid for both
\* files, and an older one overlaps.
LEMMA RunnerMayReplace ==
    ASSUME IInv, NEW c \in Attempts, Uploads(c), NEW f \in Files,
           NEW a \in Attempts, a # c, Has(a, f)
    PROVE  MayReplace(f, c, a)
<1>1. Files \X {c} \subseteq paid
  <2>1. <<"text", c>> \in paid /\ <<"image", c>> \in paid
    BY DEF IInv, Progress, Uploads
  <2>2. ASSUME NEW g \in Files PROVE <<g, c>> \in paid
    BY <2>1 DEF Files
  <2> QED
    BY <2>2
<1>2. step[a] # "none" /\ step[c] # "over"
  BY DEF IInv, Counts, Has, Replied, Uploads
<1>3. c > a \/ c < a
  BY AttemptsAssumption DEF AttemptsAssumption, Attempts
<1> QED
  BY <1>1, <1>2, <1>3 DEF IInv, Serial, MayReplace

\* One step per action; Owned by the lemmas above.
LEMMA NextIInv == IInv /\ [Next]_vars => IInv'
<1> SUFFICES ASSUME IInv, [Next]_vars PROVE IInv'
  OBVIOUS
<1>t. TypeOK'
  BY NextTypeOK DEF IInv
<1>a. \A a \in Attempts : a # 0
  BY AttemptsAssumption DEF AttemptsAssumption, Attempts
<1>s. DOMAIN step = Attempts
  BY DEF IInv, TypeOK
<1> USE <1>t DEF IInv, TypeOK, Progress, Counts, Serial, archive, ledger, Goto
<1>1. ASSUME NEW a \in Attempts, Deliver(a) PROVE IInv'
  <2>1. /\ step' = [step EXCEPT ![a] = "story"] /\ step[a] = "none"
        /\ \A b \in Attempts : b < a => step[b] # "none"
        /\ UNCHANGED <<object, cut, shown, paid, counted, errors>>
    BY <1>1 DEF Deliver
  <2>2. /\ overlapped \subseteq overlapped'
        /\ \A b \in Attempts : b < a => step[b] = "over" \/ <<b, a>> \in overlapped'
    BY <1>1 DEF Deliver
  <2>3. Progress' /\ Counts'
    BY <2>1
  <2>4. Serial'
    <3> SUFFICES ASSUME NEW c \in Attempts, NEW b \in Attempts, b < c, step'[c] # "none"
                 PROVE  step'[b] = "over" \/ <<b, c>> \in overlapped'
      BY DEF Serial
    <3>1. CASE c = a
      <4>1. b # a
        BY <3>1 DEF Attempts
      <4> QED
        BY <2>1, <2>2, <3>1, <4>1
    <3>2. CASE c # a
      BY <2>1, <2>2, <3>2
    <3> QED
      BY <3>1, <3>2
  <2>5. Owned'
    <3>1. \A b \in Attempts, f \in Files : Has(b, f)' => Has(b, f)
      BY <2>1 DEF Has, Replied
    <3> QED
      BY <2>1, <2>2, <3>1, OwnedStays
  <2> QED
    BY <2>3, <2>4, <2>5
<1>2. ASSUME NEW a \in Attempts, Generate(a) PROVE IInv'
  <2>1. /\ paid' = paid \cup {<<File(a), a>>}
        /\ step' = [step EXCEPT ![a] = IF step[a] = "story" THEN "picture" ELSE "saveText"]
        /\ step[a] \in {"story", "picture"}
        /\ UNCHANGED <<overlapped, object, cut, shown, counted, errors>>
    BY <1>2 DEF Generate, Bill, Calls
  <2>2. Progress'
    BY <2>1 DEF File
  <2>3. Counts' /\ Serial'
    BY <2>1
  <2>4. Owned'
    <3>1. \A b \in Attempts, f \in Files : Has(b, f)' => Has(b, f)
      BY <2>1 DEF Has, Replied
    <3> QED
      BY <2>1, <3>1, OwnedStays
  <2> QED
    BY <2>2, <2>3, <2>4
<1>3. ASSUME NEW a \in Attempts, Save(a) PROVE IInv'
  <2>1. /\ Uploads(a) /\ Write(File(a), a) /\ File(a) \in Files
        /\ step' = [step EXCEPT ![a] = IF step[a] = "saveText" THEN "saveImage" ELSE "send"]
        /\ UNCHANGED <<overlapped, cut, shown, paid, counted, errors>>
    BY <1>3 DEF Save, File, Files
  <2>2. Progress' /\ Counts' /\ Serial'
    BY <1>a, <2>1 DEF Write, File, Uploads, Files
  <2>3. Owned'
    <3>1. \A b \in Attempts, g \in Files :
              Has(b, g)' => Has(b, g) \/ (b = a /\ g = File(a))
      BY <2>1 DEF Has, Replied, File, Uploads, Files
    <3>2. \A b \in Attempts : b # a /\ Has(b, File(a)) => MayReplace(File(a), a, b)
      BY <2>1, RunnerMayReplace
    <3> QED
      BY <2>1, <3>1, <3>2, OwnedByWriter
  <2> QED
    BY <2>2, <2>3
<1>4. ASSUME NEW a \in Attempts, Reply(a) PROVE IInv'
  <2>1. /\ counted' = counted \cup {a} /\ shown' = shown \cup {a}
        /\ step' = [step EXCEPT ![a] = "over"] /\ step[a] = "send"
        /\ UNCHANGED <<overlapped, object, cut, paid, errors>>
    BY <1>4 DEF Reply
  <2>2. /\ <<"text", a>> \in paid /\ <<"image", a>> \in paid
        /\ object["text"] # 0 /\ object["image"] # 0
    BY <2>1
  <2>3. Progress' /\ Serial'
    BY <2>1
  <2>4. Counts'
    BY <2>1, <2>2
  <2>5. Owned'
    <3>1. \A b \in Attempts, f \in Files : Has(b, f)' => Has(b, f)
      BY <2>1 DEF Has, Replied
    <3> QED
      BY <2>1, <3>1, OwnedStays
  <2> QED
    BY <2>3, <2>4, <2>5
<1>5. ASSUME NEW a \in Attempts, Fail(a) PROVE IInv'
  <2>1. paid \subseteq paid' /\ shown \subseteq shown' /\ shown' \subseteq shown \cup {a}
    BY <1>5 DEF Fail, Bill
  <2>2. object' = object \/ (Uploads(a) /\ Write(File(a), a) /\ UNCHANGED <<shown, paid>>)
    BY <1>5 DEF Fail
  <2>3. /\ step' = [step EXCEPT ![a] = "over"] /\ step[a] \notin {"none", "over"}
        /\ counted' = counted /\ UNCHANGED <<cut, overlapped>>
    BY <1>5 DEF Fail
  <2>4. errors' = errors \cup {a} /\ a \notin counted
    BY <1>5 DEF Fail
  <2>5. \A f \in Files : object'[f] \in {object[f], a}
    BY <2>2 DEF Write
  <2>6. Progress'
    <3> SUFFICES ASSUME NEW b \in Attempts, step'[b] # "over" PROVE step'[b] = step[b]
      BY <1>a, <2>1, <2>3, <2>5 DEF Files
    <3> QED
      BY ONLY <1>s, <2>3, step'[b] # "over"
  <2>7. Counts'
    BY <1>a, <2>1, <2>3, <2>4, <2>5 DEF Files
  <2>8. Serial'
    BY <2>3
  <2>9. Owned'
    <3>1. \A b \in Attempts, f \in Files : Has(b, f)' => Has(b, f)
      <4>1. a \in shown' => a \in shown \/ step[a] = "send"
        BY <1>5 DEF Fail
      <4> QED
        BY <2>1, <2>3, <4>1 DEF Has, Replied
    <3>2. CASE object' = object
      BY <2>1, <2>3, <3>1, <3>2, OwnedStays
    <3>3. CASE Uploads(a) /\ Write(File(a), a) /\ UNCHANGED <<shown, paid>>
      <4>1. File(a) \in Files
        BY DEF File, Files
      <4>2. \A b \in Attempts : b # a /\ Has(b, File(a)) => MayReplace(File(a), a, b)
        BY <3>3, <4>1, RunnerMayReplace
      <4> QED
        BY <2>3, <3>1, <3>3, <4>1, <4>2, OwnedByWriter
    <3> QED
      BY <2>2, <3>2, <3>3
  <2> QED
    BY <2>6, <2>7, <2>8, <2>9
<1>6. ASSUME NEW a \in Attempts, Cut(a) PROVE IInv'
  <2>1. /\ step' = [step EXCEPT ![a] = "over"] /\ step[a] \notin {"none", "over"}
        /\ UNCHANGED <<object, overlapped, counted, errors>>
        /\ paid \subseteq paid' /\ cut \subseteq cut'
        /\ shown \subseteq shown' /\ shown' \subseteq shown \cup {a}
        /\ a \in shown' => a \in shown \/ step[a] = "send"
    BY <1>6 DEF Cut, Bill
  <2>2. Progress'
    <3> SUFFICES ASSUME NEW b \in Attempts, step'[b] # "over" PROVE step'[b] = step[b]
      BY <2>1
    <3> QED
      BY ONLY <1>s, <2>1, step'[b] # "over"
  <2>3. Counts' /\ Serial'
    BY <2>1
  <2>4. Owned'
    <3>1. \A b \in Attempts, f \in Files : Has(b, f)' => Has(b, f)
      BY <2>1 DEF Has, Replied
    <3> QED
      BY <2>1, <3>1, OwnedStays
  <2> QED
    BY <2>2, <2>3, <2>4
<1>7. ASSUME NEW f \in Files, NEW a \in Attempts, LateUpload(f, a) PROVE IInv'
  <2>1. /\ <<f, a>> \in cut /\ (object' = object \/ Write(f, a))
        /\ UNCHANGED <<step, overlapped, cut, shown, paid, counted, errors>>
    BY <1>7 DEF LateUpload
  <2>2. Progress' /\ Counts' /\ Serial'
    BY <1>a, <2>1 DEF Write, Files
  <2>3. Owned'
    <3>1. \A b \in Attempts, g \in Files : Has(b, g)' => Has(b, g)
      BY <2>1 DEF Has, Replied
    <3>2. \A b \in Attempts : MayReplace(f, a, b)
      BY <2>1 DEF MayReplace
    <3>3. CASE object' = object
      BY <2>1, <3>1, <3>3, OwnedStays
    <3>4. CASE Write(f, a)
      BY <2>1, <3>1, <3>2, <3>4, OwnedByWriter
    <3> QED
      BY <2>1, <3>3, <3>4
  <2> QED
    BY <2>2, <2>3
<1>8. CASE UNCHANGED vars
  BY <1>8 DEF vars, Owned, Has, Replied, MayReplace
<1>9. QED
  BY <1>1, <1>2, <1>3, <1>4, <1>5, <1>6, <1>7, <1>8 DEF Next, Advance

\* The invariant holds in every reachable state.
THEOREM Invariant == Spec => []IInv
BY InitIInv, NextIInv, PTL DEF Spec

\* Every variable keeps its type; only an attempt that was cut off in an upload
\* leaves one behind.
THEOREM TypeCorrect == Spec => []TypeOK
<1>1. IInv => TypeOK
  BY DEF IInv
<1> QED
  BY <1>1, Invariant, PTL

\* Every success in the metrics was shown, archived and billed for both calls.
THEOREM CountedIsReal == Spec => []SuccessIsReal
<1>1. ASSUME IInv, NEW a \in counted PROVE Files \X {a} \subseteq paid
  <2>1. <<"text", a>> \in paid /\ <<"image", a>> \in paid
    BY <1>1 DEF IInv, Counts
  <2>2. ASSUME NEW f \in Files PROVE <<f, a>> \in paid
    BY <2>1 DEF Files
  <2> QED
    BY <2>2
<1>2. IInv => SuccessIsReal
  BY <1>1 DEF IInv, Counts, SuccessIsReal, Files
<1> QED
  BY <1>2, Invariant, PTL

\* The store has each file of every reply, or what may have replaced it: that of
\* a later attempt that had made both, of a cut-off upload that landed late, or of
\* an attempt that was still running.
THEOREM ArchiveIsReply == Spec => []ReplyMatchesArchive
<1>1. IInv => ReplyMatchesArchive
  BY DEF IInv, Owned, Has, ReplyMatchesArchive
<1> QED
  BY <1>1, Invariant, PTL
=============================================================================
