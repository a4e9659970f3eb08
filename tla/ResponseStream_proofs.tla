------------------------ MODULE ResponseStream_proofs ------------------------
(***************************************************************************)
(* Theorems about ResponseStream, for streams of any length.               *)
(***************************************************************************)
EXTENDS ResponseStream, SequenceTheorems, TLAPS

(***************************************************************************)
(* The inductive invariant, in named parts.  Before the upstream answers   *)
(* nothing has happened; the emitter belongs to a translated stream; who   *)
(* panicked is in withRecover or has left it; and a handler that returns   *)
(* has closed its stream.                                                  *)
(***************************************************************************)
Fresh == pc = "headers" =>
            /\ wire = <<>> /\ sent = "nothing" /\ ~gone /\ ~broke
            /\ rec = [err |-> FALSE, in |-> 0, out |-> 0]
            /\ heard = 0 /\ phase = "open"
            /\ usage = NoReport /\ reported = {}

Placed == /\ pc \in {"scan", "tail"} => sent = "stream"
          /\ pc = "through" => sent = "copy"
          /\ pc = "panic" => panicked
          /\ pc \in {"headers", "scan", "tail", "through"} => ~panicked
          /\ sent # "stream" => ~em.started /\ ~em.textStarted /\ ~em.finished
          /\ target = "anthropic" /\ (em.textStarted \/ em.finished) => em.started
          /\ pc = "done" /\ sent = "stream" /\ ~panicked => em.finished

(***************************************************************************)
(* What the emitter knows of the stream, as far as an orderly upstream is  *)
(* concerned: it has finished when the upstream has, and for OpenAI when   *)
(* the upstream is done.                                                   *)
(***************************************************************************)
InStep == orderly /\ pc = "scan" =>
             em.finished = (IF target = "openai" THEN phase = "done" ELSE phase # "open")

(***************************************************************************)
(* Frames read as a continuation of an Anthropic message whose last frame  *)
(* was "last", and the last frame after them.                              *)
(***************************************************************************)
Reads(last, frames) ==
    \A i \in DOMAIN frames :
        (IF i = 1 THEN last ELSE frames[i - 1].event) \in Before[frames[i].event]

LastOf(last, frames) == IF frames = <<>> THEN last ELSE frames[Len(frames)].event

Reached == IF em.finished THEN "message_stop"
           ELSE IF em.textStarted THEN "content_block_delta"
           ELSE IF em.started THEN "message_start" ELSE "nothing"

MessageRead ==
    target = "anthropic" /\ orderly /\ sent = "stream" /\ ~panicked =>
        /\ Reads("nothing", wire)
        /\ ~gone => LastOf("nothing", wire) = Reached

(***************************************************************************)
(* A closing frame is on the wire only if the emitter has finished, and if *)
(* it has, and could write, one is.                                        *)
(***************************************************************************)
Closes(frame) == frame.event \in {"[DONE]", "message_stop"}

ClosedInv ==
    /\ ClosedOnce
    /\ \A i \in DOMAIN wire : Closes(wire[i]) => em.finished /\ target # "gemini"
    /\ em.finished /\ ~gone /\ target # "gemini" => \E i \in DOMAIN wire : Closes(wire[i])

(***************************************************************************)
(* What is recorded is what was reported last, or, as long as nothing was  *)
(* reported of the answer, something of what the total has beyond the      *)
(* prompt.                                                                 *)
(***************************************************************************)
Counted ==
    /\ usage = NoReport <=> reported = {}
    /\ usage.out <= heard
    /\ \E in \in {0, 1}, more \in Nat : usage = Report(in, usage.out, more)
    /\ rec.in + rec.out > 0 <=> reported # {}
    /\ source # "gemini" => usage.total = usage.in + usage.out
    /\ source # "anthropic" /\ reported # {} => usage.in = 1
    /\ orderly /\ source = "anthropic" /\ pc = "scan" /\ phase = "open" => usage = NoReport
    /\ orderly => /\ rec.in = usage.in
                  /\ usage.out > 0 => rec.out = usage.out
                  /\ usage.out = 0 => /\ rec.out = 0 <=> usage.total = usage.in
                                      /\ rec.out <= usage.total - usage.in

ErrorTold == pc \in {"scan", "tail"} \/ (pc = "done" /\ sent = "stream" /\ ~panicked) =>
                (rec.err <=> broke \/ gone)

Told == sent = "stream" /\ orderly /\ ~gone /\ ~panicked =>
            ((\E i \in DOMAIN wire : wire[i].usage) <=>
                 IF target = "anthropic" THEN "with" \in reported ELSE reported # {})

Inv == /\ TypeOK /\ Fresh /\ Placed /\ InStep /\ MessageRead /\ ClosedInv
       /\ TextKept /\ Counted /\ ErrorTold /\ Told

-----------------------------------------------------------------------------
(***************************************************************************)
(* The wire after n of the frames have been written.                       *)
(***************************************************************************)
Grown(frames, n) ==
    /\ wire' \in Seq(FrameSet)
    /\ Len(wire') = Len(wire) + n
    /\ \A i \in 1 .. Len(wire) : wire'[i] = wire[i]
    /\ \A i \in 1 .. n : wire'[Len(wire) + i] = frames[i]

(***************************************************************************)
(* Delivering frames writes a first part of them: all as long as nothing   *)
(* has failed, and none once something has.                                *)
(***************************************************************************)
LEMMA DeliveredGrows ==
    ASSUME wire \in Seq(FrameSet), gone \in BOOLEAN,
           NEW frames \in Seq(FrameSet), Delivered(frames)
    PROVE  /\ gone' \in BOOLEAN
           /\ gone => gone'
           /\ \E n \in 0 .. Len(frames) :
                 /\ Grown(frames, n)
                 /\ gone => n = 0
                 /\ ~gone' => n = Len(frames)
<1>0. Len(frames) \in Nat /\ Len(wire) \in Nat
  BY LenProperties
<1>1. ASSUME NEW part \in Seq(FrameSet), NEW n \in 0 .. Len(frames), Len(part) = n,
             \A i \in 1 .. n : part[i] = frames[i], wire' = wire \o part
      PROVE  Grown(frames, n)
  <2>1. /\ wire \o part \in Seq(FrameSet)
        /\ Len(wire \o part) = Len(wire) + n
        /\ \A i \in 1 .. Len(wire) + n :
              (wire \o part)[i] = IF i <= Len(wire) THEN wire[i] ELSE part[i - Len(wire)]
    BY <1>1, ConcatProperties
  <2>2. n \in Nat
    BY <1>0
  <2>3. ASSUME NEW i \in 1 .. n PROVE wire'[Len(wire) + i] = frames[i]
    <3>1. Len(wire) + i \in 1 .. Len(wire) + n /\ ~(Len(wire) + i <= Len(wire))
          /\ Len(wire) + i - Len(wire) = i
      BY <1>0, <2>2
    <3> QED
      BY <1>1, <2>1, <3>1
  <2>4. ASSUME NEW i \in 1 .. Len(wire) PROVE wire'[i] = wire[i]
    BY <1>0, <1>1, <2>1, <2>2
  <2> QED
    BY <1>1, <2>1, <2>3, <2>4 DEF Grown
<1>2. CASE (~gone \/ frames = <<>>) /\ wire' = wire \o frames /\ gone' = gone
  <2>1. Grown(frames, Len(frames))
    BY <1>0, <1>1, <1>2
  <2>2. gone => Len(frames) = 0
    BY <1>2
  <2> QED
    BY <1>0, <1>2, <2>1, <2>2
<1>3. CASE /\ frames # <<>> /\ gone' = TRUE
           /\ IF gone THEN wire' = wire
              ELSE \E n \in 0 .. Len(frames) - 1 : wire' = wire \o SubSeq(frames, 1, n)
  <2>1. CASE gone
    <3>1. wire' = wire \o <<>> /\ <<>> \in Seq(FrameSet) /\ Len(<<>>) = 0
      BY <1>3, <2>1, ConcatEmptySeq, EmptySeq
    <3>2. 0 \in 0 .. Len(frames) /\ \A i \in 1 .. 0 : FALSE
      BY <1>0
    <3>3. Grown(frames, 0)
      BY <1>1, <3>1, <3>2
    <3> QED
      BY <1>0, <1>3, <2>1, <3>2, <3>3
  <2>2. CASE ~gone
    <3>1. PICK n \in 0 .. Len(frames) - 1 : wire' = wire \o SubSeq(frames, 1, n)
      BY <1>3, <2>2
    <3>2. /\ SubSeq(frames, 1, n) \in Seq(FrameSet)
          /\ Len(SubSeq(frames, 1, n)) = n
          /\ \A i \in 1 .. n : SubSeq(frames, 1, n)[i] = frames[i]
      BY <1>0
    <3> DEFINE part == SubSeq(frames, 1, n)
    <3>3. n \in 0 .. Len(frames)
      BY <1>0
    <3>4. Grown(frames, n)
      <4>1. part \in Seq(FrameSet) /\ Len(part) = n /\ wire' = wire \o part
            /\ \A i \in 1 .. n : part[i] = frames[i]
        BY <3>1, <3>2
      <4> HIDE DEF part
      <4> QED
        BY <1>1, <3>3, <4>1
    <3> QED
      BY <1>0, <1>3, <2>2, <3>3, <3>4
  <2> QED
    BY <2>1, <2>2
<1> QED
  BY <1>2, <1>3 DEF Delivered

(***************************************************************************)
(* What an event can be.                                                   *)
(***************************************************************************)
LEMMA DeltaShape ==
    ASSUME TypeOK, NEW d \in Deltas
    PROVE  /\ d.text \in {0, heard + 1} /\ d.text \in Nat
           /\ d.finish \in BOOLEAN /\ d.done \in BOOLEAN
           /\ d.usage \in ReportsWith(d.text)
           /\ d.done => d = DoneDelta /\ d.text = 0 /\ ~d.finish /\ ~HasUsage(d)
<1>0. heard \in Nat
  BY DEF TypeOK
<1>1. CASE d = DoneDelta
  BY <1>0, <1>1 DEF DoneDelta, Delta, HasUsage, ReportsWith
<1>2. CASE d # DoneDelta
  <2>1. PICK text \in {0, heard + 1} :
           d \in [text : {text}, finish : BOOLEAN, usage : ReportsWith(text), done : {FALSE}]
    BY <1>2 DEF Deltas
  <2>2. /\ d.text = text /\ d.finish \in BOOLEAN /\ d.usage \in ReportsWith(text)
        /\ d.done = FALSE
    BY <2>1
  <2>3. text \in Nat /\ d.text \in {0, heard + 1} /\ d.usage \in ReportsWith(d.text)
    BY <1>0, <2>2
  <2> QED
    BY <2>2, <2>3
<1> QED
  BY <1>1, <1>2

LEMMA DoneShape ==
    /\ DoneDelta.text = 0 /\ ~DoneDelta.finish /\ DoneDelta.done
    /\ ~HasUsage(DoneDelta) /\ DoneDelta.usage = NoReport
  BY DEF DoneDelta, Delta, HasUsage

-----------------------------------------------------------------------------
(***************************************************************************)
(* A frame of two parts is one of the first, or one of the second.         *)
(***************************************************************************)
LEMMA Joined ==
    ASSUME NEW s \in Seq(FrameSet), NEW t \in Seq(FrameSet)
    PROVE  /\ s \o t \in Seq(FrameSet)
           /\ Len(s \o t) = Len(s) + Len(t)
           /\ Len(s) \in Nat /\ Len(t) \in Nat
           /\ DOMAIN s = 1 .. Len(s) /\ DOMAIN t = 1 .. Len(t)
           /\ DOMAIN (s \o t) = 1 .. Len(s) + Len(t)
           /\ \A i \in 1 .. Len(s) : (s \o t)[i] = s[i]
           /\ \A i \in 1 .. Len(t) : (s \o t)[Len(s) + i] = t[i]
           /\ \A i \in DOMAIN (s \o t) :
                 \/ i \in 1 .. Len(s)
                 \/ \E k \in 1 .. Len(t) : i = Len(s) + k
<1>1. /\ s \o t \in Seq(FrameSet)
      /\ Len(s \o t) = Len(s) + Len(t)
      /\ \A i \in 1 .. Len(s) + Len(t) :
            (s \o t)[i] = IF i <= Len(s) THEN s[i] ELSE t[i - Len(s)]
  BY ConcatProperties
<1>2. Len(s) \in Nat /\ Len(t) \in Nat /\ DOMAIN s = 1 .. Len(s) /\ DOMAIN t = 1 .. Len(t)
      /\ DOMAIN (s \o t) = 1 .. Len(s) + Len(t)
  BY <1>1, LenProperties
<1>3. ASSUME NEW i \in 1 .. Len(t) PROVE (s \o t)[Len(s) + i] = t[i]
  <2>1. Len(s) + i \in 1 .. Len(s) + Len(t) /\ ~(Len(s) + i <= Len(s)) /\ Len(s) + i - Len(s) = i
    BY <1>2
  <2> QED
    BY <1>1, <2>1
<1>4. ASSUME NEW i \in DOMAIN (s \o t), i \notin 1 .. Len(s)
      PROVE  \E k \in 1 .. Len(t) : i = Len(s) + k
  <2>1. i - Len(s) \in 1 .. Len(t) /\ i = Len(s) + (i - Len(s))
    BY <1>2, <1>4
  <2> QED
    BY <2>1
<1> QED
  BY <1>1, <1>2, <1>3, <1>4

(***************************************************************************)
(* Two parts read one after the other, if the second goes on where the     *)
(* first ends; so do the first frames of a part.                           *)
(***************************************************************************)
LEMMA ReadsJoined ==
    ASSUME NEW s \in Seq(FrameSet), NEW t \in Seq(FrameSet), NEW last,
           Reads(last, s), Reads(LastOf(last, s), t)
    PROVE  Reads(last, s \o t) /\ LastOf(last, s \o t) = LastOf(LastOf(last, s), t)
<1> DEFINE u == s \o t
<1>1. /\ u \in Seq(FrameSet) /\ Len(u) = Len(s) + Len(t)
      /\ Len(s) \in Nat /\ Len(t) \in Nat /\ DOMAIN s = 1 .. Len(s) /\ DOMAIN t = 1 .. Len(t)
      /\ DOMAIN u = 1 .. Len(s) + Len(t)
      /\ \A i \in 1 .. Len(s) : u[i] = s[i]
      /\ \A i \in 1 .. Len(t) : u[Len(s) + i] = t[i]
      /\ \A i \in DOMAIN u : i \in 1 .. Len(s) \/ \E k \in 1 .. Len(t) : i = Len(s) + k
  BY Joined
<1> HIDE DEF u
<1>2. Len(s) = 0 <=> s = <<>>
  BY EmptySeq
<1>3. Len(t) = 0 <=> t = <<>>
  BY EmptySeq
<1>4. Len(u) = 0 <=> u = <<>>
  BY <1>1, EmptySeq
<1>5. ASSUME NEW i \in DOMAIN u
      PROVE  (IF i = 1 THEN last ELSE u[i - 1].event) \in Before[u[i].event]
  <2>1. CASE i \in 1 .. Len(s)
    <3>1. u[i] = s[i] /\ (i # 1 => i - 1 \in 1 .. Len(s) /\ u[i - 1] = s[i - 1])
      BY <1>1, <2>1
    <3> QED
      BY <1>1, <2>1, <3>1 DEF Reads
  <2>2. ASSUME NEW k \in 1 .. Len(t), i = Len(s) + k
        PROVE  (IF i = 1 THEN last ELSE u[i - 1].event) \in Before[u[i].event]
    <3>1. u[i] = t[k]
      BY <1>1, <2>2
    <3>2. CASE k # 1
      <4>1. k - 1 \in 1 .. Len(t) /\ i - 1 = Len(s) + (k - 1) /\ i # 1
        BY <1>1, <2>2, <3>2
      <4>2. u[i - 1] = t[k - 1]
        BY <1>1, <4>1
      <4> QED
        BY <1>1, <2>2, <3>1, <3>2, <4>1, <4>2 DEF Reads
    <3>3. CASE k = 1 /\ s # <<>>
      <4>1. i - 1 = Len(s) /\ i # 1 /\ Len(s) \in 1 .. Len(s)
        BY <1>1, <1>2, <2>2, <3>3
      <4>2. u[i - 1] = s[Len(s)]
        BY <1>1, <4>1
      <4> QED
        BY <1>1, <2>2, <3>1, <3>3, <4>1, <4>2 DEF Reads, LastOf
    <3>4. CASE k = 1 /\ s = <<>>
      <4>1. i = 1
        BY <1>2, <2>2, <3>4
      <4> QED
        BY <1>1, <2>2, <3>1, <3>4, <4>1 DEF Reads, LastOf
    <3> QED
      BY <3>2, <3>3, <3>4
  <2> QED
    BY <1>1, <2>1, <2>2
<1>6. LastOf(last, u) = LastOf(LastOf(last, s), t)
  <2>1. CASE t = <<>>
    <3>1. u = s
      BY <2>1, ConcatEmptySeq DEF u
    <3> QED
      BY <2>1, <3>1 DEF LastOf
  <2>2. CASE t # <<>>
    <3>1. Len(t) \in 1 .. Len(t) /\ u # <<>> /\ Len(u) = Len(s) + Len(t)
      BY <1>1, <1>3, <1>4, <2>2
    <3>2. u[Len(u)] = t[Len(t)]
      BY <1>1, <3>1
    <3> QED
      BY <2>2, <3>1, <3>2 DEF LastOf
  <2> QED
    BY <2>1, <2>2
<1> QED
  BY <1>5, <1>6 DEF Reads, u

-----------------------------------------------------------------------------
(***************************************************************************)
(* What the frames of a delta are, whichever protocol they are in: its     *)
(* text, if it has one, in one of them; a closing frame last, for a delta  *)
(* that closes a stream not closed yet; the usage it reports, in one that  *)
(* can hold it.                                                            *)
(***************************************************************************)
Coherent(d) == /\ d.text \in Nat /\ d.finish \in BOOLEAN /\ d.done \in BOOLEAN
               /\ d.done => d.text = 0 /\ ~d.finish /\ ~HasUsage(d)

CarriesText(d, f) == /\ \A i \in DOMAIN f : f[i].text \in {0, d.text}
                     /\ d.text # 0 => \E i \in DOMAIN f : f[i].text = d.text
                     /\ \A i, j \in DOMAIN f : f[i].text # 0 /\ f[j].text # 0 => i = j

Ends(d) == ~em.finished /\ target # "gemini" /\ (d.done \/ (d.finish /\ target = "anthropic"))

ClosesWhen(d, f) == /\ \A i \in DOMAIN f : Closes(f[i]) => i = Len(f) /\ Ends(d)
                    /\ Ends(d) => \E i \in DOMAIN f : Closes(f[i])

TellsUsage(d, f) == (\E i \in DOMAIN f : f[i].usage) <=>
                        HasUsage(d) /\ (target = "anthropic" => d.finish /\ ~em.finished)

(***************************************************************************)
(* OpenAI and Gemini write at most one frame for a delta.                  *)
(***************************************************************************)
LEMMA SingleFrames ==
    ASSUME TypeOK, NEW d, Coherent(d), target # "anthropic"
    PROVE  /\ Frames(d) \in Seq(FrameSet)
           /\ CarriesText(d, Frames(d)) /\ ClosesWhen(d, Frames(d)) /\ TellsUsage(d, Frames(d))
<1>0. target \in {"openai", "gemini"} /\ em.finished \in BOOLEAN
  BY DEF TypeOK, Kinds
<1>1. ASSUME NEW event \in Events, Frames(d) = <<Frame(event, d.text, HasUsage(d))>>,
             event \in {"[DONE]", "message_stop"} <=> Ends(d)
      PROVE  /\ Frames(d) \in Seq(FrameSet)
             /\ CarriesText(d, Frames(d)) /\ ClosesWhen(d, Frames(d)) /\ TellsUsage(d, Frames(d))
  <2> DEFINE one == Frame(event, d.text, HasUsage(d))
  <2>1. /\ one \in FrameSet /\ one.text = d.text /\ one.event = event
        /\ one.usage = HasUsage(d)
    BY DEF Coherent, Frame, FrameSet, HasUsage
  <2> HIDE DEF one
  <2>2. DOMAIN <<one>> = {1} /\ Len(<<one>>) = 1 /\ <<one>>[1] = one /\ <<one>> \in Seq(FrameSet)
    BY <2>1
  <2>3. Frames(d) = <<one>>
    BY <1>1 DEF one
  <2>4. CarriesText(d, <<one>>) /\ TellsUsage(d, <<one>>)
    BY <1>0, <2>1, <2>2 DEF CarriesText, TellsUsage
  <2>5. ClosesWhen(d, <<one>>)
    BY <1>1, <2>1, <2>2 DEF ClosesWhen, Closes
  <2> QED
    BY <2>2, <2>3, <2>4, <2>5
<1>2. ASSUME Frames(d) = <<>>, d.text = 0, ~HasUsage(d), ~Ends(d)
      PROVE  /\ Frames(d) \in Seq(FrameSet)
             /\ CarriesText(d, Frames(d)) /\ ClosesWhen(d, Frames(d)) /\ TellsUsage(d, Frames(d))
  <2>1. DOMAIN <<>> = {} /\ <<>> \in Seq(FrameSet)
    OBVIOUS
  <2> QED
    BY <1>2, <2>1 DEF CarriesText, ClosesWhen, TellsUsage
<1>3. CASE target = "openai" /\ ~d.done
  <2>1. Frames(d) = <<Frame("chunk", d.text, HasUsage(d))>>
    BY <1>3 DEF Frames, OpenAIFrames
  <2>2. ~Ends(d) /\ "chunk" \in Events
    BY <1>3 DEF Ends, Events
  <2> QED
    BY <1>1, <2>1, <2>2
<1>4. CASE target = "openai" /\ d.done /\ ~em.finished
  <2>1. d.text = 0 /\ HasUsage(d) = FALSE
    BY <1>4 DEF Coherent, HasUsage
  <2>2. Frames(d) = <<Frame("[DONE]", d.text, HasUsage(d))>>
    BY <1>4, <2>1 DEF Frames, OpenAIFrames, When, Mark
  <2>3. Ends(d) /\ "[DONE]" \in Events
    BY <1>4 DEF Ends, Events
  <2> QED
    BY <1>1, <2>2, <2>3
<1>5. CASE target = "openai" /\ d.done /\ em.finished
  BY <1>2, <1>5 DEF Coherent, Ends, Frames, OpenAIFrames, When
<1>6. CASE target = "gemini" /\ ~d.done
  <2>1. Frames(d) = <<Frame("candidate", d.text, HasUsage(d))>>
    BY <1>6 DEF Frames, GeminiFrames, When
  <2>2. ~Ends(d) /\ "candidate" \in Events
    BY <1>6 DEF Ends, Events
  <2> QED
    BY <1>1, <2>1, <2>2
<1>7. CASE target = "gemini" /\ d.done
  BY <1>2, <1>7 DEF Coherent, Ends, Frames, GeminiFrames, When
<1> QED
  BY <1>0, <1>3, <1>4, <1>5, <1>6, <1>7 DEF Coherent

-----------------------------------------------------------------------------
(***************************************************************************)
(* The three parts of what is written to an Anthropic client.              *)
(***************************************************************************)
Opening == When(~em.started, Mark("message_start"))

Block(d) == When(d.text # 0,
                 When(~em.textStarted, Mark("content_block_start"))
                 \o <<Frame("content_block_delta", d.text, FALSE)>>)

LEMMA AnthropicParts ==
    ASSUME NEW d, target = "anthropic"
    PROVE  Frames(d) = (Opening \o Block(d)) \o AnthropicClosing(d)
  BY DEF Frames, AnthropicFrames, Opening, Block

(***************************************************************************)
(* One frame is a sequence of frames.                                      *)
(***************************************************************************)
Single(f, event) ==
    /\ f \in Seq(FrameSet) /\ Len(f) = 1 /\ DOMAIN f = {1}
    /\ f[1].event = event
    /\ \A last : last \in Before[event] => Reads(last, f)
    /\ \A last : LastOf(last, f) = event

LEMMA OneFrame ==
    ASSUME NEW g \in FrameSet
    PROVE  Single(<<g>>, g.event) /\ <<g>>[1] = g
<1>1. <<g>> \in Seq(FrameSet) /\ Len(<<g>>) = 1 /\ DOMAIN <<g>> = {1} /\ <<g>>[1] = g /\ <<g>> # <<>>
  OBVIOUS
<1>2. \A last : last \in Before[g.event] => Reads(last, <<g>>)
  BY <1>1 DEF Reads
<1>3. \A last : LastOf(last, <<g>>) = g.event
  BY <1>1 DEF LastOf
<1> QED
  BY <1>1, <1>2, <1>3 DEF Single

(***************************************************************************)
(* A frame that tells no usage.                                            *)
(***************************************************************************)
LEMMA PlainFrame ==
    ASSUME NEW event \in Events, NEW text \in Nat
    PROVE  /\ Single(<<Frame(event, text, FALSE)>>, event)
           /\ <<Frame(event, text, FALSE)>>[1].text = text
           /\ ~<<Frame(event, text, FALSE)>>[1].usage
<1> DEFINE g == Frame(event, text, FALSE)
<1>1. g \in FrameSet /\ g.event = event /\ g.text = text /\ ~g.usage
  BY DEF Frame, FrameSet
<1> HIDE DEF g
<1>2. Single(<<g>>, event) /\ <<g>>[1] = g
  BY <1>1, OneFrame
<1> QED
  BY <1>1, <1>2 DEF g

(***************************************************************************)
(* Frames followed by a single one.                                        *)
(***************************************************************************)
LEMMA Followed ==
    ASSUME NEW s \in Seq(FrameSet), NEW t, NEW event, Single(t, event)
    PROVE  /\ s \o t \in Seq(FrameSet)
           /\ Len(s) \in Nat /\ Len(s \o t) = Len(s) + 1
           /\ DOMAIN (s \o t) = 1 .. Len(s) + 1
           /\ \A i \in 1 .. Len(s) : (s \o t)[i] = s[i]
           /\ (s \o t)[Len(s) + 1] = t[1]
           /\ \A last : Reads(last, s) /\ LastOf(last, s) \in Before[event] =>
                 Reads(last, s \o t) /\ LastOf(last, s \o t) = event
<1>1. t \in Seq(FrameSet) /\ Len(t) = 1
  BY DEF Single
<1>2. \A last : last \in Before[event] => Reads(last, t)
  BY DEF Single
<1>3. \A last : LastOf(last, t) = event
  BY DEF Single
<1>4. ASSUME NEW last, Reads(last, s), LastOf(last, s) \in Before[event]
      PROVE  Reads(last, s \o t) /\ LastOf(last, s \o t) = event
  <2>1. Reads(LastOf(last, s), t)
    BY <1>2, <1>4
  <2>2. Reads(last, s \o t) /\ LastOf(last, s \o t) = LastOf(LastOf(last, s), t)
    BY <1>1, <1>4, <2>1, ReadsJoined
  <2> QED
    BY <1>3, <2>2
<1>5. /\ s \o t \in Seq(FrameSet)
      /\ Len(s) \in Nat /\ Len(s \o t) = Len(s) + Len(t)
      /\ DOMAIN (s \o t) = 1 .. Len(s) + Len(t)
      /\ \A i \in 1 .. Len(s) : (s \o t)[i] = s[i]
      /\ \A i \in 1 .. Len(t) : (s \o t)[Len(s) + i] = t[i]
  BY <1>1, Joined
<1> QED
  BY <1>1, <1>4, <1>5

LEMMA NoFrame ==
    /\ <<>> \in Seq(FrameSet) /\ Len(<<>>) = 0 /\ DOMAIN <<>> = {}
    /\ \A last : Reads(last, <<>>) /\ LastOf(last, <<>>) = last
  BY DEF Reads, LastOf

(***************************************************************************)
(* The opening says nothing, and the message is begun after it.            *)
(***************************************************************************)
Plain(f) == \A i \in DOMAIN f : f[i].text = 0 /\ ~f[i].usage /\ ~Closes(f[i])

Begun == IF em.textStarted THEN "content_block_delta" ELSE "message_start"

LEMMA OpeningShape ==
    ASSUME TypeOK, em.textStarted => em.started
    PROVE  /\ Opening \in Seq(FrameSet) /\ Plain(Opening)
           /\ ~em.finished => Reads(Reached, Opening) /\ LastOf(Reached, Opening) = Begun
<1>0. em.started \in BOOLEAN /\ em.textStarted \in BOOLEAN /\ "message_start" \in Events
  BY DEF TypeOK, Events
<1>1. CASE em.started
  <2>1. Opening = <<>>
    BY <1>1 DEF Opening, When
  <2>2. ~em.finished => Reached = Begun
    BY <1>1 DEF Reached, Begun
  <2> QED
    BY <2>1, <2>2, NoFrame DEF Plain
<1>2. CASE ~em.started
  <2> DEFINE f == <<Frame("message_start", 0, FALSE)>>
  <2>1. Opening = f
    BY <1>2 DEF Opening, When, Mark
  <2>2. Single(f, "message_start") /\ f[1].text = 0 /\ ~f[1].usage
    BY <1>0, PlainFrame
  <2> HIDE DEF f
  <2>3. ~em.finished => Reached \in Before["message_start"] /\ Begun = "message_start"
    BY <1>2 DEF Reached, Begun, Before
  <2> QED
    BY <2>1, <2>2, <2>3 DEF Plain, Closes, Single
<1> QED
  BY <1>0, <1>1, <1>2

(***************************************************************************)
(* The block carries the text of the delta, and the message stands at a    *)
(* text after it, if it has had one.                                       *)
(***************************************************************************)
Stands(d) == IF em.textStarted \/ d.text # 0 THEN "content_block_delta"
              ELSE "message_start"

LEMMA BlockShape ==
    ASSUME TypeOK, NEW d, Coherent(d)
    PROVE  /\ Block(d) \in Seq(FrameSet) /\ CarriesText(d, Block(d))
           /\ \A i \in DOMAIN Block(d) : ~Block(d)[i].usage /\ ~Closes(Block(d)[i])
           /\ Reads(Begun, Block(d)) /\ LastOf(Begun, Block(d)) = Stands(d)
<1>0. /\ em.textStarted \in BOOLEAN /\ d.text \in Nat
      /\ "content_block_delta" \in Events /\ "content_block_start" \in Events
  BY DEF TypeOK, Coherent, Events
<1>1. CASE d.text = 0
  <2>1. Block(d) = <<>>
    BY <1>1 DEF Block, When
  <2>2. Stands(d) = Begun
    BY <1>1 DEF Stands, Begun
  <2> QED
    BY <1>1, <2>1, <2>2, NoFrame DEF CarriesText
<1> DEFINE f == <<Frame("content_block_delta", d.text, FALSE)>>
           g == <<Frame("content_block_start", 0, FALSE)>>
<1>2. Single(f, "content_block_delta") /\ f[1].text = d.text /\ ~f[1].usage
  BY <1>0, PlainFrame
<1>3. Single(g, "content_block_start") /\ g[1].text = 0 /\ ~g[1].usage
  BY <1>0, PlainFrame
<1>4. CASE d.text # 0 /\ em.textStarted
  <2>1. Block(d) = f
    <3>1. Block(d) = <<>> \o f
      BY <1>4 DEF Block, When
    <3> QED
      BY <1>2, <3>1, ConcatEmptySeq DEF Single
  <2>2. Begun \in Before["content_block_delta"] /\ Stands(d) = "content_block_delta"
    BY <1>4 DEF Begun, Stands, Before
  <2> HIDE DEF f, g
  <2> QED
    BY <1>2, <1>4, <2>1, <2>2 DEF CarriesText, Closes, Single
<1>5. CASE d.text # 0 /\ ~em.textStarted
  <2>1. Block(d) = g \o f
    BY <1>5 DEF Block, When, Mark
  <2>2. /\ Begun \in Before["content_block_start"] /\ Stands(d) = "content_block_delta"
        /\ "content_block_start" \in Before["content_block_delta"]
    BY <1>5 DEF Begun, Stands, Before
  <2> HIDE DEF f, g
  <2>3. Reads(Begun, g \o f) /\ LastOf(Begun, g \o f) = "content_block_delta"
    BY <1>2, <1>3, <2>2, ReadsJoined DEF Single
  <2>4. /\ g \o f \in Seq(FrameSet) /\ DOMAIN (g \o f) = {1, 2}
        /\ (g \o f)[1] = g[1] /\ (g \o f)[2] = f[1]
    <3>1. /\ g \o f \in Seq(FrameSet) /\ DOMAIN (g \o f) = 1 .. 1 + 1
          /\ \A i \in 1 .. 1 : (g \o f)[i] = g[i]
          /\ \A i \in 1 .. 1 : (g \o f)[1 + i] = f[i]
      BY <1>2, <1>3, Joined DEF Single
    <3> QED
      BY <3>1
  <2> QED
    BY <1>2, <1>3, <1>5, <2>1, <2>2, <2>3, <2>4 DEF CarriesText, Closes, Single
<1> QED
  BY <1>0, <1>1, <1>4, <1>5

(***************************************************************************)
(* The closing ends the block, if there is one, tells the usage and ends   *)
(* the message.                                                            *)
(***************************************************************************)
LEMMA ClosingShape ==
    ASSUME TypeOK, NEW d, Coherent(d), target = "anthropic"
    PROVE  LET c == AnthropicClosing(d) IN
           /\ c \in Seq(FrameSet) /\ \A i \in DOMAIN c : c[i].text = 0
           /\ ClosesWhen(d, c) /\ TellsUsage(d, c)
           /\ Reads(Stands(d), c)
           /\ LastOf(Stands(d), c) = IF Ends(d) THEN "message_stop" ELSE Stands(d)
<1>0. /\ em.textStarted \in BOOLEAN /\ em.finished \in BOOLEAN
      /\ {"content_block_stop", "message_delta", "message_stop"} \subseteq Events
  BY DEF TypeOK, Events
<1> DEFINE c == AnthropicClosing(d)
<1>1. CASE ~Ends(d)
  <2>1. c = <<>>
    BY <1>1 DEF Ends, AnthropicClosing, When
  <2>2. ~(HasUsage(d) /\ d.finish /\ ~em.finished)
    BY <1>1 DEF Ends
  <2> QED
    BY <1>1, <2>1, <2>2, NoFrame DEF ClosesWhen, TellsUsage
<1>2. CASE Ends(d)
  <2> DEFINE s == When(em.textStarted \/ d.text # 0, Mark("content_block_stop"))
             m == <<Frame("message_delta", 0, HasUsage(d))>>
             e == <<Frame("message_stop", 0, FALSE)>>
             stopped == IF em.textStarted \/ d.text # 0 THEN "content_block_stop"
                        ELSE "message_start"
  <2>1. c = (s \o m) \o e
    BY <1>2 DEF Ends, AnthropicClosing, When, Mark
  <2>2. Single(e, "message_stop") /\ e[1].text = 0 /\ ~e[1].usage
    BY <1>0, PlainFrame
  <2>3. Single(m, "message_delta") /\ m[1].text = 0 /\ (m[1].usage <=> HasUsage(d))
    <3> DEFINE g == Frame("message_delta", 0, HasUsage(d))
    <3>1. g \in FrameSet /\ g.event = "message_delta" /\ g.text = 0 /\ (g.usage <=> HasUsage(d))
      BY <1>0 DEF Frame, FrameSet, HasUsage
    <3> HIDE DEF g
    <3>2. Single(<<g>>, "message_delta") /\ <<g>>[1] = g
      BY <3>1, OneFrame
    <3> QED
      BY <3>1, <3>2 DEF g
  <2>4. /\ s \in Seq(FrameSet) /\ Plain(s)
        /\ Reads(Stands(d), s) /\ LastOf(Stands(d), s) = stopped
    <3>1. CASE em.textStarted \/ d.text # 0
      <4> DEFINE f == <<Frame("content_block_stop", 0, FALSE)>>
      <4>1. s = f
        BY <3>1 DEF When, Mark
      <4>2. Single(f, "content_block_stop") /\ f[1].text = 0 /\ ~f[1].usage
        BY <1>0, PlainFrame
      <4>3. Stands(d) \in Before["content_block_stop"]
        BY <3>1 DEF Stands, Before
      <4> HIDE DEF f, s
      <4> QED
        BY <3>1, <4>1, <4>2, <4>3 DEF Single, Plain, Closes
    <3>2. CASE ~(em.textStarted \/ d.text # 0)
      <4>1. s = <<>> /\ Stands(d) = "message_start"
        BY <3>2 DEF When, Stands
      <4> HIDE DEF s
      <4> QED
        BY <3>2, <4>1, NoFrame DEF Plain
    <3> QED
      BY <3>1, <3>2
  <2>5. /\ stopped \in Before["message_delta"]
        /\ "message_delta" \in Before["message_stop"]
    BY DEF Before
  <2> HIDE DEF s, m, e, c, stopped
  <2> DEFINE u == s \o m
  <2>6. /\ u \in Seq(FrameSet)
        /\ Len(s) \in Nat /\ Len(u) = Len(s) + 1
        /\ \A i \in 1 .. Len(s) : u[i] = s[i]
        /\ u[Len(s) + 1] = m[1]
        /\ Reads(Stands(d), u) /\ LastOf(Stands(d), u) = "message_delta"
    BY <2>3, <2>4, <2>5, Followed
  <2>7. c = u \o e
    BY <2>1
  <2> HIDE DEF u
  <2>8. /\ c \in Seq(FrameSet)
        /\ Reads(Stands(d), c) /\ LastOf(Stands(d), c) = "message_stop"
        /\ Len(s) \in Nat /\ DOMAIN c = 1 .. Len(s) + 2 /\ Len(c) = Len(s) + 2
        /\ \A i \in 1 .. Len(s) : c[i] = s[i]
        /\ c[Len(s) + 1] = m[1] /\ c[Len(s) + 2] = e[1]
    <3>1. /\ u \o e \in Seq(FrameSet)
          /\ Reads(Stands(d), u \o e) /\ LastOf(Stands(d), u \o e) = "message_stop"
          /\ Len(u \o e) = Len(u) + 1 /\ DOMAIN (u \o e) = 1 .. Len(u) + 1
          /\ \A i \in 1 .. Len(u) : (u \o e)[i] = u[i]
          /\ (u \o e)[Len(u) + 1] = e[1]
      BY <2>2, <2>5, <2>6, Followed
    <3> QED
      BY <2>6, <2>7, <3>1
  <2>9. \A i \in DOMAIN c :
           \/ i \in 1 .. Len(s) /\ c[i] = s[i]
           \/ i = Len(s) + 1 /\ c[i] = m[1]
           \/ i = Len(s) + 2 /\ c[i] = e[1]
    BY <2>8
  <2>10. \A i \in DOMAIN c : c[i].text = 0
    BY <2>2, <2>3, <2>4, <2>9 DEF Plain
  <2>11. ClosesWhen(d, c)
    <3>1. Len(s) + 2 \in DOMAIN c /\ Closes(e[1]) /\ ~Closes(m[1])
      BY <2>2, <2>3, <2>8 DEF Closes, Single
    <3> QED
      BY <1>2, <2>4, <2>8, <2>9, <3>1 DEF ClosesWhen, Plain
  <2>12. TellsUsage(d, c)
    <3>1. (\E i \in DOMAIN c : c[i].usage) <=> HasUsage(d)
      BY <2>2, <2>3, <2>4, <2>8, <2>9 DEF Plain
    <3>2. HasUsage(d) => d.finish /\ ~em.finished
      BY <1>2 DEF Ends, Coherent
    <3> QED
      BY <3>1, <3>2 DEF TellsUsage
  <2> QED
    BY <1>2, <2>8, <2>10, <2>11, <2>12 DEF c
<1> QED
  BY <1>1, <1>2

(***************************************************************************)
(* The frames of a delta in any protocol.                                  *)
(***************************************************************************)
Shaped(d, f) == /\ f \in Seq(FrameSet)
                /\ CarriesText(d, f) /\ ClosesWhen(d, f) /\ TellsUsage(d, f)

LEMMA AnthropicShape ==
    ASSUME TypeOK, NEW d, Coherent(d), target = "anthropic",
           em.textStarted => em.started
    PROVE  /\ Shaped(d, Frames(d))
           /\ ~em.finished =>
                 /\ Reads(Reached, Frames(d))
                 /\ LastOf(Reached, Frames(d)) = IF Ends(d) THEN "message_stop" ELSE Stands(d)
<1> DEFINE o == Opening
           b == Block(d)
           c == AnthropicClosing(d)
           ob == o \o b
           f == ob \o c
<1>1. /\ o \in Seq(FrameSet) /\ Plain(o)
      /\ ~em.finished => Reads(Reached, o) /\ LastOf(Reached, o) = Begun
  BY OpeningShape
<1>2. /\ b \in Seq(FrameSet) /\ CarriesText(d, b)
      /\ \A i \in DOMAIN b : ~b[i].usage /\ ~Closes(b[i])
      /\ Reads(Begun, b) /\ LastOf(Begun, b) = Stands(d)
  BY BlockShape
<1>3. /\ c \in Seq(FrameSet) /\ \A i \in DOMAIN c : c[i].text = 0
      /\ ClosesWhen(d, c) /\ TellsUsage(d, c)
      /\ Reads(Stands(d), c)
      /\ LastOf(Stands(d), c) = IF Ends(d) THEN "message_stop" ELSE Stands(d)
  BY ClosingShape
<1>4. Frames(d) = f
  BY AnthropicParts
<1> HIDE DEF o, b, c
<1>5. /\ ob \in Seq(FrameSet) /\ Len(ob) = Len(o) + Len(b)
      /\ Len(o) \in Nat /\ Len(b) \in Nat
      /\ DOMAIN o = 1 .. Len(o) /\ DOMAIN b = 1 .. Len(b) /\ DOMAIN ob = 1 .. Len(o) + Len(b)
      /\ \A i \in 1 .. Len(o) : ob[i] = o[i]
      /\ \A i \in 1 .. Len(b) : ob[Len(o) + i] = b[i]
      /\ \A i \in DOMAIN ob : i \in 1 .. Len(o) \/ \E k \in 1 .. Len(b) : i = Len(o) + k
  BY <1>1, <1>2, Joined
<1>6. ~em.finished => Reads(Reached, ob) /\ LastOf(Reached, ob) = Stands(d)
  BY <1>1, <1>2, ReadsJoined
<1> HIDE DEF ob
<1>7. /\ f \in Seq(FrameSet) /\ Len(f) = Len(ob) + Len(c)
      /\ Len(c) \in Nat
      /\ DOMAIN c = 1 .. Len(c) /\ DOMAIN f = 1 .. Len(ob) + Len(c)
      /\ \A i \in 1 .. Len(ob) : f[i] = ob[i]
      /\ \A i \in 1 .. Len(c) : f[Len(ob) + i] = c[i]
      /\ \A i \in DOMAIN f : i \in 1 .. Len(ob) \/ \E k \in 1 .. Len(c) : i = Len(ob) + k
  BY <1>3, <1>5, Joined
<1>8. ~em.finished =>
         /\ Reads(Reached, f)
         /\ LastOf(Reached, f) = IF Ends(d) THEN "message_stop" ELSE Stands(d)
  BY <1>3, <1>5, <1>6, ReadsJoined
<1> HIDE DEF f
<1>9. /\ \A i \in 1 .. Len(o) : i \in DOMAIN f /\ f[i] = o[i]
      /\ \A i \in 1 .. Len(b) : Len(o) + i \in DOMAIN f /\ f[Len(o) + i] = b[i]
      /\ \A i \in 1 .. Len(c) :
            Len(ob) + i \in DOMAIN f /\ f[Len(ob) + i] = c[i]
      /\ \A i \in DOMAIN f :
            \/ \E k \in 1 .. Len(o) : i = k
            \/ \E k \in 1 .. Len(b) : i = Len(o) + k
            \/ \E k \in 1 .. Len(c) : i = Len(ob) + k
  <2>1. ASSUME NEW i \in 1 .. Len(b)
        PROVE  Len(o) + i \in DOMAIN f /\ f[Len(o) + i] = b[i]
    <3>1. Len(o) + i \in 1 .. Len(ob)
      BY <1>5
    <3>2. Len(o) + i \in DOMAIN f
      BY <1>5, <1>7, <3>1
    <3> QED
      BY <1>5, <1>7, <3>1, <3>2
  <2>2. ASSUME NEW i \in 1 .. Len(o) PROVE i \in DOMAIN f /\ f[i] = o[i]
    <3>1. i \in 1 .. Len(ob) /\ i \in DOMAIN f
      BY <1>5, <1>7
    <3> QED
      BY <1>5, <1>7, <3>1
  <2>3. ASSUME NEW i \in 1 .. Len(c)
        PROVE  Len(ob) + i \in DOMAIN f /\ f[Len(ob) + i] = c[i]
    BY <1>5, <1>7
  <2>4. ASSUME NEW i \in DOMAIN f
        PROVE  \/ \E k \in 1 .. Len(o) : i = k
               \/ \E k \in 1 .. Len(b) : i = Len(o) + k
               \/ \E k \in 1 .. Len(c) : i = Len(ob) + k
    BY <1>5, <1>7
  <2> QED
    BY <2>1, <2>2, <2>3, <2>4
<1>10. CarriesText(d, f)
  <2>1. /\ \A i \in 1 .. Len(b) : b[i].text \in {0, d.text}
        /\ d.text # 0 => \E i \in 1 .. Len(b) : b[i].text = d.text
        /\ \A i, j \in 1 .. Len(b) : b[i].text # 0 /\ b[j].text # 0 => i = j
    BY <1>2, <1>5 DEF CarriesText
  <2>2. /\ \A i \in 1 .. Len(o) : o[i].text = 0
        /\ \A i \in 1 .. Len(c) : c[i].text = 0
    BY <1>1, <1>3, <1>5, <1>7 DEF Plain
  <2>3. \A i \in DOMAIN f : f[i].text # 0 =>
           \E k \in 1 .. Len(b) : i = Len(o) + k /\ f[i] = b[k]
    BY <1>9, <2>2
  <2>4. \A i \in DOMAIN f : f[i].text \in {0, d.text}
    BY <2>1, <2>3
  <2>5. d.text # 0 => \E i \in DOMAIN f : f[i].text = d.text
    BY <1>9, <2>1
  <2>6. \A i, j \in DOMAIN f : f[i].text # 0 /\ f[j].text # 0 => i = j
    BY <2>1, <2>3
  <2> QED
    BY <2>4, <2>5, <2>6 DEF CarriesText
<1>11. \A i \in DOMAIN f :
          f[i].usage \/ Closes(f[i]) => \E k \in 1 .. Len(c) : i = Len(ob) + k /\ f[i] = c[k]
  <2>1. /\ \A k \in 1 .. Len(o) : ~o[k].usage /\ ~Closes(o[k])
        /\ \A k \in 1 .. Len(b) : ~b[k].usage /\ ~Closes(b[k])
    BY <1>1, <1>2, <1>5 DEF Plain
  <2>2. ASSUME NEW i \in DOMAIN f, f[i].usage \/ Closes(f[i])
        PROVE  \E k \in 1 .. Len(c) : i = Len(ob) + k /\ f[i] = c[k]
    <3>1. /\ ~(\E k \in 1 .. Len(o) : i = k)
          /\ ~(\E k \in 1 .. Len(b) : i = Len(o) + k)
      BY <1>9, <2>1, <2>2
    <3> QED
      BY <1>9, <3>1
  <2> QED
    BY <2>2
<1>12. ClosesWhen(d, f)
  <2>1. /\ \A i \in 1 .. Len(c) : Closes(c[i]) => i = Len(c) /\ Ends(d)
        /\ Ends(d) => \E i \in 1 .. Len(c) : Closes(c[i])
    BY <1>3, <1>7 DEF ClosesWhen
  <2>2. \A i \in DOMAIN f : Closes(f[i]) => i = Len(f) /\ Ends(d)
    BY <1>7, <1>11, <2>1
  <2>3. Ends(d) => \E i \in DOMAIN f : Closes(f[i])
    BY <1>9, <2>1
  <2> QED
    BY <2>2, <2>3 DEF ClosesWhen
<1>13. TellsUsage(d, f)
  <2>1. (\E i \in DOMAIN f : f[i].usage) <=> (\E i \in 1 .. Len(c) : c[i].usage)
    BY <1>9, <1>11
  <2> QED
    BY <1>3, <1>7, <2>1 DEF TellsUsage
<1> QED
  BY <1>4, <1>7, <1>8, <1>10, <1>12, <1>13 DEF Shaped

LEMMA FramesShape ==
    ASSUME TypeOK, NEW d, Coherent(d),
           target = "anthropic" /\ em.textStarted => em.started
    PROVE  Shaped(d, Frames(d))
<1>1. CASE target = "anthropic"
  BY <1>1, AnthropicShape
<1>2. CASE target # "anthropic"
  BY <1>2, SingleFrames DEF Shaped
<1> QED
  BY <1>1, <1>2

(***************************************************************************)
(* To an orderly stream that is over nothing more is written.              *)
(***************************************************************************)
LEMMA NothingAfterTheEnd ==
    ASSUME TypeOK, Placed, InStep, orderly, pc = "scan", em.finished, target # "gemini",
           NEW d \in Deltas, InOrder(d)
    PROVE  Frames(d) = <<>> /\ d.text = 0
<1>1. target \in {"openai", "anthropic"} /\ phase \in {"open", "finished", "done"}
  BY DEF TypeOK, Kinds
<1>2. target = "anthropic" /\ phase = "finished"
  BY <1>1 DEF InStep, InOrder
<1>3. d.text = 0 /\ ~d.finish /\ em.started
  BY <1>2 DEF InOrder, Placed
<1>4. Opening = <<>> /\ Block(d) = <<>> /\ AnthropicClosing(d) = <<>>
  BY <1>3 DEF Opening, Block, AnthropicClosing, When
<1>5. Frames(d) = (<<>> \o <<>>) \o <<>>
  BY <1>2, <1>4, AnthropicParts
<1>6. <<>> \o <<>> = <<>>
  BY NoFrame, ConcatEmptySeq
<1> QED
  BY <1>3, <1>5, <1>6

-----------------------------------------------------------------------------
(***************************************************************************)
(* What n frames more on the wire preserve of what is said of the wire.    *)
(* A frame of the longer wire is an old one or one of the n.               *)
(***************************************************************************)
LEMMA GrownSplit ==
    ASSUME wire \in Seq(FrameSet), NEW f \in Seq(FrameSet), NEW n \in 0 .. Len(f), Grown(f, n)
    PROVE  /\ DOMAIN wire = 1 .. Len(wire) /\ DOMAIN f = 1 .. Len(f)
           /\ DOMAIN wire' = 1 .. Len(wire) + n
           /\ Len(wire) \in Nat /\ Len(f) \in Nat /\ n \in Nat /\ n <= Len(f)
           /\ \A i \in 1 .. Len(wire) : wire'[i] = wire[i]
           /\ \A k \in 1 .. n : wire'[Len(wire) + k] = f[k]
           /\ \A i \in 1 .. Len(wire) + n :
                 i \in 1 .. Len(wire) \/ \E k \in 1 .. n : i = Len(wire) + k
<1>1. /\ DOMAIN wire = 1 .. Len(wire) /\ DOMAIN f = 1 .. Len(f)
      /\ DOMAIN wire' = 1 .. Len(wire')
      /\ Len(wire) \in Nat /\ Len(f) \in Nat /\ n \in Nat /\ n <= Len(f)
  BY LenProperties DEF Grown
<1>2. /\ Len(wire') = Len(wire) + n
      /\ \A i \in 1 .. Len(wire) : wire'[i] = wire[i]
      /\ \A i \in 1 .. n : wire'[Len(wire) + i] = f[i]
  BY DEF Grown
<1>3. ASSUME NEW i \in 1 .. Len(wire) + n, i \notin 1 .. Len(wire)
      PROVE  \E k \in 1 .. n : i = Len(wire) + k
  <2>1. i - Len(wire) \in 1 .. n /\ i = Len(wire) + (i - Len(wire))
    BY <1>1, <1>3
  <2> QED
    BY <2>1
<1> QED
  BY <1>1, <1>2, <1>3

(***************************************************************************)
(* Frames that carry the next text, or none, keep the texts in order.      *)
(***************************************************************************)
LEMMA TextStep ==
    ASSUME TypeOK, TextKept, NEW d, d.text \in {0, heard + 1},
           heard' = IF d.text # 0 THEN d.text ELSE heard,
           NEW f \in Seq(FrameSet), CarriesText(d, f), NEW n \in 0 .. Len(f), Grown(f, n),
           gone => gone', gone => n = 0, ~gone' => n = Len(f)
    PROVE  TextKept'
<1>1. /\ wire \in Seq(FrameSet) /\ heard \in Nat
  BY DEF TypeOK
<1>dom. /\ DOMAIN wire = 1 .. Len(wire) /\ DOMAIN f = 1 .. Len(f)
        /\ DOMAIN wire' = 1 .. Len(wire) + n
  BY <1>1, GrownSplit
<1>len. Len(wire) \in Nat /\ Len(f) \in Nat /\ n \in Nat /\ n <= Len(f)
  BY <1>1, GrownSplit
<1>old. \A i \in 1 .. Len(wire) : wire'[i] = wire[i]
  BY <1>1, GrownSplit
<1>new. \A k \in 1 .. n : wire'[Len(wire) + k] = f[k]
  BY <1>1, GrownSplit
<1>one. \A i \in 1 .. Len(wire) + n :
           i \in 1 .. Len(wire) \/ \E k \in 1 .. n : i = Len(wire) + k
  BY <1>1, GrownSplit
<1>2. n # 0 => ~gone
  BY <1>len
<1>3. /\ heard' \in Nat /\ heard <= heard' /\ d.text <= heard'
      /\ d.text # 0 => d.text = heard + 1 /\ heard' = heard + 1
      /\ d.text = 0 => heard' = heard
  BY <1>1
<1>4. /\ \A k \in 1 .. Len(f) : f[k].text \in {0, d.text}
      /\ d.text # 0 => \E k \in 1 .. Len(f) : f[k].text = d.text
      /\ \A k, l \in 1 .. Len(f) : f[k].text # 0 /\ f[l].text # 0 => k = l
  BY <1>dom DEF CarriesText
<1>5. /\ \A i, j \in 1 .. Len(wire) :
            i < j /\ wire[i].text # 0 /\ wire[j].text # 0 => wire[i].text < wire[j].text
      /\ \A i \in 1 .. Len(wire) : /\ wire[i].text <= heard
                                   /\ \A t \in 1 .. wire[i].text : Carried(t)
      /\ ~gone => \A t \in 1 .. heard : Carried(t)
  BY <1>dom DEF TextKept
<1>6. ASSUME NEW i \in 1 .. Len(wire) PROVE wire[i].text \in Nat
  <2>1. wire[i] \in FrameSet
    BY <1>1
  <2> QED
    BY <2>1 DEF FrameSet
<1>7. ASSUME NEW t, Carried(t) PROVE Carried(t)'
  <2>1. PICK i \in 1 .. Len(wire) : wire[i].text = t
    BY <1>7, <1>dom DEF Carried
  <2>2. i \in 1 .. Len(wire) + n /\ wire'[i].text = t
    BY <1>len, <1>old, <2>1
  <2> QED
    BY <1>dom, <2>2 DEF Carried
<1>8. ASSUME NEW k \in 1 .. n
      PROVE  /\ k \in 1 .. Len(f) /\ ~gone
             /\ f[k].text # 0 => f[k].text = heard + 1 /\ heard' = heard + 1
             /\ Carried(f[k].text)'
  <2>1. k \in 1 .. Len(f) /\ n # 0
    BY <1>len
  <2>2. f[k].text # 0 => f[k].text = heard + 1 /\ heard' = heard + 1
    BY <1>3, <1>4, <2>1
  <2>3. Len(wire) + k \in 1 .. Len(wire) + n /\ wire'[Len(wire) + k] = f[k]
    BY <1>len, <1>new
  <2>4. Carried(f[k].text)'
    BY <1>dom, <2>3 DEF Carried
  <2> QED
    BY <1>2, <2>1, <2>2, <2>4
<1>9. ASSUME NEW i \in 1 .. Len(wire) + n, NEW j \in 1 .. Len(wire) + n, i < j,
             wire'[i].text # 0, wire'[j].text # 0
      PROVE  wire'[i].text < wire'[j].text
  <2>1. CASE i \in 1 .. Len(wire) /\ j \in 1 .. Len(wire)
    BY <1>5, <1>9, <1>old, <2>1
  <2>2. ASSUME NEW k \in 1 .. n, j = Len(wire) + k PROVE wire'[i].text < wire'[j].text
    <3>1. wire'[j] = f[k] /\ f[k].text = heard + 1
      BY <1>8, <1>9, <1>new, <2>2
    <3>2. CASE i \in 1 .. Len(wire)
      <4>1. wire'[i] = wire[i] /\ wire[i].text <= heard /\ wire[i].text \in Nat
        BY <1>5, <1>6, <1>old, <3>2
      <4> QED
        BY <1>1, <3>1, <4>1
    <3>3. ASSUME NEW l \in 1 .. n, i = Len(wire) + l PROVE FALSE
      <4>1. f[l].text # 0 /\ l \in 1 .. Len(f) /\ k \in 1 .. Len(f)
        BY <1>8, <1>9, <1>new, <3>3
      <4>2. k = l
        BY <1>1, <1>4, <3>1, <4>1
      <4> QED
        BY <1>9, <1>len, <2>2, <3>3, <4>2
    <3> QED
      BY <1>one, <3>2, <3>3
  <2>3. CASE j \in 1 .. Len(wire) /\ i \notin 1 .. Len(wire)
    BY <1>9, <1>len, <2>3
  <2> QED
    BY <1>one, <2>1, <2>2, <2>3
<1>10. ASSUME NEW i \in 1 .. Len(wire) + n
       PROVE  wire'[i].text <= heard' /\ \A t \in 1 .. wire'[i].text : Carried(t)'
  <2>1. CASE i \in 1 .. Len(wire)
    <3>1. wire'[i] = wire[i] /\ wire[i].text <= heard /\ wire[i].text \in Nat
      BY <1>5, <1>6, <1>old, <2>1
    <3>2. wire'[i].text <= heard'
      BY <1>1, <1>3, <3>1
    <3>3. ASSUME NEW t \in 1 .. wire'[i].text PROVE Carried(t)'
      <4>1. Carried(t)
        BY <1>5, <2>1, <3>1
      <4> QED
        BY <1>7, <4>1
    <3> QED
      BY <3>2, <3>3
  <2>2. ASSUME NEW k \in 1 .. n, i = Len(wire) + k
        PROVE  wire'[i].text <= heard' /\ \A t \in 1 .. wire'[i].text : Carried(t)'
    <3>0. wire'[i] = f[k]
      BY <1>new, <2>2
    <3>1. CASE f[k].text = 0
      BY <1>3, <3>0, <3>1
    <3>2. CASE f[k].text # 0
      <4>1. f[k].text = heard + 1 /\ heard' = heard + 1 /\ ~gone
        BY <1>8, <3>2
      <4>2. ASSUME NEW t \in 1 .. heard + 1 PROVE Carried(t)'
        <5>1. CASE t = heard + 1
          <6>1. t = f[k].text
            BY <4>1, <5>1
          <6> QED
            BY <1>8, <6>1
        <5>2. CASE t \in 1 .. heard
          <6>1. Carried(t)
            BY <1>5, <4>1, <5>2
          <6> QED
            BY <1>7, <6>1
        <5> QED
          BY <1>1, <5>1, <5>2
      <4> QED
        BY <1>1, <3>0, <4>1, <4>2
    <3> QED
      BY <3>1, <3>2
  <2> QED
    BY <1>one, <2>1, <2>2
<1>11. ASSUME ~gone', NEW t \in 1 .. heard' PROVE Carried(t)'
  <2>1. ~gone /\ n = Len(f)
    BY <1>11
  <2>2. CASE t \in 1 .. heard
    <3>1. Carried(t)
      BY <1>5, <2>1, <2>2
    <3> QED
      BY <1>7, <3>1
  <2>3. CASE t \notin 1 .. heard
    <3>1. t = heard + 1 /\ d.text = t
      BY <1>1, <1>3, <2>3
    <3>2. d.text # 0
      BY <1>1, <3>1
    <3>3. PICK k \in 1 .. Len(f) : f[k].text = t
      BY <1>4, <3>1, <3>2
    <3>4. k \in 1 .. n
      BY <2>1
    <3> QED
      BY <1>8, <3>3, <3>4
  <2> QED
    BY <2>2, <2>3
<1> QED
  BY <1>9, <1>10, <1>11, <1>dom DEF TextKept

(***************************************************************************)
(* Frames that close the stream once, and last, keep it closed once.       *)
(***************************************************************************)
LEMMA ClosedStep ==
    ASSUME TypeOK, ClosedInv, target' = target, orderly' = orderly,
           panicked => panicked', gone => gone', em.finished => em'.finished,
           NEW f \in Seq(FrameSet), NEW n \in 0 .. Len(f), Grown(f, n), ~gone' => n = Len(f),
           \A i \in DOMAIN f :
              Closes(f[i]) => i = Len(f) /\ ~em.finished /\ em'.finished /\ target # "gemini",
           em'.finished /\ ~em.finished /\ target # "gemini" => \E i \in DOMAIN f : Closes(f[i]),
           orderly /\ em.finished /\ target # "gemini" /\ f # <<>> => panicked'
    PROVE  ClosedInv'
<1>1. wire \in Seq(FrameSet)
  BY DEF TypeOK
<1>dom. /\ DOMAIN wire = 1 .. Len(wire) /\ DOMAIN f = 1 .. Len(f)
        /\ DOMAIN wire' = 1 .. Len(wire) + n
  BY <1>1, GrownSplit
<1>len. Len(wire) \in Nat /\ Len(f) \in Nat /\ n \in Nat /\ n <= Len(f)
  BY <1>1, GrownSplit
<1>old. \A i \in 1 .. Len(wire) : wire'[i] = wire[i]
  BY <1>1, GrownSplit
<1>new. \A k \in 1 .. n : wire'[Len(wire) + k] = f[k]
  BY <1>1, GrownSplit
<1>one. \A i \in 1 .. Len(wire) + n :
           i \in 1 .. Len(wire) \/ \E k \in 1 .. n : i = Len(wire) + k
  BY <1>1, GrownSplit
<1>2. n # 0 => f # <<>>
  BY <1>len, EmptySeq
<1>3. /\ \A i, j \in 1 .. Len(wire) : Closes(wire[i]) /\ j > i =>
            ~Closes(wire[j]) /\ (orderly => panicked)
      /\ \A i \in 1 .. Len(wire) : Closes(wire[i]) => em.finished /\ target # "gemini"
      /\ em.finished /\ ~gone /\ target # "gemini" => \E i \in 1 .. Len(wire) : Closes(wire[i])
  BY <1>dom DEF ClosedInv, ClosedOnce, Closes
<1>4. /\ \A k \in 1 .. Len(f) : Closes(f[k]) =>
            k = Len(f) /\ ~em.finished /\ em'.finished /\ target # "gemini"
      /\ em'.finished /\ ~em.finished /\ target # "gemini" =>
            \E k \in 1 .. Len(f) : Closes(f[k])
  BY <1>dom
<1>5. ASSUME NEW k \in 1 .. n
      PROVE  k \in 1 .. Len(f) /\ n # 0 /\ Len(wire) + k \in 1 .. Len(wire) + n
  BY <1>len
<1>6. ASSUME NEW i \in 1 .. Len(wire) + n, Closes(wire'[i])
      PROVE  em'.finished /\ target # "gemini"
  <2>1. CASE i \in 1 .. Len(wire)
    BY <1>3, <1>6, <1>old, <2>1
  <2>2. ASSUME NEW k \in 1 .. n, i = Len(wire) + k
        PROVE  em'.finished /\ target # "gemini"
    <3>1. Closes(f[k]) /\ k \in 1 .. Len(f)
      BY <1>5, <1>6, <1>new, <2>2
    <3> QED
      BY <1>4, <3>1
  <2> QED
    BY <1>one, <2>1, <2>2
<1>7. ASSUME em'.finished, ~gone', target # "gemini"
      PROVE  \E i \in 1 .. Len(wire) + n : Closes(wire'[i])
  <2>1. CASE em.finished
    <3>1. PICK i \in 1 .. Len(wire) : Closes(wire[i])
      BY <1>3, <1>7, <2>1
    <3>2. i \in 1 .. Len(wire) + n
      BY <1>len
    <3> QED
      BY <1>old, <3>1, <3>2
  <2>2. CASE ~em.finished
    <3>1. PICK k \in 1 .. Len(f) : Closes(f[k])
      BY <1>4, <1>7, <2>2
    <3>2. k \in 1 .. n
      BY <1>7
    <3> QED
      BY <1>5, <1>new, <3>1, <3>2
  <2> QED
    BY <2>1, <2>2
<1>8. ASSUME NEW i \in 1 .. Len(wire) + n, NEW j \in 1 .. Len(wire) + n,
             Closes(wire'[i]), j > i
      PROVE  ~Closes(wire'[j]) /\ (orderly => panicked')
  <2>1. CASE i \in 1 .. Len(wire) /\ j \in 1 .. Len(wire)
    BY <1>3, <1>8, <1>old, <2>1
  <2>2. ASSUME i \in 1 .. Len(wire), NEW k \in 1 .. n, j = Len(wire) + k
        PROVE  ~Closes(wire'[j]) /\ (orderly => panicked')
    <3>1. em.finished /\ target # "gemini"
      BY <1>3, <1>8, <1>old, <2>2
    <3>2. wire'[j] = f[k] /\ k \in 1 .. Len(f) /\ f # <<>>
      BY <1>2, <1>5, <1>new, <2>2
    <3> QED
      BY <1>4, <3>1, <3>2
  <2>3. ASSUME NEW l \in 1 .. n, i = Len(wire) + l PROVE FALSE
    <3>1. Closes(f[l]) /\ l \in 1 .. Len(f)
      BY <1>5, <1>8, <1>new, <2>3
    <3>2. l = Len(f)
      BY <1>4, <3>1
    <3> QED
      BY <1>8, <1>len, <2>3, <3>2
  <2> QED
    BY <1>one, <2>1, <2>2, <2>3
<1> QED
  BY <1>6, <1>7, <1>8, <1>dom DEF ClosedInv, ClosedOnce, Closes

(***************************************************************************)
(* Frames that go on where the message stands are read after it.           *)
(***************************************************************************)
LEMMA ReadStep ==
    ASSUME wire \in Seq(FrameSet), Reads("nothing", wire),
           NEW last, ~gone => LastOf("nothing", wire) = last,
           NEW f \in Seq(FrameSet), Reads(last, f), NEW n \in 0 .. Len(f), Grown(f, n),
           gone => n = 0, ~gone' => ~gone /\ n = Len(f)
    PROVE  /\ Reads("nothing", wire')
           /\ ~gone' => LastOf("nothing", wire') = LastOf(last, f)
<1>dom. /\ DOMAIN wire = 1 .. Len(wire) /\ DOMAIN f = 1 .. Len(f)
        /\ DOMAIN wire' = 1 .. Len(wire) + n
  BY GrownSplit
<1>len. Len(wire) \in Nat /\ Len(f) \in Nat /\ n \in Nat /\ n <= Len(f)
  BY GrownSplit
<1>old. \A i \in 1 .. Len(wire) : wire'[i] = wire[i]
  BY GrownSplit
<1>new. \A k \in 1 .. n : wire'[Len(wire) + k] = f[k]
  BY GrownSplit
<1>one. \A i \in 1 .. Len(wire) + n :
           i \in 1 .. Len(wire) \/ \E k \in 1 .. n : i = Len(wire) + k
  BY GrownSplit
<1>2. /\ n # 0 => ~gone /\ LastOf("nothing", wire) = last
      /\ wire' \in Seq(FrameSet) /\ Len(wire') = Len(wire) + n
  BY DEF Grown
<1>3. /\ \A i \in 1 .. Len(wire) :
            (IF i = 1 THEN "nothing" ELSE wire[i - 1].event) \in Before[wire[i].event]
      /\ \A k \in 1 .. Len(f) :
            (IF k = 1 THEN last ELSE f[k - 1].event) \in Before[f[k].event]
  BY <1>dom DEF Reads
<1>4. /\ Len(wire) = 0 <=> wire = <<>>
      /\ Len(f) = 0 <=> f = <<>>
      /\ Len(wire') = 0 <=> wire' = <<>>
  BY <1>2, EmptySeq
<1>5. ASSUME NEW i \in 1 .. Len(wire) + n
      PROVE  (IF i = 1 THEN "nothing" ELSE wire'[i - 1].event) \in Before[wire'[i].event]
  <2>1. CASE i \in 1 .. Len(wire)
    <3>1. wire'[i] = wire[i]
      BY <1>old, <2>1
    <3>2. CASE i # 1
      <4>1. i - 1 \in 1 .. Len(wire)
        BY <1>len, <2>1, <3>2
      <4> QED
        BY <1>3, <1>old, <2>1, <3>1, <3>2, <4>1
    <3> QED
      BY <1>3, <2>1, <3>1, <3>2
  <2>2. ASSUME NEW k \in 1 .. n, i = Len(wire) + k
        PROVE  (IF i = 1 THEN "nothing" ELSE wire'[i - 1].event) \in Before[wire'[i].event]
    <3>1. k \in 1 .. Len(f) /\ n # 0
      BY <1>len
    <3>2. wire'[i] = f[k]
      BY <1>new, <2>2
    <3>3. CASE k # 1
      <4>1. k - 1 \in 1 .. n /\ i - 1 = Len(wire) + (k - 1) /\ i # 1
        BY <1>len, <2>2, <3>3
      <4>2. wire'[i - 1] = f[k - 1]
        BY <1>new, <4>1
      <4> QED
        BY <1>3, <3>1, <3>2, <3>3, <4>1, <4>2
    <3>4. CASE k = 1 /\ wire # <<>>
      <4>1. i - 1 = Len(wire) /\ i # 1 /\ Len(wire) \in 1 .. Len(wire)
        BY <1>4, <1>len, <2>2, <3>4
      <4>2. wire'[i - 1] = wire[Len(wire)]
        BY <1>old, <4>1
      <4>3. wire'[i - 1].event = last
        BY <1>2, <3>1, <3>4, <4>2 DEF LastOf
      <4> QED
        BY <1>3, <3>1, <3>2, <3>4, <4>1, <4>3
    <3>5. CASE k = 1 /\ wire = <<>>
      <4>1. i = 1
        BY <1>4, <2>2, <3>5
      <4>2. last = "nothing"
        BY <1>2, <3>1, <3>5 DEF LastOf
      <4> QED
        BY <1>3, <3>1, <3>2, <3>5, <4>1, <4>2
    <3> QED
      BY <3>3, <3>4, <3>5
  <2> QED
    BY <1>one, <2>1, <2>2
<1>6. ASSUME ~gone' PROVE LastOf("nothing", wire') = LastOf(last, f)
  <2>1. n = Len(f) /\ LastOf("nothing", wire) = last
    BY <1>6
  <2>2. CASE f = <<>>
    <3>1. n = 0 /\ Len(wire') = Len(wire)
      BY <1>2, <1>4, <1>len, <2>1, <2>2
    <3>2. CASE wire = <<>>
      <4>1. wire' = <<>>
        BY <1>4, <3>1, <3>2
      <4> QED
        BY <2>1, <2>2, <3>2, <4>1 DEF LastOf
    <3>3. CASE wire # <<>>
      <4>1. wire' # <<>> /\ Len(wire) \in 1 .. Len(wire)
        BY <1>4, <1>len, <3>1, <3>3
      <4>2. wire'[Len(wire)] = wire[Len(wire)]
        BY <1>old, <4>1
      <4> QED
        BY <2>1, <2>2, <3>1, <3>3, <4>1, <4>2 DEF LastOf
    <3> QED
      BY <3>2, <3>3
  <2>3. CASE f # <<>>
    <3>1. n \in 1 .. n /\ wire' # <<>>
      BY <1>2, <1>4, <1>len, <2>1, <2>3
    <3>2. wire'[Len(wire')] = f[Len(f)]
      BY <1>2, <1>new, <2>1, <3>1
    <3> QED
      BY <2>3, <3>1, <3>2 DEF LastOf
  <2> QED
    BY <2>2, <2>3
<1> QED
  BY <1>5, <1>6, <1>dom DEF Reads

-----------------------------------------------------------------------------
(***************************************************************************)
(* A report that is recorded.  applyTokenUsage keeps the tokens natural    *)
(* numbers, and the record of an orderly stream is what was reported last. *)
(***************************************************************************)
LEMMA ReportShape ==
    ASSUME TypeOK, NEW d \in Deltas, HasUsage(d)
    PROVE  LET now == IF d.text # 0 THEN d.text ELSE heard IN
           \E in \in {0, 1}, more \in Nat :
              /\ d.usage = Report(in, now, more)
              /\ source # "anthropic" => in = 1
              /\ source # "gemini" => more = 0
              /\ source = "gemini" => 1 + now + more >= usage.total
              /\ in + now > 0
<1>0. heard \in Nat /\ source \in Kinds /\ usage.total \in Nat
  BY DEF TypeOK
<1>1. /\ d.text \in {0, heard + 1} /\ d.text \in Nat
      /\ d.usage \in ReportsWith(d.text)
  BY DeltaShape
<1> DEFINE now == IF d.text # 0 THEN d.text ELSE heard
<1>2. d.usage \in Reports(now) /\ d.usage # NoReport /\ now \in Nat
  BY <1>0, <1>1 DEF ReportsWith, HasUsage
<1> HIDE DEF now
<1>3. CASE source = "openai"
  <2>1. d.usage = Report(1, now, 0)
    BY <1>2, <1>3 DEF Reports
  <2> QED
    BY <1>2, <1>3, <2>1 DEF now
<1>4. CASE source = "anthropic"
  <2>1. PICK in \in {0, 1} : d.usage = Report(in, now, 0)
    BY <1>2, <1>4 DEF Reports
  <2>2. in + now > 0
    BY <1>2, <2>1 DEF NoReport, Report
  <2> QED
    BY <1>4, <2>1, <2>2 DEF now
<1>5. CASE source = "gemini"
  <2>1. PICK more \in Nat : d.usage = Report(1, now, more) /\ d.usage.total >= usage.total
    BY <1>2, <1>5, Bounds DEF Reports
  <2>2. d.usage.total = 1 + now + more
    BY <2>1 DEF Report
  <2> QED
    BY <1>2, <1>5, <2>1, <2>2 DEF now
<1> QED
  BY <1>0, <1>3, <1>4, <1>5 DEF Kinds

LEMMA CountStep ==
    ASSUME TypeOK, InStep, Counted, NEW d \in Deltas, Event(d)
    PROVE  /\ rec' \in [err : BOOLEAN, in : Nat, out : Nat]
           /\ usage' \in [in : Nat, out : Nat, total : Nat]
           /\ Counted'
<1>1. /\ heard \in Nat /\ source \in Kinds /\ orderly \in BOOLEAN
      /\ rec \in [err : BOOLEAN, in : Nat, out : Nat]
      /\ usage \in [in : Nat, out : Nat, total : Nat]
      /\ phase \in {"open", "finished", "done"}
      /\ gone \in BOOLEAN
  BY DEF TypeOK
<1>2. /\ d.text \in {0, heard + 1} /\ d.text \in Nat
      /\ d.finish \in BOOLEAN /\ d.done \in BOOLEAN
      /\ d.done => ~d.finish /\ ~HasUsage(d)
  BY DeltaShape
<1>3. /\ pc = "scan"
      /\ orderly => InOrder(d)
      /\ heard' = (IF d.text # 0 THEN d.text ELSE heard)
      /\ usage' = (IF HasUsage(d) THEN d.usage ELSE usage)
      /\ phase' = (CASE d.done -> "done" [] d.finish -> "finished" [] OTHER -> phase)
      /\ source' = source /\ orderly' = orderly
  BY DEF Event
<1>4. reported' # {} <=> reported # {} \/ HasUsage(d)
  <2>1. reported' = reported \cup
            {at \in {"before", "with", "after"} :
                /\ HasUsage(d)
                /\ at = (IF d.finish THEN "with"
                         ELSE IF phase = "open" THEN "before" ELSE "after")}
    BY DEF Event
  <2>2. HasUsage(d) => \E at \in reported' : TRUE
    BY <2>1
  <2> QED
    BY <2>1, <2>2
<1>5. heard' \in Nat /\ heard <= heard'
  BY <1>1, <1>2, <1>3
<1>6. gone' \in BOOLEAN
  BY <1>1 DEF Event, Delivered
<1> DEFINE u == d.usage
           a == IF u.in > 0 THEN u.in ELSE rec.in
           b == IF u.out > 0 THEN u.out ELSE rec.out
<1>7. rec' = [Recorded(a, b, u.total) EXCEPT !.err = rec.err \/ gone']
  BY DEF Event, ApplyTokenUsage
<1>8. /\ rec'.in = (IF a = 0 /\ u.total > b THEN u.total - b ELSE a)
      /\ rec'.out = (IF a > 0 /\ b = 0 /\ u.total > a THEN u.total - a ELSE b)
      /\ rec' = [err |-> rec.err \/ gone', in |-> rec'.in, out |-> rec'.out]
  BY <1>7 DEF Recorded
<1>9. /\ usage = NoReport <=> reported = {}
      /\ usage.out <= heard
      /\ \E in \in {0, 1}, more \in Nat : usage = Report(in, usage.out, more)
      /\ rec.in + rec.out > 0 <=> reported # {}
      /\ source # "gemini" => usage.total = usage.in + usage.out
      /\ source # "anthropic" /\ reported # {} => usage.in = 1
      /\ orderly /\ source = "anthropic" /\ pc = "scan" /\ phase = "open" => usage = NoReport
      /\ orderly => /\ rec.in = usage.in
                    /\ usage.out > 0 => rec.out = usage.out
                    /\ usage.out = 0 => /\ rec.out = 0 <=> usage.total = usage.in
                                        /\ rec.out <= usage.total - usage.in
  BY DEF Counted
<1>10. orderly /\ source = "anthropic" => (phase' = "open" => phase = "open" /\ ~HasUsage(d))
  BY <1>1, <1>2, <1>3 DEF InOrder, Event
<1> HIDE DEF a, b
<1>11. CASE ~HasUsage(d)
  <2>1. u = NoReport /\ u.in = 0 /\ u.out = 0 /\ u.total = 0
    BY <1>11 DEF HasUsage, NoReport, Report
  <2>2. a = rec.in /\ b = rec.out
    BY <2>1 DEF a, b
  <2>3. rec'.in = rec.in /\ rec'.out = rec.out
    BY <1>1, <1>8, <2>1, <2>2
  <2>4. usage' = usage /\ (reported' = {} <=> reported = {}) /\ usage'.out <= heard'
    BY <1>1, <1>3, <1>4, <1>5, <1>9, <1>11
  <2>5. rec' \in [err : BOOLEAN, in : Nat, out : Nat]
    BY <1>1, <1>6, <1>8, <2>3
  <2>6. Counted'
    BY <1>3, <1>9, <1>10, <2>3, <2>4 DEF Counted, Event
  <2> QED
    BY <1>1, <2>4, <2>5, <2>6
<1>12. CASE HasUsage(d)
  <2>1. PICK in \in {0, 1} : \E more \in Nat :
              /\ u = Report(in, heard', more)
              /\ source # "anthropic" => in = 1
              /\ source # "gemini" => more = 0
              /\ source = "gemini" => 1 + heard' + more >= usage.total
              /\ in + heard' > 0
    BY <1>3, <1>12, ReportShape
  <2>2. PICK more \in Nat :
              /\ u = Report(in, heard', more)
              /\ source # "anthropic" => in = 1
              /\ source # "gemini" => more = 0
              /\ source = "gemini" => 1 + heard' + more >= usage.total
              /\ in + heard' > 0
    BY <2>1
  <2>3. /\ u.in = in /\ u.out = heard' /\ u.total = in + heard' + more
        /\ u \in [in : Nat, out : Nat, total : Nat]
    <3>1. u = [in |-> in, out |-> heard', total |-> in + heard' + more]
      BY <2>2 DEF Report
    <3>2. in \in Nat /\ more \in Nat
      OBVIOUS
    <3>3. \A x \in Nat : in + x + more \in Nat
      BY <3>2
    <3>4. in + heard' + more \in Nat
      BY <1>5, <3>3, Zenon
    <3> HIDE DEF u
    <3> QED
      BY <1>5, <3>1, <3>2, <3>4
  <2>4. a = (IF in > 0 THEN in ELSE rec.in) /\ b = (IF heard' > 0 THEN heard' ELSE rec.out)
    BY <2>3 DEF a, b
  <2>5. usage' = u /\ reported' # {} /\ usage' # NoReport
    BY <1>3, <1>4, <1>12 DEF HasUsage
  <2>6. rec'.in \in Nat /\ rec'.out \in Nat /\ rec'.in + rec'.out > 0
    BY <1>1, <1>5, <1>8, <2>2, <2>3, <2>4
  <2>7. rec' \in [err : BOOLEAN, in : Nat, out : Nat]
    BY <1>1, <1>6, <1>8, <2>6
  <2>8. ASSUME orderly
        PROVE  /\ rec'.in = in
               /\ heard' > 0 => rec'.out = heard'
               /\ heard' = 0 => /\ rec'.out = 0 <=> more = 0
                                /\ rec'.out <= more
    <3>1. PICK i \in {0, 1} : \E m \in Nat : usage = Report(i, usage.out, m)
      BY <1>9
    <3>2. PICK m \in Nat : usage = Report(i, usage.out, m)
      BY <3>1
    <3>3. usage.in = i /\ usage.total = i + usage.out + m
      BY <3>2 DEF Report
    <3>4. /\ rec.in = i
          /\ usage.out = 0 => (rec.out = 0 <=> m = 0) /\ rec.out <= m
      BY <1>1, <1>9, <2>8, <3>3
    <3>5. CASE source = "anthropic"
      <4>1. usage = NoReport /\ more = 0
        <5>1. phase = "open"
          BY <1>1, <1>3, <1>12, <2>8, <3>5 DEF InOrder
        <5> QED
          BY <1>3, <1>9, <2>2, <2>8, <3>5, <5>1
      <4>2. rec.in = 0 /\ rec.out = 0
        <5>1. usage.in = 0 /\ usage.out = 0 /\ usage.total = 0
          BY <4>1 DEF NoReport, Report
        <5> QED
          BY <3>3, <3>4, <5>1
      <4> QED
        BY <1>5, <1>8, <2>2, <2>3, <2>4, <4>1, <4>2
    <3>6. CASE source # "anthropic" /\ heard' > 0
      <4>1. in = 1 /\ a = 1 /\ b = heard'
        BY <2>2, <2>4, <3>6
      <4> QED
        BY <1>5, <1>8, <2>3, <3>6, <4>1
    <3>7. CASE source # "anthropic" /\ heard' = 0
      <4>1. in = 1 /\ a = 1 /\ b = rec.out
        BY <2>2, <2>4, <3>7
      <4>2. heard = 0 /\ usage.out = 0
        BY <1>1, <1>5, <1>9, <3>7
      <4>3. (rec.out = 0 <=> m = 0) /\ rec.out <= m
        BY <1>1, <3>3, <3>4, <4>2
      <4>4. m <= more
        <5>1. CASE source = "gemini"
          <6>1. reported = {} => m = 0
            BY <1>9, <3>3 DEF NoReport, Report
          <6>2. reported # {} => i = 1
            BY <1>9, <3>3, <3>7
          <6> QED
            BY <2>2, <3>3, <3>7, <4>2, <5>1, <6>1, <6>2
        <5>2. CASE source # "gemini"
          BY <1>9, <2>2, <3>3, <4>2, <5>2
        <5> QED
          BY <5>1, <5>2
      <4>5. m \in Nat /\ more \in Nat /\ rec.out \in Nat
        BY <1>1, <2>2, <3>2
      <4>6. u.total = 1 + more
        BY <2>3, <3>7, <4>1, <4>5
      <4>7. rec'.in = 1
        BY <1>8, <4>1
      <4>8. rec'.out = IF rec.out = 0 /\ more > 0 THEN more ELSE rec.out
        <5>1. rec'.out = IF rec.out = 0 /\ u.total > 1 THEN u.total - 1 ELSE rec.out
          BY <1>8, <4>1
        <5> QED
          BY <4>5, <4>6, <5>1
      <4>9. /\ rec'.out = 0 <=> more = 0
            /\ rec'.out <= more
        BY <4>3, <4>4, <4>5, <4>8
      <4> QED
        BY <3>7, <4>1, <4>7, <4>9
    <3> QED
      BY <1>5, <3>5, <3>6, <3>7
  <2>9. Counted'
    <3>1. usage'.out = heard' /\ usage'.in = in /\ usage'.total = in + heard' + more
      BY <2>3, <2>5
    <3>2. \E i \in {0, 1}, m \in Nat : usage' = Report(i, usage'.out, m)
      BY <2>2, <2>5, <3>1
    <3>3. source # "gemini" => usage'.total = usage'.in + usage'.out
      BY <1>5, <2>2, <3>1
    <3>4. orderly => /\ usage'.out > 0 => rec'.out = usage'.out
                     /\ usage'.out = 0 => /\ rec'.out = 0 <=> usage'.total = usage'.in
                                          /\ rec'.out <= usage'.total - usage'.in
      <4>1. more \in Nat /\ in \in Nat
        BY <2>2
      <4>2. heard' = 0 => usage'.total - usage'.in = more /\ (usage'.total = usage'.in <=> more = 0)
        BY <1>5, <3>1, <4>1
      <4> QED
        BY <1>5, <2>8, <3>1, <4>2
    <3> QED
      BY <1>3, <1>5, <1>10, <1>12, <2>2, <2>5, <2>6, <2>8, <3>1, <3>2, <3>3, <3>4 DEF Counted
  <2> QED
    BY <2>3, <2>5, <2>7, <2>9
<1> QED
  BY <1>11, <1>12

-----------------------------------------------------------------------------
(***************************************************************************)
(* Writing the frames of a delta preserves what is said of the wire.       *)
(***************************************************************************)
LEMMA WriteStep ==
    ASSUME TypeOK, Placed, ClosedInv, TextKept, MessageRead,
           NEW d, Coherent(d), d.text \in {0, heard + 1},
           heard' = IF d.text # 0 THEN d.text ELSE heard,
           Delivered(Frames(d)), em' = Emitted(d),
           target' = target, orderly' = orderly, sent' = sent, panicked' = panicked,
           orderly /\ em.finished /\ target # "gemini" => Frames(d) = <<>> /\ d.text = 0
    PROVE  /\ wire' \in Seq(FrameSet) /\ gone' \in BOOLEAN /\ (gone => gone')
           /\ em' \in [started : BOOLEAN, textStarted : BOOLEAN, finished : BOOLEAN]
           /\ ClosedInv' /\ TextKept' /\ MessageRead'
           /\ ~gone' => ((\E i \in DOMAIN wire' : wire'[i].usage) <=>
                  \/ \E i \in DOMAIN wire : wire[i].usage
                  \/ HasUsage(d) /\ (target = "anthropic" => d.finish /\ ~em.finished))
<1> DEFINE f == Frames(d)
<1>1. /\ wire \in Seq(FrameSet) /\ gone \in BOOLEAN /\ target \in Kinds
      /\ em \in [started : BOOLEAN, textStarted : BOOLEAN, finished : BOOLEAN]
  BY DEF TypeOK
<1>2. /\ d.text \in Nat /\ d.finish \in BOOLEAN /\ d.done \in BOOLEAN
      /\ d.done => d.text = 0 /\ ~d.finish
  BY DEF Coherent
<1>3. target = "anthropic" /\ (em.textStarted \/ em.finished) => em.started
  BY DEF Placed
<1>4. f \in Seq(FrameSet) /\ CarriesText(d, f) /\ ClosesWhen(d, f) /\ TellsUsage(d, f)
  BY <1>3, FramesShape DEF Shaped
<1>5. /\ gone' \in BOOLEAN /\ (gone => gone')
      /\ \E n \in 0 .. Len(f) :
            Grown(f, n) /\ (gone => n = 0) /\ (~gone' => n = Len(f))
  BY <1>1, <1>4, DeliveredGrows
<1>6. PICK n \in 0 .. Len(f) : Grown(f, n) /\ (gone => n = 0) /\ (~gone' => n = Len(f))
  BY <1>5
<1>7. /\ em'.started = (em.started \/ target = "anthropic")
      /\ em'.textStarted = (em.textStarted \/ (target = "anthropic" /\ d.text # 0))
      /\ em'.finished = (em.finished \/ d.done \/ (d.finish /\ target # "openai"))
      /\ em' \in [started : BOOLEAN, textStarted : BOOLEAN, finished : BOOLEAN]
  BY <1>1, <1>2 DEF Emitted
<1> HIDE DEF f
<1>8. wire' \in Seq(FrameSet)
  BY <1>6 DEF Grown
<1>9. TextKept'
  BY <1>4, <1>5, <1>6, TextStep
<1>10. ClosedInv'
  <2>1. /\ \A i \in DOMAIN f : Closes(f[i]) => i = Len(f) /\ Ends(d)
        /\ Ends(d) => \E i \in DOMAIN f : Closes(f[i])
    BY <1>4 DEF ClosesWhen
  <2>2. /\ Ends(d) => ~em.finished /\ em'.finished /\ target # "gemini"
        /\ em'.finished /\ ~em.finished /\ target # "gemini" => Ends(d)
    BY <1>1, <1>7 DEF Ends, Kinds
  <2>3. orderly /\ em.finished /\ target # "gemini" => f = <<>>
    BY DEF f
  <2>4. em.finished => em'.finished
    BY <1>7
  <2>5. /\ \A i \in DOMAIN f :
              Closes(f[i]) => i = Len(f) /\ ~em.finished /\ em'.finished /\ target # "gemini"
        /\ em'.finished /\ ~em.finished /\ target # "gemini" => \E i \in DOMAIN f : Closes(f[i])
    BY <2>1, <2>2
  <2> QED
    BY <1>4, <1>5, <1>6, <2>3, <2>4, <2>5, ClosedStep
<1>11. MessageRead'
  <2> SUFFICES ASSUME target = "anthropic", orderly, sent = "stream", ~panicked
               PROVE  Reads("nothing", wire') /\ (~gone' => LastOf("nothing", wire') = Reached')
    BY DEF MessageRead
  <2>1. Reads("nothing", wire) /\ (~gone => LastOf("nothing", wire) = Reached)
    BY DEF MessageRead
  <2>2. Reads(Reached, f) /\ LastOf(Reached, f) = Reached'
    <3>1. CASE em.finished
      <4>1. f = <<>>
        BY <3>1 DEF f
      <4>2. Reached = "message_stop" /\ Reached' = "message_stop"
        BY <1>7, <3>1 DEF Reached
      <4> QED
        BY <4>1, <4>2, NoFrame
    <3>2. CASE ~em.finished
      <4>1. /\ Reads(Reached, f)
            /\ LastOf(Reached, f) = IF Ends(d) THEN "message_stop" ELSE Stands(d)
        BY <1>3, <3>2, AnthropicShape DEF f
      <4>2. em'.started /\ (em'.finished <=> Ends(d))
        BY <1>7, <3>2 DEF Ends
      <4>3. Reached' = IF Ends(d) THEN "message_stop" ELSE Stands(d)
        BY <1>7, <4>2 DEF Reached, Stands
      <4> QED
        BY <4>1, <4>3
    <3> QED
      BY <3>1, <3>2
  <2>3. ~gone' => ~gone /\ n = Len(f)
    BY <1>5, <1>6
  <2> DEFINE last == Reached
  <2>4. Reads(last, f) /\ (~gone => LastOf("nothing", wire) = last)
    BY <2>1, <2>2
  <2>5. LastOf(last, f) = Reached'
    BY <2>2
  <2> HIDE DEF last
  <2>6. /\ Reads("nothing", wire')
        /\ ~gone' => LastOf("nothing", wire') = LastOf(last, f)
    BY <1>1, <1>4, <1>6, <2>1, <2>3, <2>4, ReadStep
  <2> QED
    BY <2>5, <2>6
<1>12. ASSUME ~gone'
       PROVE  (\E i \in DOMAIN wire' : wire'[i].usage) <=>
                  \/ \E i \in DOMAIN wire : wire[i].usage
                  \/ HasUsage(d) /\ (target = "anthropic" => d.finish /\ ~em.finished)
  <2>1. n = Len(f)
    BY <1>6, <1>12
  <2>2. DOMAIN wire = 1 .. Len(wire) /\ DOMAIN f = 1 .. Len(f) /\ DOMAIN wire' = 1 .. Len(wire) + n
    BY <1>1, <1>4, <1>6, GrownSplit
  <2>3. /\ \A i \in 1 .. Len(wire) : wire'[i] = wire[i]
        /\ \A k \in 1 .. n : wire'[Len(wire) + k] = f[k]
    BY <1>1, <1>4, <1>6, GrownSplit
  <2>4. \A i \in 1 .. Len(wire) + n :
           i \in 1 .. Len(wire) \/ \E k \in 1 .. n : i = Len(wire) + k
    BY <1>1, <1>4, <1>6, GrownSplit
  <2>5. /\ \A i \in 1 .. Len(wire) : i \in 1 .. Len(wire) + n
        /\ \A k \in 1 .. n : Len(wire) + k \in 1 .. Len(wire) + n
    BY <1>1, <1>4, <1>6, GrownSplit
  <2>6. (\E i \in 1 .. Len(wire) + n : wire'[i].usage) <=>
            (\E i \in 1 .. Len(wire) : wire[i].usage) \/ (\E k \in 1 .. n : f[k].usage)
    BY <2>3, <2>4, <2>5
  <2>7. (\E k \in 1 .. n : f[k].usage) <=>
            HasUsage(d) /\ (target = "anthropic" => d.finish /\ ~em.finished)
    BY <1>4, <2>1, <2>2 DEF TellsUsage
  <2> QED
    BY <2>2, <2>6, <2>7
<1> QED
  BY <1>5, <1>7, <1>8, <1>9, <1>10, <1>11, <1>12

LEMMA EventStep ==
    ASSUME Inv, NEW d \in Deltas, Event(d)
    PROVE  Inv'
<1>0. /\ TypeOK /\ Fresh /\ Placed /\ InStep /\ MessageRead /\ ClosedInv
      /\ TextKept /\ Counted /\ ErrorTold /\ Told
  BY DEF Inv
<1>1. /\ {source, target} \subseteq Kinds /\ {orderly, gone, broke, panicked} \subseteq BOOLEAN
      /\ phase \in {"open", "finished", "done"} /\ sent \in {"nothing", "stream", "copy", "error"}
      /\ em \in [started : BOOLEAN, textStarted : BOOLEAN, finished : BOOLEAN]
      /\ rec \in [err : BOOLEAN, in : Nat, out : Nat]
      /\ reported \subseteq {"before", "with", "after"} /\ {heard, events} \subseteq Nat
  BY <1>0 DEF TypeOK
<1>2. /\ d.text \in {0, heard + 1} /\ d.text \in Nat
      /\ d.finish \in BOOLEAN /\ d.done \in BOOLEAN
      /\ d.done => d.text = 0 /\ ~d.finish /\ ~HasUsage(d)
  BY <1>0, DeltaShape
<1>3. Coherent(d)
  BY <1>2 DEF Coherent
<1>4. /\ pc = "scan"
      /\ orderly => InOrder(d)
      /\ events' = events + 1
      /\ heard' = (IF d.text # 0 THEN d.text ELSE heard)
      /\ usage' = (IF HasUsage(d) THEN d.usage ELSE usage)
      /\ phase' = (CASE d.done -> "done" [] d.finish -> "finished" [] OTHER -> phase)
      /\ Delivered(Frames(d))
      /\ em' = Emitted(d)
      /\ pc' = (IF gone' THEN "tail" ELSE "scan")
      /\ source' = source /\ target' = target /\ orderly' = orderly /\ sent' = sent
      /\ broke' = broke /\ panicked' = panicked
  BY DEF Event
<1>5. sent = "stream" /\ ~panicked
  BY <1>0, <1>4 DEF Placed
<1>6. orderly /\ em.finished /\ target # "gemini" => Frames(d) = <<>> /\ d.text = 0
  BY <1>0, <1>4, NothingAfterTheEnd
<1>7. /\ wire' \in Seq(FrameSet) /\ gone' \in BOOLEAN /\ (gone => gone')
      /\ em' \in [started : BOOLEAN, textStarted : BOOLEAN, finished : BOOLEAN]
      /\ ClosedInv' /\ TextKept' /\ MessageRead'
      /\ ~gone' => ((\E i \in DOMAIN wire' : wire'[i].usage) <=>
             \/ \E i \in DOMAIN wire : wire[i].usage
             \/ HasUsage(d) /\ (target = "anthropic" => d.finish /\ ~em.finished))
  BY <1>0, <1>2, <1>3, <1>4, <1>6, WriteStep
<1>8. /\ rec' \in [err : BOOLEAN, in : Nat, out : Nat]
      /\ usage' \in [in : Nat, out : Nat, total : Nat]
      /\ Counted'
  BY <1>0, CountStep
<1>9. /\ em'.started = (em.started \/ target = "anthropic")
      /\ em'.textStarted = (em.textStarted \/ (target = "anthropic" /\ d.text # 0))
      /\ em'.finished = (em.finished \/ d.done \/ (d.finish /\ target # "openai"))
  BY <1>4 DEF Emitted
<1>10. /\ d.done => phase' = "done"
       /\ ~d.done /\ d.finish => phase' = "finished"
       /\ ~d.done /\ ~d.finish => phase' = phase
  BY <1>2, <1>4
<1>11. /\ reported' \subseteq {"before", "with", "after"}
       /\ reported' # {} <=> reported # {} \/ HasUsage(d)
       /\ "with" \in reported' <=> "with" \in reported \/ (HasUsage(d) /\ d.finish)
  <2> DEFINE now == {at \in {"before", "with", "after"} :
                        /\ HasUsage(d)
                        /\ at = (IF d.finish THEN "with"
                                 ELSE IF phase = "open" THEN "before" ELSE "after")}
  <2>1. reported' = reported \cup now
    BY DEF Event
  <2>2. /\ now \subseteq {"before", "with", "after"}
        /\ now # {} <=> HasUsage(d)
        /\ "with" \in now <=> HasUsage(d) /\ d.finish
    BY <1>2
  <2> HIDE DEF now
  <2> QED
    BY <1>1, <2>1, <2>2
<1>12. TypeOK'
  <2>1. phase' \in {"open", "finished", "done"}
    BY <1>1, <1>2, <1>10
  <2>2. {heard', events'} \subseteq Nat
    BY <1>1, <1>2, <1>4
  <2> QED
    BY <1>1, <1>4, <1>7, <1>8, <1>11, <2>1, <2>2 DEF TypeOK
<1>13. Fresh' /\ Placed'
  BY <1>0, <1>4, <1>5, <1>7, <1>9 DEF Fresh, Placed
<1>14. InStep'
  <2> SUFFICES ASSUME orderly, ~gone'
               PROVE  em'.finished = (IF target = "openai" THEN phase' = "done" ELSE phase' # "open")
    BY <1>4, <1>7 DEF InStep
  <2>1. em.finished = (IF target = "openai" THEN phase = "done" ELSE phase # "open")
    BY <1>0, <1>4 DEF InStep
  <2>2. phase # "done"
    BY <1>1, <1>4 DEF InOrder
  <2>3. phase = "finished" => ~d.finish
    BY <1>4 DEF InOrder
  <2> QED
    BY <1>1, <1>2, <1>9, <1>10, <2>1, <2>2, <2>3
<1>15. ErrorTold'
  <2>1. rec'.err = (rec.err \/ gone')
    BY <1>1, <1>7 DEF Event, ApplyTokenUsage, Recorded
  <2> QED
    BY <1>0, <1>1, <1>4, <1>7, <2>1 DEF ErrorTold
<1>16. Told'
  <2> SUFFICES ASSUME orderly, ~gone'
               PROVE  (\E i \in DOMAIN wire' : wire'[i].usage) <=>
                         IF target = "anthropic" THEN "with" \in reported' ELSE reported' # {}
    BY <1>4 DEF Told
  <2>1. (\E i \in DOMAIN wire : wire[i].usage) <=>
            IF target = "anthropic" THEN "with" \in reported ELSE reported # {}
    BY <1>0, <1>5, <1>7 DEF Told
  <2>2. target = "anthropic" /\ d.finish => ~em.finished
    <3>1. em.finished = (IF target = "openai" THEN phase = "done" ELSE phase # "open")
      BY <1>0, <1>4 DEF InStep
    <3>2. d.finish => phase = "open"
      BY <1>1, <1>4 DEF InOrder
    <3> QED
      BY <3>1, <3>2
  <2> QED
    BY <1>7, <1>11, <2>1, <2>2
<1> QED
  BY <1>7, <1>8, <1>12, <1>13, <1>14, <1>15, <1>16 DEF Inv

(***************************************************************************)
(* A step that writes nothing.                                             *)
(***************************************************************************)
LEMMA Unwritten ==
    ASSUME TextKept, ClosedInv, wire' = wire, gone' = gone, em' = em, heard' = heard,
           target' = target, orderly' = orderly, panicked => panicked'
    PROVE  TextKept' /\ ClosedInv'
<1>1. TextKept'
  BY DEF TextKept, Carried
<1>2. ClosedInv'
  BY DEF ClosedInv, ClosedOnce, Closes
<1> QED
  BY <1>1, <1>2

LEMMA CloseStep ==
    ASSUME Inv, CloseStream
    PROVE  Inv'
<1>0. /\ TypeOK /\ Fresh /\ Placed /\ InStep /\ MessageRead /\ ClosedInv
      /\ TextKept /\ Counted /\ ErrorTold /\ Told
  BY DEF Inv
<1>1. /\ gone \in BOOLEAN /\ heard \in Nat /\ rec \in [err : BOOLEAN, in : Nat, out : Nat]
      /\ em \in [started : BOOLEAN, textStarted : BOOLEAN, finished : BOOLEAN]
  BY <1>0 DEF TypeOK
<1>2. /\ pc = "tail" /\ pc' = "done"
      /\ UNCHANGED <<source, target, orderly, phase, heard, events, usage, reported>>
      /\ UNCHANGED <<sent, broke, panicked>>
  BY DEF CloseStream, upstream
<1>3. sent = "stream" /\ ~panicked
  BY <1>0, <1>2 DEF Placed
<1>4. /\ wire' \in Seq(FrameSet) /\ gone' \in BOOLEAN /\ (gone => gone')
      /\ em' \in [started : BOOLEAN, textStarted : BOOLEAN, finished : BOOLEAN]
      /\ ClosedInv' /\ TextKept' /\ MessageRead'
      /\ ~gone' => ((\E i \in DOMAIN wire' : wire'[i].usage) <=>
                    (\E i \in DOMAIN wire : wire[i].usage))
      /\ em'.finished
      /\ target = "anthropic" => em'.started
  <2>1. CASE Unclosed
    <3>1. Delivered(Frames(DoneDelta)) /\ em' = Emitted(DoneDelta) /\ ~em.finished
      BY <2>1 DEF CloseStream, When, Unclosed
    <3>2. /\ DoneDelta.text = 0 /\ ~DoneDelta.finish /\ DoneDelta.done /\ ~HasUsage(DoneDelta)
      BY DoneShape
    <3>3. Coherent(DoneDelta)
      BY <3>2 DEF Coherent, DoneDelta, Delta
    <3>4. /\ wire' \in Seq(FrameSet) /\ gone' \in BOOLEAN /\ (gone => gone')
          /\ em' \in [started : BOOLEAN, textStarted : BOOLEAN, finished : BOOLEAN]
          /\ ClosedInv' /\ TextKept' /\ MessageRead'
          /\ ~gone' => ((\E i \in DOMAIN wire' : wire'[i].usage) <=>
                 \/ \E i \in DOMAIN wire : wire[i].usage
                 \/ HasUsage(DoneDelta)
                    /\ (target = "anthropic" => DoneDelta.finish /\ ~em.finished))
      BY <1>0, <1>1, <1>2, <3>1, <3>2, <3>3, WriteStep
    <3>5. em'.finished /\ (target = "anthropic" => em'.started)
      BY <3>1, <3>2 DEF Emitted
    <3> QED
      BY <3>2, <3>4, <3>5
  <2>2. CASE ~Unclosed
    <3>1. Delivered(<<>>) /\ em' = em /\ em.finished
      BY <2>2 DEF CloseStream, When, Unclosed
    <3>2. wire \in Seq(FrameSet)
      BY <1>0 DEF TypeOK
    <3>3. gone' = gone /\ wire' = wire
      BY <3>1, <3>2, ConcatEmptySeq DEF Delivered
    <3>4. TextKept' /\ ClosedInv'
      BY <1>0, <1>2, <3>1, <3>3, Unwritten
    <3>5. MessageRead'
      BY <1>0, <1>2, <3>1, <3>3 DEF MessageRead, Reads, LastOf, Reached
    <3>6. target = "anthropic" => em.started
      BY <1>0, <3>1 DEF Placed
    <3> QED
      BY <1>1, <3>1, <3>2, <3>3, <3>4, <3>5, <3>6
  <2> QED
    BY <2>1, <2>2
<1>5. rec' = [rec EXCEPT !.err = rec.err \/ gone']
  BY DEF CloseStream
<1>6. /\ rec' \in [err : BOOLEAN, in : Nat, out : Nat]
      /\ rec'.err = (rec.err \/ gone') /\ rec'.in = rec.in /\ rec'.out = rec.out
  BY <1>1, <1>4, <1>5
<1>7. TypeOK'
  BY <1>0, <1>2, <1>4, <1>6 DEF TypeOK
<1>8. Fresh' /\ Placed' /\ InStep'
  BY <1>2, <1>3, <1>4 DEF Fresh, Placed, InStep
<1>9. Counted'
  BY <1>0, <1>2, <1>6 DEF Counted
<1>10. ErrorTold'
  BY <1>0, <1>2, <1>4, <1>6 DEF ErrorTold
<1>11. Told'
  BY <1>0, <1>2, <1>4 DEF Told
<1> QED
  BY <1>4, <1>7, <1>8, <1>9, <1>10, <1>11 DEF Inv

(***************************************************************************)
(* One frame more, that closes nothing, on a wire of untranslated frames.  *)
(***************************************************************************)
LEMMA OtherFrame ==
    ASSUME TypeOK, TextKept, ClosedInv,
           NEW event \in {"verbatim", "json_error"}, NEW text \in {0, heard + 1},
           heard' = IF text # 0 THEN text ELSE heard,
           Delivered(<<Frame(event, text, FALSE)>>),
           em' = em, target' = target, orderly' = orderly, panicked' = panicked,
           panicked \/ ~em.finished
    PROVE  /\ wire' \in Seq(FrameSet) /\ gone' \in BOOLEAN /\ (gone => gone')
           /\ TextKept' /\ ClosedInv'
<1> DEFINE g == Frame(event, text, FALSE)
           f == <<g>>
<1>1. wire \in Seq(FrameSet) /\ gone \in BOOLEAN /\ heard \in Nat
  BY DEF TypeOK
<1>2. event \in Events /\ text \in Nat
  BY <1>1 DEF Events
<1>3. g \in FrameSet /\ g.event = event /\ g.text = text
  BY <1>2 DEF Frame, FrameSet
<1>4. ~Closes(g)
  BY <1>3 DEF Closes
<1> HIDE DEF g
<1>5. f \in Seq(FrameSet) /\ Len(f) = 1 /\ DOMAIN f = {1} /\ f[1] = g
  BY <1>3
<1>6. CarriesText(g, f)
  BY <1>3, <1>5 DEF CarriesText
<1>7. Delivered(f)
  BY DEF g
<1> HIDE DEF f
<1>8. /\ gone' \in BOOLEAN /\ (gone => gone')
      /\ \E n \in 0 .. Len(f) :
            Grown(f, n) /\ (gone => n = 0) /\ (~gone' => n = Len(f))
  BY <1>1, <1>5, <1>7, DeliveredGrows
<1>9. PICK n \in 0 .. Len(f) : Grown(f, n) /\ (gone => n = 0) /\ (~gone' => n = Len(f))
  BY <1>8
<1>10. TextKept'
  <2>1. g.text \in {0, heard + 1} /\ heard' = IF g.text # 0 THEN g.text ELSE heard
    BY <1>3
  <2>2. f \in Seq(FrameSet)
    BY <1>5
  <2> HIDE DEF g
  <2> QED
    BY <1>6, <1>8, <1>9, <2>1, <2>2, TextStep
<1>11. ClosedInv'
  <2>1. \A i \in DOMAIN f : ~Closes(f[i])
    BY <1>4, <1>5
  <2> QED
    BY <1>5, <1>8, <1>9, <2>1, ClosedStep
<1> QED
  BY <1>8, <1>9, <1>10, <1>11 DEF Grown

LEMMA InitInv ==
    ASSUME Init PROVE Inv
<1>1. wire = <<>> /\ DOMAIN wire = {} /\ wire \in Seq(FrameSet)
  BY DEF Init
<1>2. TypeOK
  <2>1. NoReport \in [in : Nat, out : Nat, total : Nat]
    BY DEF NoReport, Report
  <2>2. /\ usage \in [in : Nat, out : Nat, total : Nat]
        /\ rec \in [err : BOOLEAN, in : Nat, out : Nat]
        /\ em \in [started : BOOLEAN, textStarted : BOOLEAN, finished : BOOLEAN]
    BY <2>1 DEF Init
  <2>3. {source, target} \subseteq Kinds /\ {orderly, gone, broke, panicked} \subseteq BOOLEAN
    BY DEF Init
  <2> QED
    BY <1>1, <2>2, <2>3 DEF Init, TypeOK
<1>3. Fresh /\ Placed /\ InStep /\ ErrorTold
  BY DEF Init, Fresh, Placed, InStep, ErrorTold
<1>4. MessageRead /\ Told
  BY DEF Init, MessageRead, Told
<1>5. ClosedInv
  BY <1>1 DEF Init, ClosedInv, ClosedOnce
<1>6. TextKept
  BY <1>1 DEF Init, TextKept
<1>7. Counted
  BY DEF Init, Counted, NoReport, Report
<1> QED
  BY <1>2, <1>3, <1>4, <1>5, <1>6, <1>7 DEF Inv

(***************************************************************************)
(* The steps before an answer, or of a verbatim copy, or of a panic, and   *)
(* the ends of a body: the record and the place of the handler change, and *)
(* for some a frame is written that belongs to no protocol.                *)
(***************************************************************************)
LEMMA InvNext ==
    ASSUME Inv, [Next]_vars
    PROVE  Inv'
<1>0. /\ TypeOK /\ Fresh /\ Placed /\ InStep /\ MessageRead /\ ClosedInv
      /\ TextKept /\ Counted /\ ErrorTold /\ Told
  BY DEF Inv
<1>1. /\ {source, target} \subseteq Kinds /\ {orderly, gone, broke, panicked} \subseteq BOOLEAN
      /\ em \in [started : BOOLEAN, textStarted : BOOLEAN, finished : BOOLEAN]
      /\ rec \in [err : BOOLEAN, in : Nat, out : Nat]
      /\ wire \in Seq(FrameSet) /\ {heard, events} \subseteq Nat
  BY <1>0 DEF TypeOK
<1>2. ASSUME NEW success \in BOOLEAN, Respond(success) PROVE Inv'
  <2>1. /\ pc = "headers" /\ sent' \in {"stream", "copy"}
        /\ pc' = IF sent' = "stream" THEN "scan" ELSE "through"
        /\ UNCHANGED <<source, target, orderly, phase, heard, events, usage, reported>>
        /\ UNCHANGED <<em, wire, gone, rec, broke, panicked>>
    BY <1>2 DEF Respond, upstream
  <2>2. /\ wire = <<>> /\ sent = "nothing" /\ ~gone /\ ~broke
        /\ rec = [err |-> FALSE, in |-> 0, out |-> 0]
        /\ phase = "open" /\ usage = NoReport /\ reported = {}
    BY <1>0, <2>1 DEF Fresh
  <2>3. ~panicked /\ ~em.started /\ ~em.textStarted /\ ~em.finished
    BY <1>0, <2>1, <2>2 DEF Placed
  <2>4. TextKept' /\ ClosedInv'
    BY <1>0, <2>1, Unwritten
  <2>5. TypeOK'
    BY <1>0, <2>1 DEF TypeOK
  <2>6. Fresh' /\ InStep' /\ ErrorTold'
    <3>1. pc' # "headers" /\ Fresh'
      BY <2>1 DEF Fresh
    <3>2. em'.finished = FALSE /\ phase' = "open"
      BY <1>1, <2>1, <2>2, <2>3
    <3>3. rec'.err = FALSE /\ broke' = broke /\ gone' = gone
      BY <2>1, <2>2
    <3>4. InStep'
      BY <3>2 DEF InStep
    <3>5. ErrorTold'
      BY <2>2, <3>3 DEF ErrorTold
    <3> QED
      BY <3>1, <3>4, <3>5
  <2>9. Placed'
    BY <2>1, <2>3 DEF Placed
  <2>7. MessageRead' /\ Told'
    BY <2>1, <2>2, <2>3, NoFrame DEF MessageRead, Told, Reached, Reads, LastOf
  <2>8. Counted'
    BY <1>0, <2>1, <2>2 DEF Counted
  <2> QED
    BY <2>4, <2>5, <2>6, <2>7, <2>8, <2>9 DEF Inv
<1>3. CASE NoAnswer
  <2>1. /\ pc = "headers" /\ pc' = "done" /\ sent' = "error" /\ broke' = TRUE
        /\ wire' = <<Frame("json_error", 0, FALSE)>>
        /\ rec' = [rec EXCEPT !.err = TRUE]
        /\ UNCHANGED <<source, target, orderly, phase, heard, events, usage, reported>>
        /\ UNCHANGED <<em, gone, panicked>>
    BY <1>3 DEF NoAnswer, upstream, Mark
  <2>2. wire = <<>> /\ sent = "nothing" /\ ~gone /\ heard = 0
    BY <1>0, <2>1 DEF Fresh
  <2>3. ~em.started /\ ~em.textStarted /\ ~em.finished
    BY <1>0, <2>2 DEF Placed
  <2> DEFINE w == <<Frame("json_error", 0, FALSE)>>
  <2>4. Single(w, "json_error") /\ w[1].text = 0
    <3>1. "json_error" \in Events
      BY DEF Events
    <3> QED
      BY <3>1, PlainFrame
  <2> HIDE DEF w
  <2>5. /\ DOMAIN wire' = {1} /\ wire'[1].event = "json_error" /\ wire' \in Seq(FrameSet)
        /\ wire'[1].text = 0
    <3>1. DOMAIN w = {1} /\ w[1].event = "json_error" /\ w \in Seq(FrameSet)
      BY <2>4 DEF Single
    <3> QED
      BY <2>1, <2>4, <3>1 DEF w
  <2>6. TextKept'
    <3>1. heard' = 0 /\ \A i \in DOMAIN wire' : wire'[i].text = 0
      BY <2>1, <2>2, <2>5
    <3>2. \A t \in 1 .. 0 : FALSE
      OBVIOUS
    <3>3. /\ \A i \in DOMAIN wire' : wire'[i].text <= heard'
          /\ \A i \in DOMAIN wire' : \A t \in 1 .. wire'[i].text : FALSE
          /\ \A t \in 1 .. heard' : FALSE
      BY <3>1, <3>2
    <3> QED
      BY <3>1, <3>3 DEF TextKept
  <2>7. ClosedInv'
    BY <2>1, <2>3, <2>5 DEF ClosedInv, ClosedOnce, Closes
  <2>8. rec' \in [err : BOOLEAN, in : Nat, out : Nat] /\ rec'.in = rec.in /\ rec'.out = rec.out
    BY <1>1, <2>1
  <2>9. TypeOK'
    BY <1>0, <2>1, <2>5, <2>8 DEF TypeOK
  <2>10. Fresh' /\ Placed' /\ InStep' /\ ErrorTold' /\ MessageRead' /\ Told'
    BY <2>1, <2>3 DEF Fresh, Placed, InStep, ErrorTold, MessageRead, Told
  <2>11. Counted'
    BY <1>0, <2>1, <2>8 DEF Counted
  <2> QED
    BY <2>6, <2>7, <2>9, <2>10, <2>11 DEF Inv
<1>4. ASSUME NEW d \in Deltas, Event(d) PROVE Inv'
  BY <1>4, EventStep
<1>5. CASE EndOfBody \/ BreakOff
  <2>1. /\ pc = "scan" /\ pc' = "tail"
        /\ UNCHANGED <<source, target, orderly, phase, heard, events, usage, reported>>
        /\ UNCHANGED <<em, wire, sent, gone, panicked>>
        /\ \/ rec' = rec /\ broke' = broke
           \/ rec' = [rec EXCEPT !.err = TRUE] /\ broke' = TRUE
    BY <1>5 DEF EndOfBody, BreakOff, upstream
  <2>2. /\ rec' \in [err : BOOLEAN, in : Nat, out : Nat] /\ rec'.in = rec.in /\ rec'.out = rec.out
        /\ broke' \in BOOLEAN
        /\ (rec.err <=> broke \/ gone) => (rec'.err <=> broke' \/ gone)
    <3>1. CASE rec' = rec /\ broke' = broke
      BY <1>1, <3>1
    <3>2. CASE rec' = [rec EXCEPT !.err = TRUE] /\ broke' = TRUE
      <4>1. rec'.err = TRUE /\ rec'.in = rec.in /\ rec'.out = rec.out
        BY <1>1, <3>2
      <4>2. rec' \in [err : BOOLEAN, in : Nat, out : Nat]
        BY <1>1, <3>2
      <4> QED
        BY <3>2, <4>1, <4>2
    <3> QED
      BY <2>1, <3>1, <3>2
  <2>3. TextKept' /\ ClosedInv'
    BY <1>0, <2>1, Unwritten
  <2>4. TypeOK'
    BY <1>0, <2>1, <2>2 DEF TypeOK
  <2>5. Fresh' /\ Placed' /\ InStep'
    BY <1>0, <2>1 DEF Fresh, Placed, InStep
  <2>6. ErrorTold'
    BY <1>0, <2>1, <2>2 DEF ErrorTold
  <2>7. MessageRead' /\ Told'
    BY <1>0, <2>1 DEF MessageRead, Told, Reached, Reads, LastOf
  <2>8. Counted'
    BY <1>0, <2>1, <2>2 DEF Counted
  <2> QED
    BY <2>3, <2>4, <2>5, <2>6, <2>7, <2>8 DEF Inv
<1>6. CASE CloseStream
  BY <1>6, CloseStep
<1>7. CASE Chunk
  <2>1. /\ pc = "through" /\ pc' = (IF gone' THEN "done" ELSE "through")
        /\ events' = events + 1 /\ heard' = heard + 1
        /\ Delivered(<<Frame("verbatim", heard + 1, FALSE)>>)
        /\ \/ rec' = rec
           \/ \E e \in BOOLEAN : rec' = [rec EXCEPT !.err = e]
        /\ UNCHANGED <<source, target, orderly, phase, usage, reported, em, sent, broke, panicked>>
    BY <1>7 DEF Chunk
  <2>2. sent = "copy" /\ ~em.started /\ ~em.textStarted /\ ~em.finished /\ ~panicked
    BY <1>0, <2>1 DEF Placed
  <2>3. heard + 1 # 0
    BY <1>1
  <2>4. wire' \in Seq(FrameSet) /\ gone' \in BOOLEAN /\ TextKept' /\ ClosedInv'
    BY <1>0, <2>1, <2>2, <2>3, OtherFrame
  <2>5. rec' \in [err : BOOLEAN, in : Nat, out : Nat] /\ rec'.in = rec.in /\ rec'.out = rec.out
    BY <1>1, <2>1
  <2>6. {heard', events'} \subseteq Nat /\ heard <= heard'
    BY <1>1, <2>1
  <2>7. TypeOK'
    BY <1>0, <1>1, <2>1, <2>4, <2>5, <2>6 DEF TypeOK
  <2>8. Fresh' /\ Placed' /\ InStep' /\ ErrorTold' /\ MessageRead' /\ Told'
    BY <2>1, <2>2 DEF Fresh, Placed, InStep, ErrorTold, MessageRead, Told
  <2>9. Counted'
    <3>1. usage'.out <= heard'
      BY <1>0, <1>1, <2>1, <2>6 DEF Counted, TypeOK
    <3> QED
      BY <1>0, <2>1, <2>5, <3>1 DEF Counted
  <2> QED
    BY <2>4, <2>7, <2>8, <2>9 DEF Inv
<1>8. CASE EndOfCopy
  <2>1. /\ pc = "through" /\ pc' = "done"
        /\ UNCHANGED <<source, target, orderly, phase, heard, events, usage, reported>>
        /\ UNCHANGED <<em, wire, sent, gone, panicked>>
        /\ \/ rec' = rec /\ broke' = broke
           \/ broke' = TRUE /\ \E e \in BOOLEAN : rec' = [rec EXCEPT !.err = e]
    BY <1>8 DEF EndOfCopy, upstream
  <2>2. sent = "copy" /\ ~em.started /\ ~em.textStarted /\ ~em.finished
    BY <1>0, <2>1 DEF Placed
  <2>3. TextKept' /\ ClosedInv'
    BY <1>0, <2>1, Unwritten
  <2>4. /\ rec' \in [err : BOOLEAN, in : Nat, out : Nat] /\ rec'.in = rec.in /\ rec'.out = rec.out
        /\ broke' \in BOOLEAN
    BY <1>1, <2>1
  <2>5. TypeOK'
    BY <1>0, <2>1, <2>4 DEF TypeOK
  <2>6. Fresh' /\ Placed' /\ InStep' /\ ErrorTold' /\ MessageRead' /\ Told'
    BY <2>1, <2>2 DEF Fresh, Placed, InStep, ErrorTold, MessageRead, Told
  <2>7. Counted'
    BY <1>0, <2>1, <2>4 DEF Counted
  <2> QED
    BY <2>3, <2>5, <2>6, <2>7 DEF Inv
<1>9. CASE Panic
  <2>1. /\ pc' = "panic" /\ panicked' = TRUE
        /\ UNCHANGED <<source, target, orderly, phase, heard, events, usage, reported>>
        /\ UNCHANGED <<em, wire, sent, gone, rec, broke>>
    BY <1>9 DEF Panic, upstream
  <2>2. TextKept' /\ ClosedInv'
    BY <1>0, <2>1, Unwritten
  <2>3. TypeOK'
    BY <1>0, <2>1 DEF TypeOK
  <2>4. Fresh' /\ Placed' /\ InStep' /\ ErrorTold' /\ MessageRead' /\ Told'
    BY <1>0, <2>1 DEF Fresh, Placed, InStep, ErrorTold, MessageRead, Told
  <2>5. Counted'
    BY <1>0, <2>1 DEF Counted
  <2> QED
    BY <2>2, <2>3, <2>4, <2>5 DEF Inv
<1>10. CASE Recover
  <2>1. /\ pc = "panic" /\ pc' = "done"
        /\ sent' = IF sent = "nothing" THEN "error" ELSE sent
        /\ Delivered(<<Frame("json_error", 0, FALSE)>>)
        /\ UNCHANGED <<source, target, orderly, phase, heard, events, usage, reported>>
        /\ UNCHANGED <<em, rec, broke, panicked>>
    BY <1>10 DEF Recover, upstream, Mark
  <2>2. panicked
    BY <1>0, <2>1 DEF Placed
  <2>3. wire' \in Seq(FrameSet) /\ gone' \in BOOLEAN /\ TextKept' /\ ClosedInv'
    BY <1>0, <2>1, <2>2, OtherFrame
  <2>4. TypeOK'
    BY <1>0, <2>1, <2>3 DEF TypeOK
  <2>5. Fresh' /\ Placed' /\ InStep' /\ ErrorTold' /\ MessageRead' /\ Told'
    BY <1>0, <2>1, <2>2 DEF Fresh, Placed, InStep, ErrorTold, MessageRead, Told
  <2>6. Counted'
    BY <1>0, <2>1 DEF Counted
  <2> QED
    BY <2>3, <2>4, <2>5, <2>6 DEF Inv
<1>11. CASE UNCHANGED vars
  <2>1. /\ UNCHANGED <<source, target, orderly, phase, heard, events, usage, reported>>
        /\ UNCHANGED <<pc, em, wire, sent, gone, rec, broke, panicked>>
    BY <1>11 DEF vars, upstream
  <2>2. TextKept' /\ ClosedInv'
    BY <1>0, <2>1, Unwritten
  <2>3. TypeOK'
    BY <1>0, <2>1 DEF TypeOK
  <2>4. Fresh' /\ Placed' /\ InStep' /\ ErrorTold'
    BY <1>0, <2>1 DEF Fresh, Placed, InStep, ErrorTold
  <2>5. MessageRead' /\ Told' /\ Counted'
    BY <1>0, <2>1 DEF MessageRead, Told, Reached, Reads, LastOf, Counted
  <2> QED
    BY <2>2, <2>3, <2>4, <2>5 DEF Inv
<1> QED
  BY <1>2, <1>3, <1>4, <1>5, <1>6, <1>7, <1>8, <1>9, <1>10, <1>11 DEF Next

LEMMA SpecInv == Spec => []Inv
<1>1. Init => Inv
  BY InitInv
<1>2. Inv /\ [Next]_vars => Inv'
  BY InvNext
<1> QED
  BY <1>1, <1>2, PTL DEF Spec

-----------------------------------------------------------------------------
(***************************************************************************)
(* Every reachable state of a stream has its types.                        *)
(***************************************************************************)
THEOREM StreamTypeCorrect == Spec => []TypeOK
<1>1. Inv => TypeOK
  BY DEF Inv
<1> QED
  BY <1>1, SpecInv, PTL

(***************************************************************************)
(* However long the stream, wherever the upstream ends it and whichever    *)
(* write fails, streamEmitter makes of the deltas of an orderly upstream a *)
(* message Anthropic's protocol allows, or the beginning of one.           *)
(***************************************************************************)
THEOREM MessageWellFormed == Spec => []AnthropicWellFormed
<1>1. Inv => AnthropicWellFormed
  BY DEF Inv, Placed, MessageRead, Reads, AnthropicWellFormed
<1> QED
  BY <1>1, SpecInv, PTL

(***************************************************************************)
(* The emitters and the tail of serveChatStreamAs together write at most   *)
(* one closing frame, and nothing after it.                                *)
(***************************************************************************)
THEOREM StreamClosedOnce == Spec => []ClosedOnce
<1>1. Inv => ClosedOnce
  BY DEF Inv, ClosedInv
<1> QED
  BY <1>1, SpecInv, PTL

(***************************************************************************)
(* serveChatStreamAs never returns to a client that still reads without    *)
(* having written a closing frame.                                         *)
(***************************************************************************)
THEOREM StreamAlwaysClosed == Spec => []AlwaysClosed
<1>1. Inv => AlwaysClosed
  <2> SUFFICES ASSUME Inv, pc = "done", sent = "stream", ~gone, ~panicked, target # "gemini"
               PROVE  Written("[DONE]") \/ Written("message_stop")
    BY DEF AlwaysClosed
  <2>1. em.finished
    BY DEF Inv, Placed
  <2>2. \E i \in DOMAIN wire : Closes(wire[i])
    BY <2>1 DEF Inv, ClosedInv
  <2> QED
    BY <2>2 DEF Closes, Written
<1> QED
  BY <1>1, SpecInv, PTL

(***************************************************************************)
(* No text is lost, doubled or moved between parseStreamDelta and the      *)
(* client, but behind a failed write.                                      *)
(***************************************************************************)
THEOREM TextsInOrder == Spec => []TextKept
<1>1. Inv => TextKept
  BY DEF Inv
<1> QED
  BY <1>1, SpecInv, PTL

(***************************************************************************)
(* What applyTokenUsage has made of the reports when the handler returns:  *)
(* of an orderly upstream what it reported last, and, as long as it has    *)
(* written nothing, a first guess that its total never falls short of.     *)
(* The error is recorded exactly when a read, a chunk or a write failed.   *)
(***************************************************************************)
THEOREM RecordIsTrue == Spec => []RecordTells
<1>1. Inv => RecordTells
  BY DEF Inv, ErrorTold, Counted, RecordTells
<1> QED
  BY <1>1, SpecInv, PTL

(***************************************************************************)
(* The emitters pass the usage on to the client whenever the protocol it   *)
(* speaks still can.                                                       *)
(***************************************************************************)
THEOREM UsagePassedOn == Spec => []UsageTold
<1>1. Inv => UsageTold
  BY DEF Inv, Told, UsageTold
<1> QED
  BY <1>1, SpecInv, PTL
=============================================================================
