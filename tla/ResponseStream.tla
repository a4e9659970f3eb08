--------------------------- MODULE ResponseStream ---------------------------
(***************************************************************************)
(* One streamed answer, from the upstream's events to the client's wire:   *)
(* serveChatStreamAs and its emitters (internal/proxy/stream.go),          *)
(* serveStreamThrough (internal/proxy/proxy.go), and what withRecover      *)
(* (internal/server/server.go) adds when the handler panics.               *)
(*                                                                         *)
(*   headers -Respond-> scan -Event...-> tail -CloseStream-> done          *)
(*                      through -Chunk...-> done                           *)
(*                                                                         *)
(* A stream between two protocols is read event by event; each becomes a   *)
(* delta, and each delta a few frames of the client's protocol.  A stream  *)
(* of the client's own protocol, or a refusal, is copied verbatim.         *)
(***************************************************************************)
EXTENDS Naturals, Sequences

CONSTANTS MaxEvents,    \* bound: deltas or chunks the upstream sends
          MaxHidden     \* bound: tokens of thoughts only Gemini's total includes

Kinds == {"openai", "anthropic", "gemini"}

ASSUME Bounds == MaxEvents \in Nat /\ MaxHidden \in Nat

VARIABLES
    source,     \* protocol of the upstream
    target,     \* protocol of the client
    orderly,    \* the upstream keeps to its own protocol
    phase,      \* how far an orderly upstream is: open, finished, done
    pc,         \* where the handler is
    em,         \* the streamEmitter
    wire,       \* frames written to the client
    sent,       \* what response has begun: its status is on the wire
    gone,       \* a write failed: no later one succeeds
    rec,        \* the call record: an error message, tokens in and out
    heard,      \* history: texts the upstream sent
    events,     \* deltas and chunks the upstream sent
    usage,      \* history: the last usage the upstream reported
    reported,   \* history: when it did: before, with, after its finish
    broke,      \* history: a read failed, or a chunk did not parse
    panicked    \* history: the handler panicked

upstream == <<source, target, orderly, phase, heard, events, usage, reported>>
vars == <<upstream, pc, em, wire, sent, gone, rec, broke, panicked>>

(***************************************************************************)
(* What an upstream may report of the tokens used so far, here one for the *)
(* prompt and one for each text.  Anthropic tells of the prompt in         *)
(* message_start, which nobody reads, and may do so again at the end; what *)
(* Gemini reports grows, and its total includes the hidden thoughts, which *)
(* may grow from one report to the next.  A report of nothing at all is no *)
(* report.                                                                 *)
(***************************************************************************)
Report(in, out, more) == [in |-> in, out |-> out, total |-> in + out + more]
NoReport == Report(0, 0, 0)

Reports(out) ==
    CASE source = "openai" -> {Report(1, out, 0)}
      [] source = "anthropic" -> {Report(in, out, 0) : in \in {0, 1}} \ {NoReport}
      [] source = "gemini" -> {r \in {Report(1, out, more) : more \in 0 .. MaxHidden} :
                                   r.total >= usage.total}

(***************************************************************************)
(* What parseStreamDelta makes of an event.  Texts are numbered in the     *)
(* order they are sent; zero is no text.  [DONE] and message_stop carry    *)
(* nothing else; an event that carries nothing is dropped, among them the  *)
(* error event of Anthropic and the error chunk of OpenAI, which end like  *)
(* the body of an answer that is complete.                                 *)
(***************************************************************************)
Delta(text, finish, report, done) ==
    [text |-> text, finish |-> finish, usage |-> report, done |-> done]

DoneDelta == Delta(0, FALSE, NoReport, TRUE)
HasUsage(d) == d.usage # NoReport

ReportsWith(text) == {NoReport} \cup Reports(IF text = 0 THEN heard ELSE text)

Deltas ==
    {DoneDelta} \cup
    (UNION {[text : {text}, finish : BOOLEAN, usage : ReportsWith(text), done : {FALSE}] :
            text \in {0, heard + 1}}
     \ {Delta(0, FALSE, NoReport, FALSE)})

(***************************************************************************)
(* What the protocols let an upstream send: texts, then one finish, then   *)
(* its usage if it has not come with the finish, then the end.  Gemini has *)
(* no event for the end, and Anthropic reports usage with the finish.      *)
(***************************************************************************)
InOrder(d) ==
    CASE phase = "open" -> /\ ~d.done
                           /\ source # "gemini" => ~(d.text # 0 /\ d.finish)
                           /\ source = "anthropic" /\ HasUsage(d) => d.finish
      [] phase = "finished" -> /\ d.text = 0 /\ ~d.finish
                               /\ HasUsage(d) => source = "openai"
                               /\ d.done => source # "gemini"
      [] OTHER -> FALSE

Frame(event, text, told) == [event |-> event, text |-> text, usage |-> told]
Mark(event) == <<Frame(event, 0, FALSE)>>
When(condition, frames) == IF condition THEN frames ELSE <<>>

Init == /\ source \in Kinds
        /\ target \in Kinds
        /\ orderly \in BOOLEAN
        /\ phase = "open"
        /\ pc = "headers"
        /\ em = [started |-> FALSE, textStarted |-> FALSE, finished |-> FALSE]
        /\ wire = <<>>
        /\ sent = "nothing"
        /\ gone = FALSE
        /\ rec = [err |-> FALSE, in |-> 0, out |-> 0]
        /\ heard = 0
        /\ events = 0
        /\ usage = NoReport
        /\ reported = {}
        /\ broke = FALSE
        /\ panicked = FALSE

-----------------------------------------------------------------------------
(***************************************************************************)
(* The emitters: the frames of a delta, and the emitter's state after it.  *)
(* A definition whose name begins with Mutant is a plausible slip in the   *)
(* one that follows it; no action uses it: a usage that comes alone is     *)
(* dropped; a frame has a name no client knows; the block is left open;    *)
(* the end of the message is written for every closing delta; the text is  *)
(* dropped when the finish comes with it.                                  *)
(***************************************************************************)
MutantOpenAIFrames(d) ==
    IF d.done THEN When(~em.finished, Mark("[DONE]"))
    ELSE When(d.text # 0 \/ d.finish, <<Frame("chunk", d.text, HasUsage(d))>>)

OpenAIFrames(d) ==
    IF d.done THEN When(~em.finished, Mark("[DONE]"))
    ELSE <<Frame("chunk", d.text, HasUsage(d))>>

MutantTypo(d) == When(~d.done, <<Frame("candidates", d.text, HasUsage(d))>>)

MutantAnthropicClosing(d) ==
    When((d.done \/ d.finish) /\ ~em.finished,
         When(em.textStarted, Mark("content_block_stop"))
         \o <<Frame("message_delta", 0, HasUsage(d))>> \o Mark("message_stop"))

AnthropicClosing(d) ==
    When((d.done \/ d.finish) /\ ~em.finished,
         When(em.textStarted \/ d.text # 0, Mark("content_block_stop"))
         \o <<Frame("message_delta", 0, HasUsage(d))>> \o Mark("message_stop"))

MutantAnthropicFrames(d) ==
    When(~em.started, Mark("message_start"))
    \o When(d.text # 0,
            When(~em.textStarted, Mark("content_block_start"))
            \o <<Frame("content_block_delta", d.text, FALSE)>>)
    \o When(d.done \/ d.finish,
            When(em.textStarted \/ d.text # 0, Mark("content_block_stop"))
            \o <<Frame("message_delta", 0, HasUsage(d))>> \o Mark("message_stop"))

AnthropicFrames(d) ==
    When(~em.started, Mark("message_start"))
    \o When(d.text # 0,
            When(~em.textStarted, Mark("content_block_start"))
            \o <<Frame("content_block_delta", d.text, FALSE)>>)
    \o AnthropicClosing(d)

MutantGeminiFrames(d) ==
    When(~d.done, <<Frame("candidate", IF d.finish THEN 0 ELSE d.text, HasUsage(d))>>)

GeminiFrames(d) == When(~d.done, <<Frame("candidate", d.text, HasUsage(d))>>)

Frames(d) == CASE target = "openai" -> OpenAIFrames(d)
               [] target = "anthropic" -> AnthropicFrames(d)
               [] target = "gemini" -> GeminiFrames(d)

Emitted(d) ==
    [started |-> em.started \/ target = "anthropic",
     textStarted |-> em.textStarted \/ (target = "anthropic" /\ d.text # 0),
     finished |-> em.finished \/ d.done \/ (d.finish /\ target # "openai")]

(***************************************************************************)
(* The frames are written one by one, up to the first write that fails.    *)
(***************************************************************************)
Delivered(frames) ==
    \/ /\ ~gone \/ frames = <<>>
       /\ wire' = wire \o frames
       /\ UNCHANGED gone
    \/ /\ frames # <<>>
       /\ gone' = TRUE
       /\ IF gone THEN UNCHANGED wire
          ELSE \E n \in 0..Len(frames) - 1 : wire' = wire \o SubSeq(frames, 1, n)

-----------------------------------------------------------------------------
(***************************************************************************)
(* applyTokenUsage: what is reported replaces what was recorded, and what  *)
(* neither was is taken from the total, once.  The slip: it is added.      *)
(***************************************************************************)
Recorded(in, out, total) ==
    [err |-> rec.err,
     in |-> IF in = 0 /\ total > out THEN total - out ELSE in,
     out |-> IF in > 0 /\ out = 0 /\ total > in THEN total - in ELSE out]

MutantApplyTokenUsage(u) == Recorded(rec.in + u.in, rec.out + u.out, u.total)

ApplyTokenUsage(u) ==
    Recorded(IF u.in > 0 THEN u.in ELSE rec.in,
             IF u.out > 0 THEN u.out ELSE rec.out, u.total)

Translates == source # target \/ target # "openai"

(***************************************************************************)
(* The upstream answers.  Anything but a success is passed on as it is.    *)
(***************************************************************************)
Respond(success) ==
    /\ pc = "headers"
    /\ \/ Translates /\ success /\ sent' = "stream" /\ pc' = "scan"
       \/ ~(Translates /\ success) /\ sent' = "copy" /\ pc' = "through"
    /\ UNCHANGED <<upstream, em, wire, gone, rec, broke, panicked>>

(***************************************************************************)
(* It cannot be reached: 502 with a JSON body.                             *)
(***************************************************************************)
NoAnswer ==
    /\ pc = "headers"
    /\ sent' = "error"
    /\ wire' = Mark("json_error")
    /\ rec' = [rec EXCEPT !.err = TRUE]
    /\ broke' = TRUE
    /\ pc' = "done"
    /\ UNCHANGED <<upstream, em, gone, panicked>>

(***************************************************************************)
(* The response has begun before the first event is read.  An event is     *)
(* written as it comes, and a failed write ends the scan.                  *)
(***************************************************************************)
Event(d) ==
    /\ pc = "scan"
    /\ events < MaxEvents
    /\ orderly => InOrder(d)
    /\ events' = events + 1
    /\ heard' = IF d.text # 0 THEN d.text ELSE heard
    /\ usage' = IF HasUsage(d) THEN d.usage ELSE usage
    /\ reported' = reported \cup
          {at \in {"before", "with", "after"} :
              /\ HasUsage(d)
              /\ at = (IF d.finish THEN "with"
                       ELSE IF phase = "open" THEN "before" ELSE "after")}
    /\ phase' = CASE d.done -> "done" [] d.finish -> "finished" [] OTHER -> phase
    /\ Delivered(Frames(d))
    /\ em' = Emitted(d)     \* after a failed write only the tail reads it, to write in vain
    /\ rec' = [ApplyTokenUsage(d.usage) EXCEPT !.err = rec.err \/ gone']
    /\ pc' = IF gone' THEN "tail" ELSE "scan"
    /\ UNCHANGED <<source, target, orderly, sent, broke, panicked>>

(***************************************************************************)
(* The body ends, wherever the upstream is; or a read fails, the provider  *)
(* times out, the client is gone, or a chunk is not JSON.                  *)
(***************************************************************************)
EndOfBody ==
    /\ pc = "scan"
    /\ pc' = "tail"
    /\ UNCHANGED <<upstream, em, wire, sent, gone, rec, broke, panicked>>

BreakOff ==
    /\ pc = "scan"
    /\ pc' = "tail"
    /\ broke' = TRUE
    /\ rec' = [rec EXCEPT !.err = TRUE]
    /\ UNCHANGED <<upstream, em, wire, sent, gone, panicked>>

(***************************************************************************)
(* The stream is closed for the client if it was not closed yet.           *)
(***************************************************************************)
MutantUnclosed == ~em.finished /\ ~rec.err

Unclosed == ~em.finished

CloseStream ==
    /\ pc = "tail"
    /\ Delivered(When(Unclosed, Frames(DoneDelta)))
    /\ em' = IF Unclosed THEN Emitted(DoneDelta) ELSE em
    /\ rec' = [rec EXCEPT !.err = @ \/ gone']
    /\ pc' = "done"
    /\ UNCHANGED <<upstream, sent, broke, panicked>>

(***************************************************************************)
(* The verbatim copy.  A cancelled read or write is not called an error.   *)
(***************************************************************************)
Chunk ==
    /\ pc = "through"
    /\ events < MaxEvents
    /\ events' = events + 1
    /\ heard' = heard + 1
    /\ Delivered(<<Frame("verbatim", heard + 1, FALSE)>>)
    /\ IF gone' THEN pc' = "done" /\ \E e \in BOOLEAN : rec' = [rec EXCEPT !.err = e]
                ELSE UNCHANGED <<pc, rec>>
    /\ UNCHANGED <<source, target, orderly, phase, usage, reported, em, sent, broke,
                   panicked>>

EndOfCopy ==
    /\ pc = "through"
    /\ pc' = "done"
    /\ \/ UNCHANGED <<rec, broke>>
       \/ broke' = TRUE /\ \E e \in BOOLEAN : rec' = [rec EXCEPT !.err = e]
    /\ UNCHANGED <<upstream, em, wire, sent, gone, panicked>>

(***************************************************************************)
(* A fault in the handler.  withRecover holds the server's own response    *)
(* writer, never the loggingResponseWriter that knows of the headers.      *)
(***************************************************************************)
Panic ==
    /\ pc \in {"headers", "scan", "tail", "through"}
    /\ pc' = "panic"
    /\ panicked' = TRUE
    /\ UNCHANGED <<upstream, em, wire, sent, gone, rec, broke>>

Recover ==
    /\ pc = "panic"
    /\ sent' = IF sent = "nothing" THEN "error" ELSE sent
    /\ Delivered(Mark("json_error"))
    /\ pc' = "done"
    /\ UNCHANGED <<upstream, em, rec, broke, panicked>>

Next == \/ \E success \in BOOLEAN : Respond(success)
        \/ NoAnswer
        \/ \E d \in Deltas : Event(d)
        \/ EndOfBody \/ BreakOff \/ CloseStream
        \/ Chunk \/ EndOfCopy
        \/ Panic \/ Recover

Spec == Init /\ [][Next]_vars

-----------------------------------------------------------------------------
Events == {"chunk", "[DONE]", "candidate", "verbatim", "json_error",
           "message_start", "content_block_start", "content_block_delta",
           "content_block_stop", "message_delta", "message_stop"}

FrameSet == [event : Events, text : Nat, usage : BOOLEAN]

TypeOK ==
    /\ {source, target} \subseteq Kinds
    /\ {orderly, gone, broke, panicked} \subseteq BOOLEAN
    /\ sent \in {"nothing", "stream", "copy", "error"}
    /\ phase \in {"open", "finished", "done"}
    /\ pc \in {"headers", "scan", "tail", "through", "panic", "done"}
    /\ em \in [started : BOOLEAN, textStarted : BOOLEAN, finished : BOOLEAN]
    /\ wire \in Seq(FrameSet)
    /\ rec \in [err : BOOLEAN, in : Nat, out : Nat]
    /\ usage \in [in : Nat, out : Nat, total : Nat]
    /\ reported \subseteq {"before", "with", "after"}
    /\ {heard, events} \subseteq Nat

Written(event) == \E i \in DOMAIN wire : wire[i].event = event

(***************************************************************************)
(* What may come before each frame of an Anthropic message; <<>> is the    *)
(* beginning of the response.                                              *)
(***************************************************************************)
Before == [message_start       |-> {"nothing"},
           content_block_start |-> {"message_start"},
           content_block_delta |-> {"content_block_start", "content_block_delta"},
           content_block_stop  |-> {"content_block_delta"},
           message_delta       |-> {"message_start", "content_block_stop"},
           message_stop        |-> {"message_delta"}]

(***************************************************************************)
(* An Anthropic client that is sent a translated stream reads a message of *)
(* its protocol, or the beginning of one: blocks opened once, before their *)
(* deltas, and closed, the end written once, and nothing after it; however *)
(* the upstream ended, and whichever write failed.                         *)
(***************************************************************************)
AnthropicWellFormed ==
    target = "anthropic" /\ orderly /\ em.started /\ ~panicked =>
        \A i \in DOMAIN wire :
            (IF i = 1 THEN "nothing" ELSE wire[i - 1].event) \in Before[wire[i].event]

(***************************************************************************)
(* Whatever the upstream sends, the client is told at most once that the   *)
(* stream is over, and, by an upstream that keeps to its protocol, last.   *)
(***************************************************************************)
ClosedOnce ==
    \A i, j \in DOMAIN wire :
        wire[i].event \in {"[DONE]", "message_stop"} /\ j > i =>
            /\ wire[j].event \notin {"[DONE]", "message_stop"}
            /\ orderly => panicked

(***************************************************************************)
(* Whatever the upstream sends and however it ends, a translated stream    *)
(* the client can still read is closed before the handler returns.  Gemini *)
(* knows no closing frame.                                                 *)
(***************************************************************************)
AlwaysClosed ==
    pc = "done" /\ sent = "stream" /\ ~gone /\ ~panicked =>
        target = "gemini" \/ Written("[DONE]") \/ Written("message_stop")

Carried(t) == \E i \in DOMAIN wire : wire[i].text = t

(***************************************************************************)
(* The texts on the wire are those the upstream sent, in order, none twice *)
(* and none left out between two others; a text is missing only behind a   *)
(* write that failed.                                                      *)
(***************************************************************************)
TextKept == /\ \A i, j \in DOMAIN wire :
                  i < j /\ wire[i].text # 0 /\ wire[j].text # 0 =>
                     wire[i].text < wire[j].text
            /\ \A i \in DOMAIN wire : /\ wire[i].text <= heard
                                      /\ \A t \in 1 .. wire[i].text : Carried(t)
            /\ ~gone => \A t \in 1 .. heard : Carried(t)

(***************************************************************************)
(* The record of a translated stream has an error exactly when a read      *)
(* failed, a chunk did not parse or the client could not be written to: an *)
(* upstream that stops, whatever it said before, has answered.  It has     *)
(* tokens exactly when the upstream reported some, also after the finish;  *)
(* of an orderly upstream, those of the prompt, and of the answer those it *)
(* reported last, however often it did.  As long as it has written nothing *)
(* the record keeps the first guess from a total: something if and only if *)
(* there is something beyond the prompt, and never more than there is.     *)
(***************************************************************************)
RecordTells ==
    pc = "done" /\ sent = "stream" /\ ~panicked =>
        /\ rec.err <=> broke \/ gone
        /\ rec.in + rec.out > 0 <=> reported # {}
        /\ orderly =>
              /\ rec.in = usage.in
              /\ usage.out > 0 => rec.out = usage.out
              /\ usage.out = 0 => /\ rec.out = 0 <=> usage.total = usage.in
                                  /\ rec.out <= usage.total - usage.in

(***************************************************************************)
(* The client of a translated stream is told the usage if and only if the  *)
(* upstream reported one; but an Anthropic client only if it came with the *)
(* finish, which closes its message.                                       *)
(***************************************************************************)
UsageTold ==
    pc = "done" /\ sent = "stream" /\ orderly /\ ~gone /\ ~panicked =>
        ((\E i \in DOMAIN wire : wire[i].usage) <=>
             IF target = "anthropic" THEN "with" \in reported ELSE reported # {})

(***************************************************************************)
(* The comment in withRecover, that a response the handler has started is  *)
(* left alone.                                                             *)
(***************************************************************************)
StartedResponseLeftAlone == [][panicked /\ sent # "nothing" => UNCHANGED wire]_vars
=============================================================================
