----------------------------- MODULE Protocols -----------------------------
(***************************************************************************)
(* The three wire protocols and the common form between them: the decoders *)
(* and encoders of internal/protocol (types.go, openai.go, anthropic.go,   *)
(* gemini.go), as operators from one turn, choice of tools or finish       *)
(* reason to another.  A protocol is decoded to the common form (ir) and   *)
(* encoded from it, for a request on its way up and an answer on its way   *)
(* down.                                                                   *)
(*                                                                         *)
(* Text is a sequence of numbered lines, so that "\n" joins two texts by   *)
(* appending one to the other.  The arguments of a call are a number that  *)
(* no other call has, and the value of a result is the number of the call  *)
(* it answers: which call a result is taken for can be told from which     *)
(* call it answers.                                                        *)
(***************************************************************************)
EXTENDS Naturals, Sequences

CONSTANTS Functions,    \* the tools a client declares, by name
          NoFunction    \* a name that none of them has

ASSUME NamesDiffer == NoFunction \notin Functions

Kinds == {"openai", "anthropic", "gemini"}

Over(s, Op(_)) == [i \in DOMAIN s |-> Op(s[i])]

(***************************************************************************)
(* The id of a call.  OpenAI and Anthropic upstreams mint one.  Gemini has *)
(* none: the gateway makes one of the function's name.                     *)
(***************************************************************************)
ID == [by : {"upstream", "gateway", "nobody"}, n : Nat,
       name : Functions \cup {NoFunction}]

Minted(n) == [by |-> "upstream", n |-> n, name |-> NoFunction]
CallPrefix(f) == [by |-> "gateway", n |-> 0, name |-> f]
NoID == [by |-> "nobody", n |-> 0, name |-> NoFunction]

(***************************************************************************)
(* A minted id without its prefix, if it has one, is no function's name.   *)
(*                                                                         *)
(* No translation uses a definition whose name begins with Mutant: each is *)
(* a plausible slip in the one that follows it, kept to show which         *)
(* property would notice.                                                  *)
(***************************************************************************)
MutantStripCallPrefix(id) == NoFunction

StripCallPrefix(id) == id.name

(***************************************************************************)
(* A turn on a wire.  A call of Gemini has no id; a result has the id of   *)
(* its call, or in Gemini the name of the function.  An OpenAI message of  *)
(* role "tool" is one result: its content and its tool_call_id.            *)
(***************************************************************************)
Call == [id : ID, name : Functions, args : Nat]
Result == [id : ID, name : Functions \cup {NoFunction}, val : Nat]
NoRole == "absent"     \* the empty string
Roles == {"user", "assistant", "tool", "model", "function", NoRole}

(***************************************************************************)
(* What can be attached to a turn: an image or audio by its data (an image *)
(* also by its URL); audio that Gemini keeps in a file, known by its URI;  *)
(* a document, which is whatever else there is, a PDF or a video; and      *)
(* within a result of Anthropic's an image.  The gateway itself makes two  *)
(* more of them: an image part that holds a document, and audio without    *)
(* any data.                                                               *)
(***************************************************************************)
CanAttach == [openai |-> {"image", "audio", "document"},
              anthropic |-> {"image", "document"},
              gemini |-> {"image", "audio", "audio_file", "document"}]

Attachments == {"image", "audio", "audio_file", "document", "result_image"}
Remains == {"document_image", "empty_audio"}

Turn == [role : Roles, texts : Seq(Nat), media : SUBSET (Attachments \cup Remains),
         calls : Seq(Call), results : Seq(Result)]

(***************************************************************************)
(* Calls are twice in the common form: ToolCalls as OpenAI has them, and   *)
(* tool_use parts of the content.                                          *)
(***************************************************************************)
Message == [role : Roles, texts : Seq(Nat), media : SUBSET (Attachments \cup Remains),
            toolCalls : Seq(Call), toolUses : Seq(Call), results : Seq(Result)]

-----------------------------------------------------------------------------
(***************************************************************************)
(* One turn of a request.  No decoder but Gemini's has a case for          *)
(* documents, and of the results of Anthropic only the text is read.       *)
(***************************************************************************)
DecodeOpenAI(t) ==
    [role |-> t.role, texts |-> t.texts, media |-> t.media \ {"document"},
     toolCalls |-> t.calls, toolUses |-> <<>>, results |-> t.results]

MutantDecodeAnthropic(t) ==
    [role |-> t.role, texts |-> t.texts, media |-> t.media \ {"document", "result_image"},
     toolCalls |-> <<>>, toolUses |-> t.calls, results |-> t.results]

DecodeAnthropic(t) ==
    [role |-> t.role, texts |-> t.texts, media |-> t.media \ {"document", "result_image"},
     toolCalls |-> t.calls, toolUses |-> t.calls, results |-> t.results]

FromGeminiCall(c) == [c EXCEPT !.id = CallPrefix(c.name)]

FromGeminiResult(r) == [id |-> CallPrefix(r.name), name |-> NoFunction, val |-> r.val]

DecodeGemini(t) ==
    [role |-> IF t.results # <<>> \/ t.role \in {"function", "tool"} THEN "tool"
              ELSE IF t.role = "model" THEN "assistant" ELSE "user",
     texts |-> t.texts, media |-> t.media, toolCalls |-> <<>>,
     toolUses |-> Over(t.calls, FromGeminiCall),
     results |-> Over(t.results, FromGeminiResult)]

DecodeTurn(kind, t) == CASE kind = "openai" -> DecodeOpenAI(t)
                         [] kind = "anthropic" -> DecodeAnthropic(t)
                         [] kind = "gemini" -> DecodeGemini(t)

(***************************************************************************)
(* A document of Gemini's is held as an image part of another type, and    *)
(* becomes one of an image's parts again; OpenAI's audio is its data.      *)
(***************************************************************************)
ImagePart(k) == IF k = "document" THEN "document_image" ELSE k

AudioPart(k) == IF k = "audio_file" THEN "empty_audio" ELSE k

(***************************************************************************)
(* OpenAI: a tool turn is its first result and nothing else; in any other  *)
(* turn tool_use and tool_result parts are left out.                       *)
(***************************************************************************)
EncodeOpenAI(m) ==
    [role |-> m.role,
     texts |-> IF m.role = "tool" THEN <<>> ELSE m.texts,
     media |-> IF m.role = "tool" THEN {} ELSE {ImagePart(AudioPart(k)) : k \in m.media},
     calls |-> m.toolCalls,
     results |-> IF m.role = "tool" /\ m.results # <<>>
                 THEN <<Head(m.results)>> ELSE <<>>]

CallsOf(m) == IF m.toolUses = <<>> THEN m.toolCalls ELSE m.toolUses

MutantEncodeAnthropic(m) ==
    [role |-> IF m.role = "tool" THEN "user" ELSE m.role,
     texts |-> IF m.results = <<>> THEN m.texts ELSE <<>>,
     media |-> {ImagePart(k) : k \in m.media \ {"audio", "audio_file"}},
     calls |-> CallsOf(m), results |-> m.results]

EncodeAnthropic(m) ==
    [role |-> IF m.role = "tool" THEN "user" ELSE m.role,
     texts |-> m.texts,
     media |-> {ImagePart(k) : k \in m.media \ {"audio", "audio_file"}},
     calls |-> CallsOf(m), results |-> m.results]

ToGeminiCall(c) == [c EXCEPT !.id = NoID]

ToGeminiResult(r) == [id |-> NoID, name |-> StripCallPrefix(r.id), val |-> r.val]

(***************************************************************************)
(* A content without parts is not sent; here it stays, as a turn that      *)
(* holds nothing, so that the turns of both sides are numbered alike.      *)
(***************************************************************************)
EncodeGemini(m) ==
    [role |-> IF m.role = "tool" \/ m.results # <<>> THEN "function"
              ELSE IF m.role = "assistant" THEN "model" ELSE m.role,
     texts |-> m.texts, media |-> m.media,
     calls |-> Over(CallsOf(m), ToGeminiCall),
     results |-> Over(m.results, ToGeminiResult)]

EncodeTurn(kind, m) == CASE kind = "openai" -> EncodeOpenAI(m)
                         [] kind = "anthropic" -> EncodeAnthropic(m)
                         [] kind = "gemini" -> EncodeGemini(m)

-----------------------------------------------------------------------------
(***************************************************************************)
(* The choice of tools.  OpenAI and Anthropic name one function or none,   *)
(* Gemini a list of those allowed under ANY.                               *)
(***************************************************************************)
Choice(mode, names) == [mode |-> mode, names |-> names]

Vocabulary ==
    [openai |-> [auto |-> "auto", none |-> "none", required |-> "required",
                 specific |-> "function"],
     anthropic |-> [auto |-> "auto", none |-> "none", required |-> "any",
                    specific |-> "tool"],
     gemini |-> [auto |-> "AUTO", none |-> "NONE", required |-> "ANY",
                 specific |-> "ANY"]]

WireChoices(kind) ==
    {Choice(Vocabulary[kind][m], {}) : m \in {"auto", "none", "required"}}
    \cup {Choice(Vocabulary[kind].specific, names) :
             names \in IF kind = "gemini" THEN SUBSET Functions
                       ELSE {{f} : f \in Functions}}

MutantDecodeChoice(kind, c) ==
    Choice(CHOOSE m \in DOMAIN Vocabulary[kind] :
               /\ Vocabulary[kind][m] = c.mode
               /\ m = "specific" => c.names # {},
           c.names)

(***************************************************************************)
(* ANY with one name is that function; with several, any function at all.  *)
(***************************************************************************)
DecodeChoice(kind, c) ==
    Choice(CHOOSE m \in DOMAIN Vocabulary[kind] :
               /\ Vocabulary[kind][m] = c.mode
               /\ m = "specific" <=> \E f \in Functions : c.names = {f},
           IF \E f \in Functions : c.names = {f} THEN c.names ELSE {})

EncodeChoice(kind, ir) == Choice(Vocabulary[kind][ir.mode], ir.names)

-----------------------------------------------------------------------------
(***************************************************************************)
(* Finish reasons.  What is in no table is passed on as it is, to Gemini   *)
(* in capitals: here the other reasons the three protocols know today.     *)
(***************************************************************************)
Translated(table, s) == IF s \in DOMAIN table THEN table[s] ELSE s

OpenAIFinish == [stop |-> "stop", length |-> "length", tool_calls |-> "tool_calls",
                 function_call |-> "tool_calls", content_filter |-> "content_filter"]
AnthropicStop == [end_turn |-> "stop", stop_sequence |-> "stop",
                  max_tokens |-> "length", tool_use |-> "tool_calls"]
GeminiFinish == [STOP |-> "stop", MAX_TOKENS |-> "length",
                 SAFETY |-> "content_filter", RECITATION |-> "content_filter",
                 BLOCKLIST |-> "content_filter", PROHIBITED_CONTENT |-> "content_filter",
                 SPII |-> "content_filter"]

Untabled == [openai |-> {"other"},
             anthropic |-> {"refusal", "pause_turn"},
             gemini |-> {"OTHER", "MALFORMED_FUNCTION_CALL"}]

Capitals == [other |-> "OTHER", refusal |-> "REFUSAL", pause_turn |-> "PAUSE_TURN",
             tool_calls |-> "TOOL_CALLS"]
ToUpper(s) == Translated(Capitals, s)

FinishTable == [openai |-> OpenAIFinish, anthropic |-> AnthropicStop,
                gemini |-> GeminiFinish]

NormaliseFinish(kind, s) == Translated(FinishTable[kind], s)

(***************************************************************************)
(* A stream to Gemini has no case for tool calls.                          *)
(***************************************************************************)
GeminiFinishFromIR(s, streaming) ==
    CASE s = "stop" -> "STOP"
      [] s = "length" -> "MAX_TOKENS"
      [] s = "content_filter" -> "SAFETY"
      [] s = "tool_calls" /\ ~streaming -> "STOP"
      [] OTHER -> ToUpper(s)

MutantFinishFromIR(kind, s, streaming) ==
    CASE kind = "openai" -> s
      [] kind = "anthropic" ->
           Translated([stop |-> "end_turn", length |-> "max_tokens"], s)
      [] kind = "gemini" -> GeminiFinishFromIR(s, streaming)

FinishFromIR(kind, s, streaming) ==
    CASE kind = "openai" -> s
      [] kind = "anthropic" ->
           Translated([stop |-> "end_turn", length |-> "max_tokens",
                       tool_calls |-> "tool_use"], s)
      [] kind = "gemini" -> GeminiFinishFromIR(s, streaming)

-----------------------------------------------------------------------------
(***************************************************************************)
(* An answer on its way down.  Of one with several choices, the first.     *)
(* Every decoder of answers fills in both places for calls, so that an     *)
(* encoder may take either.  A candidate of Gemini without a role is taken *)
(* for a turn of the user, as in a request, before anyone asks whether the *)
(* role is empty.                                                          *)
(***************************************************************************)
Answered(role, t, calls) ==
    [role |-> role, texts |-> t.texts, media |-> {},
     toolCalls |-> calls, toolUses |-> calls, results |-> <<>>]

DecodeOpenAIResponse(t) == Answered("assistant", t, t.calls)

DecodeAnthropicResponse(t) == Answered("assistant", t, t.calls)

DecodeGeminiResponse(t) ==
    Answered(IF t.role = "model" THEN "assistant" ELSE "user",
             t, Over(t.calls, FromGeminiCall))

DecodeAnswer(kind, t) == CASE kind = "openai" -> DecodeOpenAIResponse(t)
                           [] kind = "anthropic" -> DecodeAnthropicResponse(t)
                           [] kind = "gemini" -> DecodeGeminiResponse(t)

Answering(role, texts, calls) ==
    [role |-> role, texts |-> texts, media |-> {}, calls |-> calls, results |-> <<>>]

EncodeOpenAIResponse(m) ==
    Answering(m.role, m.texts,
              IF m.toolCalls = <<>> THEN m.toolUses ELSE m.toolCalls)

(***************************************************************************)
(* The slip: a call is left out if its id has been written before.         *)
(***************************************************************************)
MutantEncodeAnthropicResponse(m) ==
    Answering("assistant", m.texts,
              IF \E i, j \in DOMAIN CallsOf(m) :
                    i # j /\ CallsOf(m)[i].id = CallsOf(m)[j].id
              THEN <<Head(CallsOf(m))>> ELSE CallsOf(m))

EncodeAnthropicResponse(m) == Answering("assistant", m.texts, CallsOf(m))

EncodeGeminiResponse(m) ==
    Answering(IF m.role = "assistant" THEN "model" ELSE m.role, m.texts,
              Over(CallsOf(m), ToGeminiCall))

EncodeAnswer(kind, m) == CASE kind = "openai" -> EncodeOpenAIResponse(m)
                           [] kind = "anthropic" -> EncodeAnthropicResponse(m)
                           [] kind = "gemini" -> EncodeGeminiResponse(m)

(***************************************************************************)
(* A body is translated whole, and an answer in the client's own protocol  *)
(* is passed through.  Of a stream, only texts and the finish are read;    *)
(* a stream from OpenAI to OpenAI alone is passed through.                 *)
(***************************************************************************)
TranslateAnswer(source, target, t, streaming) ==
    IF source = target /\ (streaming => source = "openai") THEN t
    ELSE EncodeAnswer(target, IF streaming THEN Answered("assistant", t, <<>>)
                              ELSE DecodeAnswer(source, t))
=============================================================================
