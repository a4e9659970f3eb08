---------------------------- MODULE Conversation ----------------------------
(***************************************************************************)
(* A conversation with tools, over several requests: a client that keeps   *)
(* its history in one protocol, the gateway between, and providers of any  *)
(* protocol, chosen anew by every request (internal/proxy/proxy.go,        *)
(* translate.go, internal/config/config.go).                               *)
(*                                                                         *)
(*   client -Ask, Reply-> asked -Forward-> upstream -Answer-> client       *)
(*                          ^-- Refused, Failed --'                        *)
(*                                                                         *)
(* The gateway remembers nothing: each request carries the whole history,  *)
(* answers of earlier providers included, and is translated afresh.        *)
(***************************************************************************)
EXTENDS Protocols

CONSTANTS
    Names,          \* names of providers
    Models,         \* their models
    Configs,        \* configurations an administrator may install
    Offers,         \* lists of functions an answer may call
    Questions,      \* per protocol, sets of attachments a question may have
    Choices,        \* per protocol, the choices of tools a client may make
    MaxTurns,       \* bound: questions and replies of the client
    MaxCalls        \* bound: calls in the whole conversation

ASSUME QuestionsAllowed == \A kind \in Kinds : Questions[kind] \subseteq SUBSET CanAttach[kind]
ASSUME OffersAreLists == Offers \subseteq Seq(Functions)
ASSUME ChoicesOnWire == \A kind \in Kinds : Choices[kind] \subseteq WireChoices(kind)
ASSUME TurnBounds == MaxTurns \in Nat /\ MaxCalls \in Nat

(***************************************************************************)
(* A provider, and what a client may ask for: a model, or a model under    *)
(* the name of a provider.                                                 *)
(***************************************************************************)
NoPrefix == "none"
Wants == [prefix : Names \cup {NoPrefix}, model : Models]

Provider == [name : Names, host : {"anthropic.com", "googleapis.com", "elsewhere"},
             enabled : BOOLEAN, keys : BOOLEAN, models : SUBSET Wants]

ASSUME ConfigsAreLists == Configs \subseteq Seq(Provider)

VARIABLES
    client,     \* the protocol of the client
    config,     \* the providers, in order
    history,    \* the client's: all turns so far, in its protocol
    pc,         \* whose move it is: client, asked, upstream
    upstream,   \* protocol of the provider the request went to
    request,    \* what it was sent: the turns and the choice of tools
    choice,     \* the choice of tools in the client's request
    streaming,  \* the client asked for a stream
    answer,     \* what the upstream answered, in its protocol
    finish,     \* the finish reason as the client got it, or "error"
    turns, lines, calls     \* counters: turns of the client, lines, calls

served == <<upstream, request, choice, streaming>>
got == <<answer, finish>>
counters == <<turns, lines, calls>>
vars == <<client, config, history, pc, served, got, counters>>

Nothing == [turns |-> <<>>, choice |-> Choice("none", {})]
NoAnswer == [turn |-> [role |-> "assistant", texts |-> <<>>, media |-> {},
                       calls |-> <<>>, results |-> <<>>],
             finish |-> "none"]

(***************************************************************************)
(* No request is at an upstream.                                           *)
(***************************************************************************)
Idle == /\ upstream' = "openai"
        /\ request' = Nothing
        /\ choice' = Nothing.choice
        /\ streaming' = FALSE

Init == /\ client \in Kinds
        /\ config \in Configs
        /\ history = <<>>
        /\ pc = "client"
        /\ upstream = "openai"
        /\ request = Nothing
        /\ choice = Nothing.choice
        /\ streaming = FALSE
        /\ answer = NoAnswer
        /\ finish = "none"
        /\ turns = 0
        /\ lines = 0
        /\ calls = 0

-----------------------------------------------------------------------------
(***************************************************************************)
(* ProviderForModel: the first enabled provider of the name before the     *)
(* slash, whatever models it lists; else the first that lists the model    *)
(* as it was asked for.                                                    *)
(***************************************************************************)
Earliest(S) == CHOOSE i \in S : \A j \in S : i <= j

Named(want) == {i \in DOMAIN config : config[i].enabled /\ config[i].name = want.prefix}
Listing(want) == {i \in DOMAIN config : config[i].enabled /\ want \in config[i].models}

Routable(want) == Named(want) \cup Listing(want) # {}
ProviderForModel(want) ==
    config[Earliest(IF Named(want) # {} THEN Named(want) ELSE Listing(want))]

(***************************************************************************)
(* Its protocol goes by its name, else by its host; what is asked of its   *)
(* keys, by its name alone.                                                *)
(***************************************************************************)
AnthropicNames == {"anthropic", "claude"}
GeminiNames == {"gemini", "google", "googleai", "vertex"}

KindOfHost(host) == CASE host = "anthropic.com" -> "anthropic"
                      [] host = "googleapis.com" -> "gemini"
                      [] OTHER -> "openai"

ProviderKindOf(p) == CASE p.name \in AnthropicNames -> "anthropic"
                       [] p.name \in GeminiNames -> "gemini"
                       [] OTHER -> KindOfHost(p.host)

CanBuild(p) == p.name \in AnthropicNames \cup GeminiNames => p.keys

Serves(want) == Routable(want) /\ CanBuild(ProviderForModel(want))

-----------------------------------------------------------------------------
(***************************************************************************)
(* The client.  A call is due until the client has sent its result; the    *)
(* results of one answer are sent together, by an OpenAI client in a       *)
(* message each, by the others in one turn that may also hold a text.      *)
(* Only in Anthropic's protocol may a result hold an image.                *)
(***************************************************************************)
Due == IF history = <<>> THEN <<>> ELSE history[Len(history)].calls

UserTurn(texts, media, results) ==
    [role |-> "user", texts |-> texts, media |-> media, calls |-> <<>>,
     results |-> results]

ToolTurn(c) == [role |-> "tool", texts |-> <<>>, media |-> {}, calls |-> <<>>,
                results |-> <<[id |-> c.id, name |-> NoFunction, val |-> c.args]>>]

ResultOf(c) == [id |-> c.id, val |-> c.args,
                name |-> IF client = "gemini" THEN c.name ELSE NoFunction]

Say(said) == /\ pc = "client"
             /\ turns < MaxTurns
             /\ turns' = turns + 1
             /\ history' = history \o said
             /\ pc' = "asked"
             /\ answer' = NoAnswer
             /\ finish' = "none"
             /\ Idle
             /\ UNCHANGED <<client, config, calls>>

Ask(attached) ==
    /\ Due = <<>>
    /\ attached \in Questions[client]
    /\ lines' = lines + 1
    /\ Say(<<UserTurn(<<lines + 1>>, attached, <<>>)>>)

Reply(comment, shown) ==
    LET text == IF comment THEN <<lines + 1>> ELSE <<>>
    IN  /\ Due # <<>>
        /\ shown \subseteq (IF client = "anthropic" THEN {"result_image"} ELSE {})
        /\ lines' = lines + Len(text)
        /\ Say(IF client = "openai"
               THEN Over(Due, ToolTurn) \o
                    (IF comment THEN <<UserTurn(text, {}, <<>>)>> ELSE <<>>)
               ELSE <<UserTurn(text, shown, Over(Due, ResultOf))>>)

-----------------------------------------------------------------------------
(***************************************************************************)
(* The gateway.  A request that cannot be read, routed or built is refused;*)
(* the client may send it again.  DecodeAnthropicChat reads a content that *)
(* is a list of blocks; a string, the short form of the same protocol,     *)
(* refuses the whole request.                                              *)
(***************************************************************************)
MayBeUnreadable == client = "anthropic"

Refused(want) ==
    /\ pc = "asked"
    /\ ~Serves(want) \/ MayBeUnreadable
    /\ finish' = "error"
    /\ UNCHANGED <<client, config, history, pc, served, answer, counters>>

TranslateTurns(source, target) ==
    IF source = "openai" /\ target = "openai" THEN history
    ELSE Over(history, LAMBDA t : EncodeTurn(target, DecodeTurn(source, t)))

TranslateChoice(source, target, c) ==
    IF source = "openai" /\ target = "openai" THEN c
    ELSE EncodeChoice(target, DecodeChoice(source, c))

Forward(want, c, stream) ==
    /\ pc = "asked"
    /\ Serves(want)
    /\ upstream' = ProviderKindOf(ProviderForModel(want))
    /\ request' = [turns |-> TranslateTurns(client, upstream'),
                   choice |-> TranslateChoice(client, upstream', c)]
    /\ choice' = c
    /\ streaming' = stream
    /\ pc' = "upstream"
    /\ finish' = "none"
    /\ UNCHANGED <<client, config, history, answer, counters>>

(***************************************************************************)
(* The upstream refuses, times out or breaks off: the client has an error, *)
(* and may send the request again.                                         *)
(***************************************************************************)
Failed ==
    /\ pc = "upstream"
    /\ pc' = "asked"
    /\ finish' = "error"
    /\ Idle
    /\ UNCHANGED <<client, config, history, answer, counters>>

(***************************************************************************)
(* The upstream answers with a text, or calls, or both, or nothing at all, *)
(* for a reason its protocol has, whether the gateway's tables have it or  *)
(* not; Gemini may leave out the role.  The client gets the translation    *)
(* and appends it to its history.                                          *)
(***************************************************************************)
Finishes(kind, calling) ==
    IF calling /\ kind = "gemini" THEN {"STOP"}
    ELSE {s \in DOMAIN FinishTable[kind] : FinishTable[kind][s] = "tool_calls" <=> calling}
         \cup (IF calling THEN {} ELSE Untabled[kind])

AnswerRoles(kind) == IF kind = "gemini" THEN {"model", NoRole} ELSE {"assistant"}

AnswerOf(kind, role, text, offer) ==
    [role |-> role,
     texts |-> IF text THEN <<lines + 1>> ELSE <<>>, media |-> {},
     calls |-> [i \in DOMAIN offer |->
                  [id |-> IF kind = "gemini" THEN NoID ELSE Minted(calls + i),
                   name |-> offer[i], args |-> calls + i]],
     results |-> <<>>]

Answer(role, text, offer, reason) ==
    /\ pc = "upstream"
    /\ calls + Len(offer) <= MaxCalls
    /\ role \in AnswerRoles(upstream)
    /\ reason \in Finishes(upstream, offer # <<>>)
    /\ answer' = [turn |-> AnswerOf(upstream, role, text, offer), finish |-> reason]
    /\ finish' = IF upstream = client /\ (streaming => client = "openai") THEN reason
                 ELSE FinishFromIR(client, NormaliseFinish(upstream, reason), streaming)
    /\ history' = Append(history, TranslateAnswer(upstream, client, answer'.turn, streaming))
    /\ lines' = lines + Len(answer'.turn.texts)
    /\ calls' = calls + Len(offer)
    /\ pc' = "client"
    /\ request' = Nothing
    /\ choice' = Nothing.choice
    /\ UNCHANGED <<client, config, upstream, streaming, turns>>

(***************************************************************************)
(* An administrator edits the providers.                                   *)
(***************************************************************************)
Install(c) ==
    /\ c # config
    /\ config' = c
    /\ UNCHANGED <<client, history, pc, served, got, counters>>

Next == \/ \E attached \in Questions[client] : Ask(attached)
        \/ \E comment \in BOOLEAN, shown \in SUBSET {"result_image"} : Reply(comment, shown)
        \/ \E want \in Wants : Refused(want)
        \/ \E want \in Wants, c \in Choices[client], stream \in BOOLEAN :
               Forward(want, c, stream)
        \/ Failed
        \/ \E text \in BOOLEAN, offer \in Offers :
               \E role \in AnswerRoles(upstream), reason \in Finishes(upstream, offer # <<>>) :
                   Answer(role, text, offer, reason)
        \/ \E c \in Configs : Install(c)

Spec == Init /\ [][Next]_vars

-----------------------------------------------------------------------------
(***************************************************************************)
(* What a client may be told of the end of an answer: a reason of its own  *)
(* protocol; one that no table has, as its provider wrote it, to Gemini in *)
(* capitals; an Anthropic client also that the content was filtered, and a *)
(* Gemini client, by a stream, that there are calls.                       *)
(***************************************************************************)
Foreign == UNION {Untabled[kind] : kind \in Kinds}

Reasons == [openai |-> DOMAIN OpenAIFinish \cup Foreign,
            anthropic |-> DOMAIN AnthropicStop \cup {"content_filter"} \cup Foreign,
            gemini |-> DOMAIN GeminiFinish \cup {"TOOL_CALLS"}
                       \cup {ToUpper(s) : s \in Foreign}]

TypeOK ==
    /\ {client, upstream} \subseteq Kinds
    /\ config \in Configs
    /\ history \in Seq(Turn)
    /\ pc \in {"client", "asked", "upstream"}
    /\ request.turns \in Seq(Turn)
    /\ streaming \in BOOLEAN
    /\ answer.turn \in Turn
    /\ finish \in {"none", "error"} \cup Reasons[client]
    /\ {turns, lines, calls} \subseteq Nat

(***************************************************************************)
(* The same calls, whatever they are called by; the same results.          *)
(***************************************************************************)
SameCalls(cs, ds) ==
    /\ Len(cs) = Len(ds)
    /\ \A k \in DOMAIN cs : cs[k].name = ds[k].name /\ cs[k].args = ds[k].args

SameResults(rs, ss) ==
    /\ Len(rs) = Len(ss)
    /\ \A k \in DOMAIN rs : rs[k].val = ss[k].val

(***************************************************************************)
(* What does not survive the way from this client to this upstream: audio  *)
(* to Anthropic, audio in a file to any but Gemini; a document, except     *)
(* from an OpenAI or a Gemini client to a provider of the same protocol;   *)
(* and an image in a result.                                               *)
(***************************************************************************)
Mislaid(k) == \/ k = "audio" /\ upstream = "anthropic"
              \/ k = "audio_file" /\ upstream # "gemini"
              \/ k = "document" /\ (client # upstream \/ client = "anthropic")
              \/ k = "result_image"

Replaces(k, o) == <<k, o>> \in {<<"document_image", "document">>,
                                 <<"empty_audio", "audio_file">>}

(***************************************************************************)
(* Whichever provider a request goes to, and whichever gave the earlier    *)
(* answers, it is told every text of the history, turn by turn, and every  *)
(* attachment but those mislaid.  Nothing is attached that the client did  *)
(* not attach, but in place of a document an image that holds it, and in   *)
(* place of audio in a file audio without data.  Of a Gemini client's turn *)
(* that holds results, OpenAI is sent no text.                             *)
(***************************************************************************)
TextsReach ==
    pc = "upstream" =>
        /\ Len(request.turns) = Len(history)
        /\ \A i \in DOMAIN history :
            LET sent == request.turns[i]
                said == history[i]
            IN  \/ /\ sent.texts = said.texts
                   /\ \A k \in said.media : k \in sent.media \/ Mislaid(k)
                   /\ \A k \in sent.media : k \in said.media \/ \E o \in said.media : Replaces(k, o)
                \/ client = "gemini" /\ upstream = "openai" /\ said.results # <<>>

(***************************************************************************)
(* It is told every call of the history and every result, in order and     *)
(* once.  Only OpenAI is not told, by clients of other protocols: results  *)
(* that come in user turns, and what is in a Gemini client's history but   *)
(* the first result of a turn.                                             *)
(***************************************************************************)
CallsReach ==
    pc = "upstream" => \A i \in DOMAIN history :
        LET sent == request.turns[i]
            said == history[i]
        IN  /\ \/ SameCalls(sent.calls, said.calls)
               \/ client = "gemini" /\ upstream = "openai" /\ sent.calls = <<>>
            /\ \/ SameResults(sent.results, said.results)
               \/ client = "anthropic" /\ upstream = "openai" /\ sent.results = <<>>
               \/ /\ client = "gemini" /\ upstream = "openai"
                  /\ SameResults(sent.results, <<Head(said.results)>>)

(***************************************************************************)
(* A result reaches the upstream as the answer to the call it answers: by  *)
(* the call's id, or, for Gemini, by its function's name, except where the *)
(* id was minted by another provider: Gemini is then told the result under *)
(* the name of no function at all, and the call stays open.  An id that    *)
(* two calls share is one the gateway made for two calls of one function.  *)
(***************************************************************************)
ResultsCorrelate ==
    pc = "upstream" => \A i, j \in DOMAIN request.turns :
        /\ \A k \in DOMAIN request.turns[i].results, l \in DOMAIN request.turns[j].calls :
            LET r == request.turns[i].results[k]
                c == request.turns[j].calls[l]
            IN  r.val = c.args =>
                  /\ j < i
                  /\ upstream # "gemini" => r.id = c.id
                  /\ upstream = "gemini" =>
                        r.name = IF history[j].calls[l].id.by = "upstream"
                                 THEN NoFunction ELSE c.name
        /\ \A k \in DOMAIN request.turns[i].calls, l \in DOMAIN request.turns[j].calls :
            LET b == request.turns[i].calls[k]
                c == request.turns[j].calls[l]
            IN  upstream # "gemini" /\ b.id = c.id /\ b.args # c.args =>
                    b.id = CallPrefix(b.name) /\ b.name = c.name

(***************************************************************************)
(* What a choice of tools permits the model: to talk, and which functions. *)
(***************************************************************************)
Permits(c) ==
    (IF c.mode \in {"auto", "AUTO", "none", "NONE"} THEN {NoFunction} ELSE {})
    \cup (CASE c.mode \in {"none", "NONE"} -> {}
            [] c.mode \in {"function", "tool", "ANY"} /\ c.names # {} -> c.names
            [] OTHER -> Functions)

(***************************************************************************)
(* The upstream permits the model what the client permits, no more and no  *)
(* less.  Only a list of several names is widened to all.                  *)
(***************************************************************************)
ChoiceKept ==
    pc = "upstream" =>
        \/ Permits(request.choice) = Permits(choice)
        \/ /\ \E f, g \in choice.names : f # g
           /\ Permits(request.choice) = Functions

(***************************************************************************)
(* What a finish reason tells; under STOP, Gemini also asks for tools.     *)
(***************************************************************************)
Tells(kind, reason, asked) ==
    IF kind = "gemini" /\ asked # <<>> /\ reason = "STOP" THEN "tool_calls"
    ELSE NormaliseFinish(kind, reason)

(***************************************************************************)
(* The client is given the text, the calls and the finish of the answer,   *)
(* in its protocol, and minted ids unchanged.  A stream gives no calls,    *)
(* though its finish may ask for them; Gemini asks for tools by STOP,      *)
(* which other clients are told as an ordinary stop.  A reason without a   *)
(* table keeps its name, though not its case.                              *)
(***************************************************************************)
AnswerKept ==
    pc = "client" /\ answer # NoAnswer =>
        LET told == history[Len(history)]
            given == answer.turn
            asIs == client = "openai" /\ upstream = "openai"
        IN  /\ told.texts = given.texts
            /\ IF streaming /\ ~asIs THEN told.calls = <<>>
               ELSE /\ SameCalls(told.calls, given.calls)
                    /\ {client, upstream} \subseteq {"openai", "anthropic"} =>
                          told.calls = given.calls
            /\ \/ ToUpper(Tells(client, finish, told.calls))
                     = ToUpper(Tells(upstream, answer.finish, given.calls))
               \/ given.calls # <<>> /\ (streaming \/ upstream = "gemini")

(***************************************************************************)
(* The comment in DecodeAnthropicChat, that converters look for results    *)
(* irrespective of the role of their turn: every result of an Anthropic    *)
(* client's history reaches the upstream.                                  *)
(***************************************************************************)
ResultsForwarded ==
    pc = "upstream" /\ client = "anthropic" =>
        \A i \in DOMAIN history :
            SameResults(request.turns[i].results, history[i].results)
=============================================================================
