------------------------ MODULE Conversation_proofs ------------------------
(***************************************************************************)
(* What a translated request tells the upstream, proved for conversations  *)
(* of any length over any configurations.                                  *)
(***************************************************************************)
EXTENDS Conversation, TLAPS

(***************************************************************************)
(* A function on the positions of a sequence is a sequence as long.        *)
(***************************************************************************)
LEMMA Mapped ==
    ASSUME NEW S, NEW T, NEW s \in Seq(S), NEW e,
           e = [i \in DOMAIN s |-> e[i]],
           \A i \in DOMAIN s : e[i] \in T
    PROVE  e \in Seq(T) /\ Len(e) = Len(s) /\ DOMAIN e = DOMAIN s
<1>1. DOMAIN s = 1..Len(s) /\ Len(s) \in Nat
    OBVIOUS
<1>2. e \in [1..Len(s) -> T]
    BY <1>1
<1> QED
    BY <1>1, <1>2

(***************************************************************************)
(* The kinds of protocols, one by one.                                     *)
(***************************************************************************)
LEMMA KindCases ==
    ASSUME NEW k \in Kinds
    PROVE  k = "openai" \/ k = "anthropic" \/ k = "gemini"
BY DEF Kinds

(***************************************************************************)
(* A decoded turn is a message, and an encoded one a turn.                 *)
(***************************************************************************)
LEMMA IDsTyped ==
    /\ NoID \in ID
    /\ \A n \in Nat : Minted(n) \in ID
    /\ \A f \in Functions \cup {NoFunction} : CallPrefix(f) \in ID
BY DEF ID, NoID, Minted, CallPrefix

LEMMA ElementsTyped ==
    /\ \A c \in Call : FromGeminiCall(c) \in Call /\ ToGeminiCall(c) \in Call
    /\ \A r \in Result : FromGeminiResult(r) \in Result /\ ToGeminiResult(r) \in Result
<1>1. ASSUME NEW c \in Call
      PROVE  FromGeminiCall(c) \in Call /\ ToGeminiCall(c) \in Call
    <2>1. CallPrefix(c.name) \in ID /\ NoID \in ID
        BY IDsTyped DEF Call
    <2> QED
        BY <2>1 DEF Call, FromGeminiCall, ToGeminiCall
<1>2. ASSUME NEW r \in Result
      PROVE  FromGeminiResult(r) \in Result /\ ToGeminiResult(r) \in Result
    <2>1. CallPrefix(r.name) \in ID /\ NoID \in ID
        BY IDsTyped DEF Result
    <2>2. StripCallPrefix(r.id) \in Functions \cup {NoFunction}
        BY DEF Result, ID, StripCallPrefix
    <2> QED
        BY <2>1, <2>2 DEF Result, FromGeminiResult, ToGeminiResult
<1> QED
    BY <1>1, <1>2

(***************************************************************************)
(* What a helper does to the elements of a sequence, it does to them all.  *)
(***************************************************************************)
LEMMA OverCalls ==
    ASSUME NEW s \in Seq(Call)
    PROVE  /\ Over(s, FromGeminiCall) \in Seq(Call)
           /\ Over(s, ToGeminiCall) \in Seq(Call)
           /\ Len(Over(s, FromGeminiCall)) = Len(s)
           /\ Len(Over(s, ToGeminiCall)) = Len(s)
<1>1. \A i \in DOMAIN s : s[i] \in Call
    OBVIOUS
<1>2. \A i \in DOMAIN s : /\ Over(s, FromGeminiCall)[i] = FromGeminiCall(s[i])
                          /\ Over(s, ToGeminiCall)[i] = ToGeminiCall(s[i])
    BY DEF Over
<1>3. \A i \in DOMAIN s : /\ Over(s, FromGeminiCall)[i] \in Call
                          /\ Over(s, ToGeminiCall)[i] \in Call
    BY <1>1, <1>2, ElementsTyped
<1>4. /\ Over(s, FromGeminiCall) = [i \in DOMAIN s |-> Over(s, FromGeminiCall)[i]]
      /\ Over(s, ToGeminiCall) = [i \in DOMAIN s |-> Over(s, ToGeminiCall)[i]]
    BY DEF Over
<1> QED
    BY <1>3, <1>4, Mapped

LEMMA OverResults ==
    ASSUME NEW s \in Seq(Result)
    PROVE  /\ Over(s, FromGeminiResult) \in Seq(Result)
           /\ Over(s, ToGeminiResult) \in Seq(Result)
           /\ Len(Over(s, FromGeminiResult)) = Len(s)
           /\ Len(Over(s, ToGeminiResult)) = Len(s)
<1>1. \A i \in DOMAIN s : s[i] \in Result
    OBVIOUS
<1>2. \A i \in DOMAIN s : /\ Over(s, FromGeminiResult)[i] = FromGeminiResult(s[i])
                          /\ Over(s, ToGeminiResult)[i] = ToGeminiResult(s[i])
    BY DEF Over
<1>3. \A i \in DOMAIN s : /\ Over(s, FromGeminiResult)[i] \in Result
                          /\ Over(s, ToGeminiResult)[i] \in Result
    BY <1>1, <1>2, ElementsTyped
<1>4. /\ Over(s, FromGeminiResult) = [i \in DOMAIN s |-> Over(s, FromGeminiResult)[i]]
      /\ Over(s, ToGeminiResult) = [i \in DOMAIN s |-> Over(s, ToGeminiResult)[i]]
    BY DEF Over
<1> QED
    BY <1>3, <1>4, Mapped

LEMMA Decoded ==
    ASSUME NEW kind \in Kinds, NEW t \in Turn
    PROVE  DecodeTurn(kind, t) \in Message
<1>1. ASSUME kind = "openai" PROVE DecodeTurn(kind, t) \in Message
    BY <1>1 DEF DecodeTurn, DecodeOpenAI, Turn, Message
<1>2. ASSUME kind = "anthropic" PROVE DecodeTurn(kind, t) \in Message
    BY <1>2 DEF DecodeTurn, DecodeAnthropic, Turn, Message
<1>3. ASSUME kind = "gemini" PROVE DecodeTurn(kind, t) \in Message
    BY <1>3, OverCalls, OverResults DEF DecodeTurn, DecodeGemini, Turn, Message, Roles, NoRole
<1> QED
    BY <1>1, <1>2, <1>3, KindCases

LEMMA Encoded ==
    ASSUME NEW kind \in Kinds, NEW m \in Message
    PROVE  EncodeTurn(kind, m) \in Turn
<1>0. CallsOf(m) \in Seq(Call)
    BY DEF CallsOf, Message
<1>4. ASSUME NEW k \in Attachments \cup Remains
      PROVE  /\ ImagePart(k) \in Attachments \cup Remains
             /\ ImagePart(AudioPart(k)) \in Attachments \cup Remains
    BY DEF ImagePart, AudioPart, Attachments, Remains
<1> DEFINE heard == {ImagePart(AudioPart(k)) : k \in m.media}
           seen == {ImagePart(k) : k \in m.media \ {"audio", "audio_file"}}
<1>5. m.media \subseteq Attachments \cup Remains
    BY DEF Message
<1>6. heard \in SUBSET (Attachments \cup Remains) /\ seen \in SUBSET (Attachments \cup Remains)
    BY <1>4, <1>5
<1>1. ASSUME kind = "openai" PROVE EncodeTurn(kind, m) \in Turn
    <2>1. m.results # <<>> => <<Head(m.results)>> \in Seq(Result)
        BY DEF Message
    <2>2. EncodeTurn(kind, m) =
              [role |-> m.role,
               texts |-> IF m.role = "tool" THEN <<>> ELSE m.texts,
               media |-> IF m.role = "tool" THEN {} ELSE heard,
               calls |-> m.toolCalls,
               results |-> IF m.role = "tool" /\ m.results # <<>>
                           THEN <<Head(m.results)>> ELSE <<>>]
        BY <1>1 DEF EncodeTurn, EncodeOpenAI
    <2> HIDE DEF heard, seen
    <2> QED
        BY <1>6, <2>1, <2>2 DEF Turn, Message
<1>2. ASSUME kind = "anthropic" PROVE EncodeTurn(kind, m) \in Turn
    <2>1. EncodeTurn(kind, m) =
              [role |-> IF m.role = "tool" THEN "user" ELSE m.role,
               texts |-> m.texts, media |-> seen,
               calls |-> CallsOf(m), results |-> m.results]
        BY <1>2 DEF EncodeTurn, EncodeAnthropic
    <2> HIDE DEF heard, seen
    <2> QED
        BY <1>0, <1>6, <2>1 DEF Turn, Message, Roles
<1>3. ASSUME kind = "gemini" PROVE EncodeTurn(kind, m) \in Turn
    BY <1>0, <1>3, OverCalls, OverResults
       DEF EncodeTurn, EncodeGemini, Turn, Message, Roles, NoRole
<1> QED
    BY <1>1, <1>2, <1>3, KindCases

(***************************************************************************)
(* A history is translated to as many turns.                               *)
(***************************************************************************)
LEMMA TurnsTranslated ==
    ASSUME NEW source \in Kinds, NEW target \in Kinds, history \in Seq(Turn)
    PROVE  /\ TranslateTurns(source, target) \in Seq(Turn)
           /\ Len(TranslateTurns(source, target)) = Len(history)
           /\ \A i \in DOMAIN history : 
                 TranslateTurns(source, target)[i] =
                    IF source = "openai" /\ target = "openai" THEN history[i]
                    ELSE EncodeTurn(target, DecodeTurn(source, history[i]))
<1> DEFINE T(t) == EncodeTurn(target, DecodeTurn(source, t))
           e == [i \in DOMAIN history |-> T(history[i])]
<1>1. CASE source = "openai" /\ target = "openai"
    BY <1>1 DEF TranslateTurns
<1>2. CASE ~(source = "openai" /\ target = "openai")
    <2>1. TranslateTurns(source, target) = e
        BY <1>2 DEF TranslateTurns, Over
    <2>2. \A i \in DOMAIN history : history[i] \in Turn
        OBVIOUS
    <2>3. \A i \in DOMAIN history : e[i] \in Turn
        BY <2>2, Decoded, Encoded
    <2>4. e = [i \in DOMAIN history |-> e[i]]
        OBVIOUS
    <2>5. e \in Seq(Turn) /\ Len(e) = Len(history)
        <3> HIDE DEF e
        <3> QED BY <2>3, <2>4, Mapped
    <2> QED
        BY <1>2, <2>1, <2>5
<1> QED
    BY <1>1, <1>2

(***************************************************************************)
(* An answer, and what the client is given of it, are turns.               *)
(***************************************************************************)
LEMMA OfferTyped ==
    ASSUME NEW kind \in Kinds, NEW role \in AnswerRoles(kind), NEW text \in BOOLEAN,
           NEW offer \in Offers,
           calls \in Nat, lines \in Nat
    PROVE  /\ AnswerOf(kind, role, text, offer) \in Turn
           /\ Len(AnswerOf(kind, role, text, offer).calls) = Len(offer)
           /\ Len(offer) \in Nat
<1>0. offer \in Seq(Functions)
    BY OffersAreLists
<1> DEFINE e == AnswerOf(kind, role, text, offer).calls
<1>1. e = [i \in DOMAIN offer |->
              [id |-> IF kind = "gemini" THEN NoID ELSE Minted(calls + i),
               name |-> offer[i], args |-> calls + i]]
    BY DEF AnswerOf
<1>2. ASSUME NEW i \in DOMAIN offer PROVE e[i] \in Call
    <2>1. i \in Nat /\ offer[i] \in Functions
        BY <1>0
    <2>2. Minted(calls + i) \in ID /\ NoID \in ID
        BY <2>1, IDsTyped
    <2> QED
        BY <1>1, <2>1, <2>2 DEF Call
<1>3. e = [i \in DOMAIN offer |-> e[i]]
    BY <1>1
<1>4. e \in Seq(Call) /\ Len(e) = Len(offer)
    <2> HIDE DEF e
    <2> QED BY <1>0, <1>2, <1>3, Mapped
<1> QED
    BY <1>0, <1>4 DEF AnswerOf, AnswerRoles, Turn, Roles, NoRole

LEMMA AnswerTyped ==
    ASSUME NEW source \in Kinds, NEW target \in Kinds, NEW t \in Turn,
           NEW stream \in BOOLEAN
    PROVE  TranslateAnswer(source, target, t, stream) \in Turn
<1>1. ASSUME NEW m \in Message PROVE EncodeAnswer(target, m) \in Turn
    <2>1. /\ m.role \in Roles /\ CallsOf(m) \in Seq(Call) /\ m.toolCalls \in Seq(Call)
          /\ m.toolUses \in Seq(Call) /\ m.texts \in Seq(Nat)
        BY DEF CallsOf, Message
    <2>2. EncodeOpenAIResponse(m) \in Turn
        BY <2>1 DEF EncodeOpenAIResponse, Answering, Turn, Roles, NoRole
    <2>3. EncodeAnthropicResponse(m) \in Turn
        BY <2>1 DEF EncodeAnthropicResponse, Answering, Turn, Roles, NoRole
    <2>4. EncodeGeminiResponse(m) \in Turn
        BY <2>1, OverCalls DEF EncodeGeminiResponse, Answering, Turn, Roles, NoRole
    <2> QED
        BY <2>2, <2>3, <2>4, KindCases DEF EncodeAnswer
<1>2. ASSUME NEW role \in {"assistant", "user"}, NEW cs \in Seq(Call)
      PROVE  Answered(role, t, cs) \in Message
    BY DEF Answered, Message, Turn, Roles, NoRole
<1>3. DecodeAnswer(source, t) \in Message
    <2>1. t.calls \in Seq(Call) /\ Over(t.calls, FromGeminiCall) \in Seq(Call)
        BY OverCalls DEF Turn
    <2> QED
        BY <1>2, <2>1, KindCases
        DEF DecodeAnswer, DecodeOpenAIResponse, DecodeAnthropicResponse, DecodeGeminiResponse
<1>4. Answered("assistant", t, <<>>) \in Message
    <2>1. <<>> \in Seq(Call)
        OBVIOUS
    <2> QED
        BY <1>2, <2>1
<1>5. CASE source = target /\ (stream => source = "openai")
    BY <1>5 DEF TranslateAnswer
<1>6. CASE ~(source = target /\ (stream => source = "openai"))
    <2>1. TranslateAnswer(source, target, t, stream) =
              EncodeAnswer(target, IF stream THEN Answered("assistant", t, <<>>)
                                   ELSE DecodeAnswer(source, t))
        BY <1>6 DEF TranslateAnswer
    <2> QED
        BY <1>1, <1>3, <1>4, <2>1
<1> QED
    BY <1>5, <1>6

(***************************************************************************)
(* The common names of finish reasons, and what becomes of them and of     *)
(* those that no table has.                                                *)
(***************************************************************************)
CommonFinish == {"stop", "length", "tool_calls", "content_filter"}

LEMMA ForeignReasons ==
    Foreign = {"other", "refusal", "pause_turn", "OTHER", "MALFORMED_FUNCTION_CALL"}
<1>1. Foreign = Untabled["openai"] \cup Untabled["anthropic"] \cup Untabled["gemini"]
    BY DEF Foreign, Kinds
<1> QED
    BY <1>1 DEF Untabled

LEMMA ReasonKnown ==
    ASSUME NEW source \in Kinds, NEW calling \in BOOLEAN,
           NEW reason \in Finishes(source, calling)
    PROVE  \/ reason \in DOMAIN FinishTable[source]
           \/ ~calling /\ reason \in Untabled[source]
BY DEF Finishes, FinishTable, GeminiFinish

LEMMA FinishTyped ==
    ASSUME NEW source \in Kinds, NEW target \in Kinds, NEW calling \in BOOLEAN,
           NEW reason \in Finishes(source, calling), NEW stream \in BOOLEAN
    PROVE  /\ reason \in Reasons[source]
           /\ NormaliseFinish(source, reason) \in CommonFinish \cup Foreign
           /\ FinishFromIR(target, NormaliseFinish(source, reason), stream)
                 \in Reasons[target]
<1>1. reason \in DOMAIN FinishTable[source] \/ reason \in Untabled[source]
    BY ReasonKnown
<1>2. \A s \in Foreign : s \in Reasons["openai"] /\ s \in Reasons["anthropic"]
    BY DEF Reasons
<1>3. \A s \in Foreign : ToUpper(s) \in Reasons["gemini"]
    BY DEF Reasons
<1>4. reason \in Reasons[source]
      /\ NormaliseFinish(source, reason) \in CommonFinish \cup Foreign
    <2>1. CASE source = "openai"
        <3>1. CASE reason \in DOMAIN OpenAIFinish
            BY <2>1, <3>1 DEF NormaliseFinish, Translated, FinishTable, OpenAIFinish,
                              CommonFinish, Reasons
        <3>2. CASE reason \in Untabled["openai"]
            BY <1>2, <2>1, <3>2, ForeignReasons
               DEF NormaliseFinish, Translated, FinishTable, OpenAIFinish, Untabled
        <3> QED
            BY <1>1, <2>1, <3>1, <3>2 DEF FinishTable
    <2>2. CASE source = "anthropic"
        <3>1. CASE reason \in DOMAIN AnthropicStop
            BY <2>2, <3>1 DEF NormaliseFinish, Translated, FinishTable, AnthropicStop,
                              CommonFinish, Reasons
        <3>2. CASE reason \in Untabled["anthropic"]
            BY <1>2, <2>2, <3>2, ForeignReasons
               DEF NormaliseFinish, Translated, FinishTable, AnthropicStop, Untabled
        <3> QED
            BY <1>1, <2>2, <3>1, <3>2 DEF FinishTable
    <2>3. CASE source = "gemini"
        <3>1. CASE reason \in DOMAIN GeminiFinish
            BY <2>3, <3>1 DEF NormaliseFinish, Translated, FinishTable, GeminiFinish,
                              CommonFinish, Reasons
        <3>2. CASE reason \in Untabled["gemini"]
            <4>1. reason \in Foreign /\ ToUpper(reason) = reason
                BY <3>2, ForeignReasons DEF Untabled, ToUpper, Translated, Capitals
            <4>2. NormaliseFinish("gemini", reason) = reason
                BY <3>2 DEF NormaliseFinish, Translated, FinishTable, GeminiFinish, Untabled
            <4> QED
                BY <1>3, <2>3, <4>1, <4>2
        <3> QED
            BY <1>1, <2>3, <3>1, <3>2 DEF FinishTable
    <2> QED
        BY <2>1, <2>2, <2>3, KindCases
<1>5. ASSUME NEW s \in CommonFinish
      PROVE  FinishFromIR(target, s, stream) \in Reasons[target]
    <2>1. CASE target = "openai"
        BY <2>1 DEF FinishFromIR, CommonFinish, Reasons, OpenAIFinish
    <2>2. CASE target = "anthropic"
        BY <2>2 DEF FinishFromIR, Translated, CommonFinish, Reasons, AnthropicStop
    <2>3. CASE target = "gemini"
        <3>1. GeminiFinishFromIR(s, stream)
                  \in {"STOP", "MAX_TOKENS", "SAFETY", "TOOL_CALLS"}
            BY DEF GeminiFinishFromIR, CommonFinish, ToUpper, Translated, Capitals
        <3> QED
            BY <2>3, <3>1 DEF FinishFromIR, Reasons, GeminiFinish
    <2> QED
        BY <2>1, <2>2, <2>3, KindCases
<1>6. ASSUME NEW s \in Foreign
      PROVE  FinishFromIR(target, s, stream) \in Reasons[target]
    <2>1. CASE target = "openai"
        BY <1>2, <2>1 DEF FinishFromIR
    <2>2. CASE target = "anthropic"
        BY <1>2, <2>2, ForeignReasons DEF FinishFromIR, Translated
    <2>3. CASE target = "gemini"
        BY <1>3, <2>3, ForeignReasons DEF FinishFromIR, GeminiFinishFromIR
    <2> QED
        BY <2>1, <2>2, <2>3, KindCases
<1> QED
    BY <1>4, <1>5, <1>6

(***************************************************************************)
(* What the client says is turns.                                          *)
(***************************************************************************)
LEMMA DueTyped ==
    ASSUME TypeOK
    PROVE  Due \in Seq(Call)
<1>1. history # <<>> => history[Len(history)] \in Turn
    BY DEF TypeOK
<1> QED
    BY <1>1 DEF Due, Turn

LEMMA SaidTyped ==
    ASSUME TypeOK
    PROVE  /\ Over(Due, ToolTurn) \in Seq(Turn)
           /\ Len(Over(Due, ToolTurn)) = Len(Due)
           /\ \A i \in DOMAIN Due : Over(Due, ToolTurn)[i] = ToolTurn(Due[i])
           /\ Over(Due, ResultOf) \in Seq(Result)
           /\ Len(Over(Due, ResultOf)) = Len(Due)
           /\ \A i \in DOMAIN Due : Over(Due, ResultOf)[i] = ResultOf(Due[i])
<1>1. Due \in Seq(Call) /\ \A i \in DOMAIN Due : Due[i] \in Call
    BY DueTyped
<1>2. ASSUME NEW c \in Call
      PROVE  ToolTurn(c) \in Turn /\ ResultOf(c) \in Result
    <2>1. [id |-> c.id, name |-> NoFunction, val |-> c.args] \in Result
        BY DEF Call, Result
    <2> QED
        BY <2>1 DEF ToolTurn, ResultOf, Turn, Roles, NoRole, Call, Result
<1>3. \A i \in DOMAIN Due : /\ Over(Due, ToolTurn)[i] = ToolTurn(Due[i])
                            /\ Over(Due, ResultOf)[i] = ResultOf(Due[i])
    BY DEF Over
<1>4. \A i \in DOMAIN Due : /\ Over(Due, ToolTurn)[i] \in Turn
                            /\ Over(Due, ResultOf)[i] \in Result
    BY <1>1, <1>2, <1>3
<1>5. /\ Over(Due, ToolTurn) = [i \in DOMAIN Due |-> Over(Due, ToolTurn)[i]]
      /\ Over(Due, ResultOf) = [i \in DOMAIN Due |-> Over(Due, ResultOf)[i]]
    BY DEF Over
<1>6. Over(Due, ToolTurn) \in Seq(Turn) /\ Len(Over(Due, ToolTurn)) = Len(Due)
    BY <1>1, <1>4, <1>5, Mapped
<1>7. Over(Due, ResultOf) \in Seq(Result) /\ Len(Over(Due, ResultOf)) = Len(Due)
    BY <1>1, <1>4, <1>5, Mapped
<1> QED
    BY <1>3, <1>6, <1>7

LEMMA UserTurnTyped ==
    ASSUME NEW texts \in Seq(Nat), NEW media \in SUBSET Attachments,
           NEW results \in Seq(Result)
    PROVE  UserTurn(texts, media, results) \in Turn
BY DEF UserTurn, Turn, Roles, NoRole

LEMMA QuestionTyped ==
    ASSUME client \in Kinds, NEW attached \in Questions[client]
    PROVE  attached \in SUBSET Attachments
<1>1. attached \in SUBSET CanAttach[client]
    BY QuestionsAllowed
<1>2. CanAttach[client] \subseteq Attachments
    BY KindCases DEF CanAttach, Attachments
<1> QED
    BY <1>1, <1>2

LEMMA KindsOfProviders ==
    ASSUME NEW p
    PROVE  ProviderKindOf(p) \in Kinds
BY DEF ProviderKindOf, KindOfHost, Kinds

(***************************************************************************)
(* The type is inductive.                                                  *)
(***************************************************************************)
LEMMA TypeInit == Init => TypeOK
<1> SUFFICES ASSUME Init PROVE TypeOK
    OBVIOUS
<1>1. NoAnswer.turn \in Turn
    BY DEF NoAnswer, Turn, Roles, NoRole
<1>2. request.turns \in Seq(Turn) /\ history \in Seq(Turn)
    BY DEF Init, Nothing
<1>3. /\ {client, upstream} \subseteq Kinds
      /\ {turns, lines, calls} \subseteq Nat
      /\ answer.turn \in Turn
    BY <1>1 DEF Init, Kinds
<1> QED
    BY <1>2, <1>3 DEF Init, TypeOK

LEMMA TypeNext == TypeOK /\ [Next]_vars => TypeOK'
<1> SUFFICES ASSUME TypeOK, [Next]_vars PROVE TypeOK'
    OBVIOUS
<1>0. NoAnswer.turn \in Turn /\ Nothing.turns \in Seq(Turn) /\ "openai" \in Kinds
    BY DEF NoAnswer, Nothing, Turn, Roles, NoRole, Kinds
<1>1. ASSUME NEW said \in Seq(Turn), Say(said), lines' \in Nat
      PROVE  TypeOK'
    <2>1. history' \in Seq(Turn)
        BY <1>1 DEF TypeOK, Say
    <2>2. request'.turns \in Seq(Turn) /\ answer'.turn \in Turn
        BY <1>0, <1>1 DEF Say, Idle
    <2>3. turns' \in Nat
        BY <1>1 DEF TypeOK, Say
    <2>4. {client', upstream'} \subseteq Kinds
        BY <1>0, <1>1 DEF TypeOK, Say, Idle
    <2> QED
        BY <1>1, <2>1, <2>2, <2>3, <2>4 DEF TypeOK, Say, Idle
<1>2. ASSUME NEW attached \in Questions[client], Ask(attached) PROVE TypeOK'
    <2>1. <<lines + 1>> \in Seq(Nat) /\ <<>> \in Seq(Result) /\ lines' \in Nat
        BY <1>2 DEF Ask, TypeOK
    <2>2. UserTurn(<<lines + 1>>, attached, <<>>) \in Turn
        BY <2>1, QuestionTyped, UserTurnTyped DEF TypeOK
    <2>3. <<UserTurn(<<lines + 1>>, attached, <<>>)>> \in Seq(Turn)
        BY <2>2
    <2> QED
        BY <1>1, <1>2, <2>1, <2>3 DEF Ask
<1>3. ASSUME NEW comment \in BOOLEAN, NEW shown \in SUBSET {"result_image"},
           Reply(comment, shown) PROVE TypeOK'
    <2> DEFINE text == IF comment THEN <<lines + 1>> ELSE <<>>
    <2>1. text \in Seq(Nat) /\ <<>> \in Seq(Result) /\ lines' \in Nat
        BY <1>3 DEF Reply, TypeOK
    <2>2. /\ UserTurn(text, {}, <<>>) \in Turn
          /\ UserTurn(text, shown, Over(Due, ResultOf)) \in Turn
        <3>1. {} \in SUBSET Attachments /\ shown \in SUBSET Attachments
            BY DEF Attachments
        <3> QED
            BY <2>1, <3>1, SaidTyped, UserTurnTyped
    <2> DEFINE said == IF client = "openai"
                       THEN Over(Due, ToolTurn) \o
                            (IF comment THEN <<UserTurn(text, {}, <<>>)>> ELSE <<>>)
                       ELSE <<UserTurn(text, shown, Over(Due, ResultOf))>>
    <2>3. said \in Seq(Turn)
        BY <2>2, SaidTyped
    <2>4. Say(said)
        BY <1>3 DEF Reply
    <2> QED
        BY <1>1, <2>1, <2>3, <2>4
<1>4. ASSUME NEW want \in Wants, Refused(want) PROVE TypeOK'
    BY <1>4 DEF Refused, TypeOK, served, counters
<1>5. ASSUME NEW want \in Wants, NEW c \in Choices[client], NEW stream \in BOOLEAN,
             Forward(want, c, stream)
      PROVE  TypeOK'
    <2>1. upstream' \in Kinds
        BY <1>5, KindsOfProviders DEF Forward
    <2>2. TranslateTurns(client, upstream') \in Seq(Turn)
        BY <2>1, TurnsTranslated DEF TypeOK
    <2>3. request'.turns \in Seq(Turn)
        BY <1>5, <2>2 DEF Forward
    <2> QED
        BY <1>5, <2>1, <2>3 DEF Forward, TypeOK, counters
<1>6. CASE Failed
    BY <1>0, <1>6 DEF Failed, Idle, TypeOK, counters
<1>7. ASSUME NEW role \in AnswerRoles(upstream), NEW text \in BOOLEAN, NEW offer \in Offers,
             NEW reason \in Finishes(upstream, offer # <<>>),
             Answer(role, text, offer, reason)
      PROVE  TypeOK'
    <2>1. answer'.turn \in Turn /\ Len(offer) \in Nat
        BY <1>7, OfferTyped DEF Answer, TypeOK
    <2>2. TranslateAnswer(upstream, client, answer'.turn, streaming) \in Turn
        BY <2>1, AnswerTyped DEF TypeOK
    <2>3. history' \in Seq(Turn)
        BY <1>7, <2>2 DEF Answer, TypeOK
    <2>4. finish' \in Reasons[client]
        BY <1>7, FinishTyped DEF Answer, TypeOK
    <2>5. lines' \in Nat /\ calls' \in Nat
        BY <1>7, <2>1 DEF Answer, TypeOK, Turn
    <2> QED
        BY <1>0, <1>7, <2>1, <2>3, <2>4, <2>5 DEF Answer, TypeOK
<1>8. ASSUME NEW c \in Configs, Install(c) PROVE TypeOK'
    BY <1>8 DEF Install, TypeOK, served, got, counters
<1>9. CASE UNCHANGED vars
    BY <1>9 DEF vars, served, got, counters, TypeOK
<1> QED
    BY <1>2, <1>3, <1>4, <1>5, <1>6, <1>7, <1>8, <1>9 DEF Next

(***************************************************************************)
(* TypeOK for any functions, configurations, choices and bounds; with it,  *)
(* that the finish tables tell a client a reason of its own protocol, one  *)
(* that no table has, or one of the two that they let through.             *)
(***************************************************************************)
THEOREM ConversationTypeCorrect == Spec => []TypeOK
BY TypeInit, TypeNext, PTL DEF Spec

-----------------------------------------------------------------------------
(***************************************************************************)
(* The shape of a client's turns, by its protocol; the ids of its calls;   *)
(* and what makes a result the answer to a call.                           *)
(***************************************************************************)
WellShaped(kind, t) ==
    /\ kind = "openai" =>
          /\ t.role \in {"user", "assistant", "tool"}
          /\ t.role # "tool" => t.results = <<>>
          /\ t.role = "tool" => t.texts = <<>> /\ t.media = {} /\ Len(t.results) = 1
    /\ kind = "anthropic" => t.role \in {"user", "assistant"}
    /\ kind = "gemini" => t.role \in {"user", "model", NoRole}

Known(kind, c) == IF kind = "gemini" THEN c.id = NoID
                  ELSE c.id = Minted(c.args) \/ c.id = CallPrefix(c.name)

Answers(kind, r, c) == IF kind = "gemini" THEN r.name = c.name ELSE r.id = c.id

(***************************************************************************)
(* The inductive invariant: what a request in flight carries, and that in  *)
(* the history results come after the calls they answer.                   *)
(***************************************************************************)
Sent ==
    pc = "upstream" =>
        /\ request = [turns |-> TranslateTurns(client, upstream),
                      choice |-> TranslateChoice(client, upstream, choice)]
        /\ choice \in Choices[client]

Shaped == \A i \in DOMAIN history : WellShaped(client, history[i])

Numbered ==
    \A i \in DOMAIN history :
        /\ \A l \in DOMAIN history[i].calls :
              history[i].calls[l].args <= calls /\ Known(client, history[i].calls[l])
        /\ \A k \in DOMAIN history[i].results : history[i].results[k].val <= calls

Distinct ==
    \A i, j \in DOMAIN history :
        \A k \in DOMAIN history[i].calls, l \in DOMAIN history[j].calls :
            history[i].calls[k].args = history[j].calls[l].args =>
                /\ history[i].calls[k].id = history[j].calls[l].id
                /\ history[i].calls[k].name = history[j].calls[l].name

Correlated ==
    \A i, j \in DOMAIN history :
        \A k \in DOMAIN history[i].results, l \in DOMAIN history[j].calls :
            history[i].results[k].val = history[j].calls[l].args =>
                j < i /\ Answers(client, history[i].results[k], history[j].calls[l])

HistoryInv == Shaped /\ Numbered /\ Distinct /\ Correlated

(***************************************************************************)
(* A turn of a longer history is one of the old or one of the new.         *)
(***************************************************************************)
LEMMA Joined ==
    ASSUME NEW h \in Seq(Turn), NEW s \in Seq(Turn), NEW i \in DOMAIN (h \o s)
    PROVE  /\ i \in Nat /\ Len(h) \in Nat
           /\ \/ i \in DOMAIN h /\ i <= Len(h) /\ (h \o s)[i] = h[i]
              \/ i - Len(h) \in DOMAIN s /\ i > Len(h) /\ (h \o s)[i] = s[i - Len(h)]
<1>1. Len(h) \in Nat /\ Len(s) \in Nat /\ i \in 1..(Len(h) + Len(s))
    OBVIOUS
<1>2. CASE i <= Len(h)
    BY <1>1, <1>2
<1>3. CASE i > Len(h)
    BY <1>1, <1>3
<1> QED
    BY <1>1, <1>2, <1>3

(***************************************************************************)
(* New turns without calls, whose results answer calls of the last turn.   *)
(***************************************************************************)
LEMMA SaidKeeps ==
    ASSUME TypeOK, HistoryInv, NEW said \in Seq(Turn), Say(said),
           \A i \in DOMAIN said :
               /\ said[i].calls = <<>>
               /\ WellShaped(client, said[i])
               /\ \A k \in DOMAIN said[i].results : \E x \in DOMAIN Due :
                     /\ said[i].results[k].val = Due[x].args
                     /\ Answers(client, said[i].results[k], Due[x])
    PROVE  HistoryInv'
<1> DEFINE n == Len(history)
           Old(i) == i \in DOMAIN history /\ i <= n /\ history'[i] = history[i]
           New(i) == i - n \in DOMAIN said /\ i > n /\ history'[i] = said[i - n]
<1>0. /\ history' = history \o said /\ client' = client /\ calls' = calls
      /\ history \in Seq(Turn) /\ n \in Nat
    BY DEF Say, TypeOK
<1>1. ASSUME NEW i \in DOMAIN history' PROVE i \in Nat /\ (Old(i) \/ New(i))
    BY <1>0, <1>1, Joined
<1>2. ASSUME NEW x \in DOMAIN Due
      PROVE  /\ n \in DOMAIN history /\ x \in DOMAIN history[n].calls
             /\ Due[x] = history[n].calls[x]
    BY <1>0, <1>2 DEF Due
<1>3. ASSUME NEW i \in DOMAIN history', NEW l \in DOMAIN history'[i].calls
      PROVE  Old(i) /\ l \in DOMAIN history[i].calls
    BY <1>1, <1>3
<1>4. ASSUME NEW i \in DOMAIN history', NEW k \in DOMAIN history'[i].results, New(i)
      PROVE  \E x \in DOMAIN history[n].calls :
                 /\ n \in DOMAIN history
                 /\ history'[i].results[k].val = history[n].calls[x].args
                 /\ Answers(client, history'[i].results[k], history[n].calls[x])
    BY <1>2, <1>4
<1> HIDE DEF n
<1>5. Shaped'
    BY <1>0, <1>1 DEF HistoryInv, Shaped
<1>6. Numbered'
    <2> SUFFICES ASSUME NEW i \in DOMAIN history'
                 PROVE  /\ \A l \in DOMAIN history'[i].calls :
                              /\ history'[i].calls[l].args <= calls
                              /\ Known(client, history'[i].calls[l])
                        /\ \A k \in DOMAIN history'[i].results :
                              history'[i].results[k].val <= calls
        BY <1>0 DEF Numbered
    <2>1. CASE Old(i)
        BY <2>1 DEF HistoryInv, Numbered
    <2>2. CASE New(i)
        BY <1>3, <1>4, <2>2 DEF HistoryInv, Numbered
    <2> QED
        BY <1>1, <2>1, <2>2
<1>7. Distinct'
    <2>1. ASSUME NEW i \in DOMAIN history', NEW j \in DOMAIN history',
                 NEW k \in DOMAIN history'[i].calls, NEW l \in DOMAIN history'[j].calls,
                 history'[i].calls[k].args = history'[j].calls[l].args
          PROVE  /\ history'[i].calls[k].id = history'[j].calls[l].id
                 /\ history'[i].calls[k].name = history'[j].calls[l].name
        BY <1>3, <2>1 DEF HistoryInv, Distinct
    <2> QED
        BY <2>1 DEF Distinct
<1>8. Correlated'
    <2>1. ASSUME NEW i \in DOMAIN history', NEW j \in DOMAIN history',
                 NEW k \in DOMAIN history'[i].results, NEW l \in DOMAIN history'[j].calls,
                 history'[i].results[k].val = history'[j].calls[l].args
          PROVE  /\ j < i
                 /\ Answers(client, history'[i].results[k], history'[j].calls[l])
        <3>0. Old(j) /\ l \in DOMAIN history[j].calls
            BY <1>3
        <3>1. CASE Old(i)
            BY <2>1, <3>0, <3>1 DEF HistoryInv, Correlated
        <3>2. CASE New(i)
            <4>1. PICK x \in DOMAIN history[n].calls :
                     /\ n \in DOMAIN history
                     /\ history'[i].results[k].val = history[n].calls[x].args
                     /\ Answers(client, history'[i].results[k], history[n].calls[x])
                BY <1>4, <3>2
            <4>2. /\ history[n].calls[x].id = history[j].calls[l].id
                  /\ history[n].calls[x].name = history[j].calls[l].name
                BY <2>1, <3>0, <4>1 DEF HistoryInv, Distinct
            <4>3. j < i
                BY <1>0, <1>1, <3>0, <3>2
            <4> QED
                BY <3>0, <4>1, <4>2, <4>3 DEF Answers
        <3> QED
            BY <1>1, <3>1, <3>2
    <2> QED
        BY <1>0, <2>1 DEF Correlated, Answers
<1> QED
    BY <1>5, <1>6, <1>7, <1>8 DEF HistoryInv

(***************************************************************************)
(* What a client is given of an answer: its text, no results, and no calls *)
(* or all of them, each under an id the client can tell it by.             *)
(***************************************************************************)
LEMMA Told ==
    ASSUME NEW source \in Kinds, NEW target \in Kinds, NEW text \in BOOLEAN,
           NEW role \in AnswerRoles(source), NEW offer \in Offers, NEW stream \in BOOLEAN,
           calls \in Nat, lines \in Nat, NEW t, t = AnswerOf(source, role, text, offer),
           NEW told, told = TranslateAnswer(source, target, t, stream)
    PROVE  /\ told.texts = t.texts
           /\ told.results = <<>>
           /\ told.role \in IF target = "gemini" THEN {"model", NoRole} ELSE {"assistant", "user"}
           /\ \/ stream /\ (source # "openai" \/ target # "openai") /\ told.calls = <<>>
              \/ /\ ~stream \/ (source = "openai" /\ target = "openai")
                 /\ Len(told.calls) = Len(t.calls)
                 /\ \A l \in DOMAIN told.calls :
                       /\ told.calls[l].name = t.calls[l].name
                       /\ told.calls[l].args = t.calls[l].args
                       /\ t.calls[l].args = calls + l
                       /\ Known(target, told.calls[l])
                 /\ {source, target} \subseteq {"openai", "anthropic"} =>
                       told.calls = t.calls
<1>0. /\ t \in Turn /\ t.results = <<>>
      /\ t.role \in IF source = "gemini" THEN {"model", NoRole} ELSE {"assistant"}
      /\ t.calls \in Seq(Call)
    BY OfferTyped DEF AnswerOf, AnswerRoles, NoRole, Turn
<1>1. \A l \in DOMAIN t.calls :
          /\ t.calls[l] \in Call
          /\ t.calls[l].args = calls + l
          /\ t.calls[l].id = IF source = "gemini" THEN NoID ELSE Minted(t.calls[l].args)
    BY <1>0 DEF AnswerOf
<1>2. CASE source = target /\ (stream => source = "openai")
    <2>1. told = t
        BY <1>2 DEF TranslateAnswer
    <2> QED
        BY <1>0, <1>1, <1>2, <2>1 DEF Known
<1>3. CASE stream /\ ~(source = target /\ (stream => source = "openai"))
    <2>1. told = EncodeAnswer(target, Answered("assistant", t, <<>>))
        BY <1>3 DEF TranslateAnswer
    <2>2. Over(<<>>, ToGeminiCall) = <<>>
        BY DEF Over
    <2>3. told = Answering(IF target = "gemini" THEN "model" ELSE "assistant",
                           t.texts, <<>>)
        BY <2>1, <2>2, KindCases
        DEF EncodeAnswer, EncodeOpenAIResponse, EncodeAnthropicResponse,
            EncodeGeminiResponse, Answered, CallsOf
    <2>4. /\ told.texts = t.texts /\ told.results = <<>> /\ told.calls = <<>>
          /\ told.role = IF target = "gemini" THEN "model" ELSE "assistant"
        BY <2>3 DEF Answering
    <2>5. stream /\ (source # "openai" \/ target # "openai")
        BY <1>3
    <2> QED
        BY <2>4, <2>5
<1>4. CASE ~stream /\ source # target
    <2> DEFINE m == DecodeAnswer(source, t)
               cs == IF source = "gemini" THEN Over(t.calls, FromGeminiCall) ELSE t.calls
               r == IF source = "gemini" /\ t.role # "model" THEN "user" ELSE "assistant"
    <2>1. told = EncodeAnswer(target, m)
        BY <1>4 DEF TranslateAnswer
    <2>2. m = Answered(r, t, cs)
        BY KindCases
        DEF DecodeAnswer, DecodeOpenAIResponse, DecodeAnthropicResponse, DecodeGeminiResponse
    <2> HIDE DEF m
    <2>8. target = "gemini" => r = "assistant"
        BY <1>4
    <2>9. r \in {"assistant", "user"}
        OBVIOUS
    <2> HIDE DEF r
    <2>7. told = Answering(IF target = "gemini" THEN "model"
                           ELSE IF target = "openai" THEN r ELSE "assistant", t.texts,
                           IF target = "gemini" THEN Over(cs, ToGeminiCall) ELSE cs)
        BY <2>1, <2>2, <2>8, KindCases
        DEF EncodeAnswer, EncodeOpenAIResponse, EncodeAnthropicResponse,
            EncodeGeminiResponse, Answered, CallsOf
    <2>3. /\ cs \in Seq(Call) /\ Len(cs) = Len(t.calls)
          /\ \A l \in DOMAIN cs : /\ cs[l].name = t.calls[l].name
                                  /\ cs[l].args = t.calls[l].args
                                  /\ source = "gemini" => cs[l].id = CallPrefix(t.calls[l].name)
        BY <1>0, <1>1, OverCalls DEF Over, FromGeminiCall, Call
    <2>4. told.calls = IF target = "gemini" THEN Over(cs, ToGeminiCall) ELSE cs
        BY <2>7 DEF Answering
    <2> HIDE DEF cs
    <2>5. CASE target = "gemini"
        <3>1. /\ Len(told.calls) = Len(cs)
              /\ \A l \in DOMAIN told.calls : /\ told.calls[l].name = cs[l].name
                                             /\ told.calls[l].args = cs[l].args
                                             /\ told.calls[l].id = NoID
            <4>1. DOMAIN told.calls = DOMAIN cs /\ Len(told.calls) = Len(cs)
                BY <2>3, <2>4, <2>5, OverCalls DEF Over
            <4>2. \A l \in DOMAIN cs : cs[l] \in Call /\ told.calls[l] = ToGeminiCall(cs[l])
                BY <2>3, <2>4, <2>5 DEF Over
            <4>3. \A c \in Call : /\ ToGeminiCall(c).name = c.name
                                   /\ ToGeminiCall(c).args = c.args
                                   /\ ToGeminiCall(c).id = NoID
                BY DEF ToGeminiCall, Call
            <4> QED
                BY <4>1, <4>2, <4>3
        <3> QED
            BY <1>0, <1>1, <1>4, <2>3, <2>5, <2>7, <3>1 DEF Answering, Known
    <2>6. CASE target # "gemini"
        <3>1. told.calls = cs
            BY <2>4, <2>6
        <3>2. \A l \in DOMAIN cs : Known(target, cs[l])
            BY <1>1, <2>3, <2>6 DEF Known, cs
        <3>3. source # "gemini" => cs = t.calls
            BY DEF cs
        <3> QED
            BY <1>0, <1>1, <1>4, <2>3, <2>6, <2>7, <2>9, <3>1, <3>2, <3>3 DEF Answering
    <2> QED
        BY <2>5, <2>6
<1> QED
    BY <1>2, <1>3, <1>4

(***************************************************************************)
(* A turn without results, whose calls are numbered from the counter on.   *)
(***************************************************************************)
LEMMA AnswerKeeps ==
    ASSUME TypeOK, HistoryInv, NEW told \in Turn, calls' \in Nat,
           client' = client, history' = Append(history, told),
           told.results = <<>>, WellShaped(client, told),
           calls' >= calls, calls' >= calls + Len(told.calls),
           \A l \in DOMAIN told.calls :
               told.calls[l].args = calls + l /\ Known(client, told.calls[l])
    PROVE  HistoryInv'
<1> DEFINE n == Len(history) + 1
           Old(i) == i \in DOMAIN history /\ i < n /\ history'[i] = history[i]
           New(i) == i = n /\ history'[i] = told
<1>0. history \in Seq(Turn) /\ n \in Nat /\ calls \in Nat
    BY DEF TypeOK
<1>1. ASSUME NEW i \in DOMAIN history' PROVE i \in Nat /\ (Old(i) \/ New(i))
    BY <1>0, <1>1
<1>2. \A l \in DOMAIN told.calls :
          /\ l \in Nat \ {0} /\ l <= Len(told.calls)
          /\ told.calls[l].args \in Nat
          /\ told.calls[l].args > calls /\ told.calls[l].args <= calls'
    <2>1. told.calls \in Seq(Call)
        BY DEF Turn
    <2> QED
        BY <1>0, <2>1
<1>3. ASSUME NEW i \in DOMAIN history', NEW k \in DOMAIN history'[i].results
      PROVE  Old(i) /\ k \in DOMAIN history[i].results
    BY <1>1, <1>3
<1>4. \A i \in DOMAIN history :
          /\ history[i] \in Turn
          /\ \A l \in DOMAIN history[i].calls :
                history[i].calls[l].args \in Nat /\ history[i].calls[l].args <= calls
          /\ \A k \in DOMAIN history[i].results :
                history[i].results[k].val \in Nat /\ history[i].results[k].val <= calls
    <2>1. ASSUME NEW t \in Turn
          PROVE  /\ \A l \in DOMAIN t.calls : t.calls[l].args \in Nat
                 /\ \A k \in DOMAIN t.results : t.results[k].val \in Nat
        <3>1. t.calls \in Seq(Call) /\ t.results \in Seq(Result)
            BY DEF Turn
        <3>2. /\ \A l \in DOMAIN t.calls : t.calls[l] \in Call
              /\ \A k \in DOMAIN t.results : t.results[k] \in Result
            BY <3>1
        <3> QED
            BY <3>2 DEF Call, Result
    <2> QED
        BY <1>0, <2>1 DEF HistoryInv, Numbered
<1> HIDE DEF n
<1>5. Shaped'
    BY <1>1 DEF HistoryInv, Shaped
<1>6. Numbered'
    <2>1. ASSUME NEW i \in DOMAIN history'
          PROVE  /\ \A l \in DOMAIN history'[i].calls :
                       /\ history'[i].calls[l].args <= calls'
                       /\ Known(client, history'[i].calls[l])
                 /\ \A k \in DOMAIN history'[i].results :
                       history'[i].results[k].val <= calls'
        <3>1. CASE Old(i)
            BY <1>0, <1>4, <3>1 DEF HistoryInv, Numbered
        <3>2. CASE New(i)
            BY <1>2, <3>2
        <3> QED
            BY <1>1, <3>1, <3>2
    <2> QED
        BY <2>1 DEF Numbered, Known
<1>7. Distinct'
    <2>1. ASSUME NEW i \in DOMAIN history', NEW j \in DOMAIN history',
                 NEW k \in DOMAIN history'[i].calls, NEW l \in DOMAIN history'[j].calls,
                 history'[i].calls[k].args = history'[j].calls[l].args
          PROVE  /\ history'[i].calls[k].id = history'[j].calls[l].id
                 /\ history'[i].calls[k].name = history'[j].calls[l].name
        <3>1. CASE Old(i) /\ Old(j)
            BY <2>1, <3>1 DEF HistoryInv, Distinct
        <3>2. CASE New(i) /\ New(j)
            <4>1. told.calls[k].args = calls + k /\ told.calls[l].args = calls + l
                BY <3>2
            <4>2. k = l
                BY <1>0, <1>2, <2>1, <3>2, <4>1
            <4> QED
                BY <3>2, <4>2
        <3>3. CASE Old(i) /\ New(j)
            <4>1. history'[i].calls[k].args \in Nat /\ history'[i].calls[k].args <= calls
                BY <1>4, <3>3
            <4>2. history'[j].calls[l].args \in Nat /\ history'[j].calls[l].args > calls
                BY <1>2, <3>3
            <4> QED
                BY <1>0, <2>1, <4>1, <4>2
        <3>4. CASE New(i) /\ Old(j)
            <4>1. history'[j].calls[l].args \in Nat /\ history'[j].calls[l].args <= calls
                BY <1>4, <3>4
            <4>2. history'[i].calls[k].args \in Nat /\ history'[i].calls[k].args > calls
                BY <1>2, <3>4
            <4> QED
                BY <1>0, <2>1, <4>1, <4>2
        <3> QED
            BY <1>1, <3>1, <3>2, <3>3, <3>4
    <2> QED
        BY <2>1 DEF Distinct
<1>8. Correlated'
    <2>1. ASSUME NEW i \in DOMAIN history', NEW j \in DOMAIN history',
                 NEW k \in DOMAIN history'[i].results, NEW l \in DOMAIN history'[j].calls,
                 history'[i].results[k].val = history'[j].calls[l].args
          PROVE  /\ j < i
                 /\ Answers(client, history'[i].results[k], history'[j].calls[l])
        <3>1. CASE Old(j)
            BY <1>3, <2>1, <3>1 DEF HistoryInv, Correlated
        <3>2. CASE New(j)
            <4>1. history'[i].results[k].val \in Nat /\ history'[i].results[k].val <= calls
                BY <1>3, <1>4
            <4>2. history'[j].calls[l].args \in Nat /\ history'[j].calls[l].args > calls
                BY <1>2, <3>2
            <4> QED
                BY <1>0, <2>1, <4>1, <4>2
        <3> QED
            BY <1>1, <3>1, <3>2
    <2> QED
        BY <2>1 DEF Correlated, Answers
<1> QED
    BY <1>5, <1>6, <1>7, <1>8 DEF HistoryInv

(***************************************************************************)
(* The invariant is inductive.                                             *)
(***************************************************************************)
Inv == TypeOK /\ HistoryInv /\ Sent

LEMMA InvInit == Init => Inv
<1> SUFFICES ASSUME Init PROVE Inv
    OBVIOUS
<1>1. HistoryInv
    BY DEF Init, HistoryInv, Shaped, Numbered, Distinct, Correlated
<1>2. Sent
    BY DEF Init, Sent
<1> QED
    BY <1>1, <1>2, TypeInit DEF Inv

(***************************************************************************)
(* Everything but a turn of the client or an answer leaves the history as  *)
(* it is.                                                                  *)
(***************************************************************************)
LEMMA HistoryKept ==
    ASSUME HistoryInv, UNCHANGED <<client, history, calls>>
    PROVE  HistoryInv'
BY DEF HistoryInv, Shaped, Numbered, Distinct, Correlated

LEMMA AskKeeps ==
    ASSUME Inv, NEW attached \in Questions[client], Ask(attached)
    PROVE  HistoryInv'
<1> DEFINE t == UserTurn(<<lines + 1>>, attached, <<>>)
<1>1. <<lines + 1>> \in Seq(Nat) /\ <<>> \in Seq(Result)
    BY DEF Inv, TypeOK
<1>2. t \in Turn
    BY <1>1, QuestionTyped, UserTurnTyped DEF Inv, TypeOK
<1>3. t.calls = <<>> /\ t.results = <<>> /\ t.role = "user"
    BY DEF UserTurn
<1> HIDE DEF t
<1>4. WellShaped(client, t)
    BY <1>3 DEF WellShaped
<1>5. Say(<<t>>)
    BY DEF Ask, t
<1>6. <<t>> \in Seq(Turn) /\ \A i \in DOMAIN <<t>> : <<t>>[i] = t
    BY <1>2
<1>7. \A i \in DOMAIN <<t>> :
          /\ <<t>>[i].calls = <<>> /\ WellShaped(client, <<t>>[i])
          /\ DOMAIN <<t>>[i].results = {}
    BY <1>3, <1>4, <1>6
<1> QED
    BY <1>5, <1>6, <1>7, SaidKeeps DEF Inv

LEMMA ReplyKeeps ==
    ASSUME Inv, NEW comment \in BOOLEAN, NEW shown \in SUBSET {"result_image"},
           Reply(comment, shown)
    PROVE  HistoryInv'
<1> DEFINE text == IF comment THEN <<lines + 1>> ELSE <<>>
           note == UserTurn(text, {}, <<>>)
           all == UserTurn(text, shown, Over(Due, ResultOf))
           notes == IF comment THEN <<note>> ELSE <<>>
           each == Over(Due, ToolTurn)
           given == Over(Due, ResultOf)
<1>0. TypeOK /\ Due \in Seq(Call)
    BY DueTyped DEF Inv
<1>1. text \in Seq(Nat) /\ <<>> \in Seq(Result)
    BY DEF Inv, TypeOK
<1>2. note \in Turn /\ all \in Turn
    <2>1. {} \in SUBSET Attachments /\ shown \in SUBSET Attachments
        BY DEF Attachments
    <2> QED
        BY <1>0, <1>1, <2>1, SaidTyped, UserTurnTyped
<1>3. /\ note.calls = <<>> /\ note.results = <<>> /\ note.role = "user"
      /\ all.calls = <<>> /\ all.results = given /\ all.role = "user"
    BY DEF UserTurn
<1>4. /\ each \in Seq(Turn) /\ Len(each) = Len(Due)
      /\ \A i \in DOMAIN Due : each[i] = ToolTurn(Due[i])
      /\ given \in Seq(Result) /\ Len(given) = Len(Due)
      /\ \A i \in DOMAIN Due : given[i] = ResultOf(Due[i])
    BY <1>0, SaidTyped
<1>5. client = "openai" => Say(each \o notes)
    BY DEF Reply
<1>6. client # "openai" => Say(<<all>>)
    BY DEF Reply
<1> HIDE DEF text, note, all, each, given
<1>7. CASE client = "openai"
    <2>1. \A i \in DOMAIN each :
              /\ i \in DOMAIN Due
              /\ each[i].calls = <<>> /\ each[i].role = "tool" /\ each[i].texts = <<>>
              /\ each[i].media = {} /\ Len(each[i].results) = 1
              /\ \A k \in DOMAIN each[i].results :
                    /\ each[i].results[k].val = Due[i].args
                    /\ each[i].results[k].id = Due[i].id
        <3>1. DOMAIN each = DOMAIN Due
            BY <1>0, <1>4
        <3>2. ASSUME NEW c
              PROVE  /\ ToolTurn(c).calls = <<>> /\ ToolTurn(c).role = "tool"
                     /\ ToolTurn(c).texts = <<>> /\ ToolTurn(c).media = {}
                     /\ Len(ToolTurn(c).results) = 1
                     /\ \A k \in DOMAIN ToolTurn(c).results :
                           /\ ToolTurn(c).results[k].val = c.args
                           /\ ToolTurn(c).results[k].id = c.id
            BY DEF ToolTurn
        <3> QED
            BY <1>4, <3>1, <3>2
    <2>2. notes \in Seq(Turn)
        BY <1>2
    <2>3. each \o notes \in Seq(Turn)
        BY <1>4, <2>2
    <2>4. ASSUME NEW i \in DOMAIN (each \o notes)
          PROVE  LET t == (each \o notes)[i]
                 IN  /\ t.calls = <<>>
                     /\ WellShaped(client, t)
                     /\ \A k \in DOMAIN t.results : \E x \in DOMAIN Due :
                           /\ t.results[k].val = Due[x].args
                           /\ Answers(client, t.results[k], Due[x])
        <3>1. CASE i \in DOMAIN each /\ (each \o notes)[i] = each[i]
            BY <1>7, <2>1, <3>1 DEF WellShaped, Answers
        <3>2. CASE (each \o notes)[i] = note
            BY <1>3, <1>7, <3>2 DEF WellShaped
        <3>3. \A j \in DOMAIN notes : notes[j] = note
            OBVIOUS
        <3>4. \/ i \in DOMAIN each /\ (each \o notes)[i] = each[i]
              \/ i - Len(each) \in DOMAIN notes
                   /\ (each \o notes)[i] = notes[i - Len(each)]
            BY <1>4, <2>2, <2>4, Joined
        <3> HIDE DEF notes
        <3> QED
            BY <3>1, <3>2, <3>3, <3>4
    <2> QED
        BY <1>0, <1>5, <1>7, <2>3, <2>4, SaidKeeps DEF Inv
<1>8. CASE client # "openai"
    <2>1. WellShaped(client, all)
        BY <1>3, <1>8 DEF WellShaped
    <2>2. \A k \in DOMAIN all.results :
              /\ k \in DOMAIN Due
              /\ all.results[k].val = Due[k].args
              /\ Answers(client, all.results[k], Due[k])
        <3>1. /\ DOMAIN all.results = DOMAIN Due
              /\ \A k \in DOMAIN Due : all.results[k] = ResultOf(Due[k])
            BY <1>0, <1>3, <1>4
        <3>2. ASSUME NEW c
              PROVE  ResultOf(c).val = c.args /\ Answers(client, ResultOf(c), c)
            BY DEF ResultOf, Answers
        <3> QED
            BY <3>1, <3>2
    <2>3. <<all>> \in Seq(Turn) /\ \A i \in DOMAIN <<all>> : <<all>>[i] = all
        BY <1>2
    <2>4. \A i \in DOMAIN <<all>> :
              /\ <<all>>[i].calls = <<>> /\ WellShaped(client, <<all>>[i])
              /\ \A k \in DOMAIN <<all>>[i].results :
                    /\ k \in DOMAIN Due
                    /\ <<all>>[i].results[k].val = Due[k].args
                    /\ Answers(client, <<all>>[i].results[k], Due[k])
        BY <1>3, <2>1, <2>2, <2>3
    <2> QED
        BY <1>0, <1>6, <1>8, <2>3, <2>4, SaidKeeps DEF Inv
<1> QED
    BY <1>7, <1>8

LEMMA AnswerSteps ==
    ASSUME Inv, NEW role, NEW text \in BOOLEAN, NEW offer \in Offers, NEW reason,
           Answer(role, text, offer, reason)
    PROVE  HistoryInv'
<1> DEFINE told == TranslateAnswer(upstream, client, answer'.turn, streaming)
<1>0. /\ TypeOK /\ upstream \in Kinds /\ client \in Kinds /\ streaming \in BOOLEAN
      /\ calls \in Nat /\ lines \in Nat
    BY DEF Inv, TypeOK
<1>1. /\ answer'.turn = AnswerOf(upstream, role, text, offer)
      /\ role \in AnswerRoles(upstream)
      /\ history' = Append(history, told) /\ client' = client
      /\ calls' = calls + Len(offer)
    BY DEF Answer
<1>2. /\ answer'.turn \in Turn /\ Len(answer'.turn.calls) = Len(offer)
      /\ Len(offer) \in Nat
    BY <1>0, <1>1, OfferTyped
<1>3. told \in Turn
    BY <1>0, <1>2, AnswerTyped
<1>4. /\ told.results = <<>>
      /\ told.role \in IF client = "gemini" THEN {"model", NoRole} ELSE {"assistant", "user"}
      /\ \/ told.calls = <<>>
         \/ /\ Len(told.calls) = Len(offer)
            /\ \A l \in DOMAIN told.calls :
                  told.calls[l].args = calls + l /\ Known(client, told.calls[l])
    BY <1>0, <1>1, <1>2, Told
<1> HIDE DEF told
<1>5. WellShaped(client, told)
    BY <1>4 DEF WellShaped
<1>6. calls' \in Nat /\ calls' >= calls /\ calls' >= calls + Len(told.calls)
    BY <1>0, <1>1, <1>2, <1>4
<1> QED
    BY <1>0, <1>1, <1>3, <1>4, <1>5, <1>6, AnswerKeeps DEF Inv

LEMMA InvNext == Inv /\ [Next]_vars => Inv'
<1> SUFFICES ASSUME Inv, [Next]_vars PROVE Inv'
    OBVIOUS
<1>0. TypeOK'
    BY TypeNext DEF Inv
<1>1. HistoryInv'
    <2>1. ASSUME NEW attached \in Questions[client], Ask(attached) PROVE HistoryInv'
        BY <2>1, AskKeeps
    <2>2. ASSUME NEW comment \in BOOLEAN, NEW shown \in SUBSET {"result_image"},
           Reply(comment, shown) PROVE HistoryInv'
        BY <2>2, ReplyKeeps
    <2>3. ASSUME NEW want \in Wants, Refused(want) PROVE HistoryInv'
        BY <2>3, HistoryKept DEF Inv, Refused, counters
    <2>4. ASSUME NEW want \in Wants, NEW c \in Choices[client], NEW stream \in BOOLEAN,
                 Forward(want, c, stream)
          PROVE  HistoryInv'
        BY <2>4, HistoryKept DEF Inv, Forward, counters
    <2>5. CASE Failed
        BY <2>5, HistoryKept DEF Inv, Failed, counters
    <2>6. ASSUME NEW role, NEW text \in BOOLEAN, NEW offer \in Offers, NEW reason,
                 Answer(role, text, offer, reason)
          PROVE  HistoryInv'
        BY <2>6, AnswerSteps
    <2>7. ASSUME NEW c \in Configs, Install(c) PROVE HistoryInv'
        BY <2>7, HistoryKept DEF Inv, Install, counters
    <2>8. CASE UNCHANGED vars
        BY <2>8, HistoryKept DEF Inv, vars, counters
    <2> QED
        BY <2>1, <2>2, <2>3, <2>4, <2>5, <2>6, <2>7, <2>8 DEF Next
<1>2. Sent'
    <2>1. ASSUME pc' # "upstream" PROVE Sent'
        BY <2>1 DEF Sent
    <2>2. ASSUME NEW want \in Wants, NEW c \in Choices[client], NEW stream \in BOOLEAN,
                 Forward(want, c, stream)
          PROVE  Sent'
        <3>1. TranslateTurns(client, upstream)' = TranslateTurns(client, upstream')
            BY <2>2 DEF Forward, TranslateTurns, Over
        <3> QED
            BY <2>2, <3>1 DEF Forward, Sent, TranslateChoice
    <2>3. ASSUME UNCHANGED <<client, history, pc, served>> PROVE Sent'
        <3>1. TranslateTurns(client, upstream)' = TranslateTurns(client, upstream)
            BY <2>3 DEF served, TranslateTurns, Over
        <3> QED
            BY <2>3, <3>1 DEF Inv, Sent, served, TranslateChoice
    <2>4. ASSUME NEW attached \in Questions[client], Ask(attached) PROVE pc' # "upstream"
        BY <2>4 DEF Ask, Say
    <2>5. ASSUME NEW comment \in BOOLEAN, NEW shown \in SUBSET {"result_image"},
           Reply(comment, shown) PROVE pc' # "upstream"
        BY <2>5 DEF Reply, Say
    <2>6. ASSUME NEW role, NEW text \in BOOLEAN, NEW offer \in Offers, NEW reason,
                 Answer(role, text, offer, reason)
          PROVE  pc' # "upstream"
        BY <2>6 DEF Answer
    <2>7. ASSUME NEW want \in Wants, Refused(want) PROVE Sent'
        BY <2>3, <2>7 DEF Refused
    <2>8. ASSUME NEW c \in Configs, Install(c) PROVE Sent'
        BY <2>3, <2>8 DEF Install
    <2>9. Failed => pc' # "upstream"
        BY DEF Failed
    <2>10. UNCHANGED vars => Sent'
        BY <2>3 DEF vars
    <2> QED
        BY <2>1, <2>2, <2>4, <2>5, <2>6, <2>7, <2>8, <2>9, <2>10 DEF Next
<1> QED
    BY <1>0, <1>1, <1>2 DEF Inv

LEMMA InvAlways == Spec => []Inv
BY InvInit, InvNext, PTL DEF Spec

-----------------------------------------------------------------------------
(***************************************************************************)
(* The id a call or result has in the common form.                         *)
(***************************************************************************)
CommonID(source, x) == IF source = "gemini" THEN CallPrefix(x.name) ELSE x.id

(***************************************************************************)
(* What a decoder does not read, and what is lost between two protocols.   *)
(***************************************************************************)
Unread(source) == CASE source = "openai" -> {"document"}
                    [] source = "anthropic" -> {"document", "result_image"}
                    [] source = "gemini" -> {}

Lost(source, target, k) ==
    \/ k = "audio" /\ target = "anthropic"
    \/ k = "audio_file" /\ target # "gemini"
    \/ k = "document" /\ (source # target \/ source = "anthropic")
    \/ k = "result_image"

LEMMA DecodedParts ==
    ASSUME NEW source \in Kinds, NEW t \in Turn, WellShaped(source, t),
           NEW m, m = DecodeTurn(source, t)
    PROVE  /\ m \in Message /\ m.texts = t.texts /\ m.media = t.media \ Unread(source)
           /\ m.role = "tool" <=>
                 (source = "openai" /\ t.role = "tool") \/ (source = "gemini" /\ t.results # <<>>)
           /\ m.toolCalls = IF source = "gemini" THEN <<>> ELSE t.calls
           /\ CallsOf(m) \in Seq(Call) /\ DOMAIN CallsOf(m) = DOMAIN t.calls
           /\ \A k \in DOMAIN t.calls :
                 /\ CallsOf(m)[k].id = CommonID(source, t.calls[k])
                 /\ CallsOf(m)[k].name = t.calls[k].name
                 /\ CallsOf(m)[k].args = t.calls[k].args
           /\ m.results \in Seq(Result) /\ DOMAIN m.results = DOMAIN t.results
           /\ \A k \in DOMAIN t.results :
                 /\ m.results[k].id = CommonID(source, t.results[k])
                 /\ m.results[k].val = t.results[k].val
<1>0. /\ m \in Message /\ CallsOf(m) \in Seq(Call) /\ m.results \in Seq(Result)
      /\ t.calls \in Seq(Call) /\ t.results \in Seq(Result)
    BY Decoded DEF CallsOf, Message, Turn
<1>1. CASE source = "openai"
    <2>1. m = DecodeOpenAI(t)
        BY <1>1 DEF DecodeTurn
    <2>2. CallsOf(m) = t.calls
        BY <2>1 DEF CallsOf, DecodeOpenAI
    <2> QED
        BY <1>0, <1>1, <2>1, <2>2 DEF DecodeOpenAI, CommonID, Unread
<1>2. CASE source = "anthropic"
    <2>1. m = DecodeAnthropic(t)
        BY <1>2 DEF DecodeTurn
    <2>2. CallsOf(m) = t.calls
        BY <2>1 DEF CallsOf, DecodeAnthropic
    <2> QED
        BY <1>0, <1>2, <2>1, <2>2 DEF DecodeAnthropic, CommonID, WellShaped, Unread
<1>3. CASE source = "gemini"
    <2> DEFINE cs == Over(t.calls, FromGeminiCall)
               rs == Over(t.results, FromGeminiResult)
    <2>1. m = DecodeGemini(t)
        BY <1>3 DEF DecodeTurn
    <2>2. m.toolCalls = <<>> /\ m.toolUses = cs /\ m.results = rs
          /\ m.texts = t.texts /\ m.media = t.media \ Unread(source)
        BY <1>3, <2>1 DEF DecodeGemini, Unread
    <2>3. DOMAIN cs = DOMAIN t.calls /\ Len(cs) = Len(t.calls)
          /\ \A k \in DOMAIN t.calls : cs[k] = FromGeminiCall(t.calls[k])
        BY <1>0, OverCalls DEF Over
    <2>4. DOMAIN rs = DOMAIN t.results
          /\ \A k \in DOMAIN t.results : rs[k] = FromGeminiResult(t.results[k])
        BY DEF Over
    <2>5. ASSUME NEW c \in Call
          PROVE  /\ FromGeminiCall(c).id = CommonID(source, c)
                 /\ FromGeminiCall(c).name = c.name /\ FromGeminiCall(c).args = c.args
        BY <1>3 DEF FromGeminiCall, CommonID, Call
    <2>6. ASSUME NEW r \in Result
          PROVE  /\ FromGeminiResult(r).id = CommonID(source, r)
                 /\ FromGeminiResult(r).val = r.val
        BY <1>3 DEF FromGeminiResult, CommonID
    <2>7. m.role = "tool" <=> t.results # <<>>
        <3>1. t.role \in {"user", "model", NoRole}
            BY <1>3 DEF WellShaped
        <3> QED
            BY <2>1, <3>1 DEF DecodeGemini, NoRole
    <2> HIDE DEF cs, rs
    <2>8. CallsOf(m) = cs
        BY <1>0, <2>2, <2>3 DEF CallsOf
    <2>9. \A k \in DOMAIN t.calls : t.calls[k] \in Call
        BY <1>0
    <2>10. \A k \in DOMAIN t.results : t.results[k] \in Result
        BY <1>0
    <2> QED
        BY <1>0, <1>3, <2>2, <2>3, <2>4, <2>5, <2>6, <2>7, <2>8, <2>9, <2>10
<1> QED
    BY <1>1, <1>2, <1>3, KindCases

(***************************************************************************)
(* What an upstream is sent for a turn.                                    *)
(***************************************************************************)
LEMMA EncodedTexts ==
    ASSUME NEW target \in Kinds, NEW m \in Message
    PROVE  \/ /\ EncodeTurn(target, m).texts = m.texts
              /\ LET sent == EncodeTurn(target, m).media IN
                    /\ \A k \in m.media : \/ k \in sent
                                          \/ k = "audio" /\ target = "anthropic"
                                          \/ k \in {"audio_file", "document"} /\ target # "gemini"
                    /\ \A k \in sent : k \in m.media \/ \E o \in m.media : Replaces(k, o)
           \/ target = "openai" /\ m.role = "tool"
<1>1. CASE target = "openai" /\ m.role # "tool"
    <2>1. /\ EncodeTurn(target, m).texts = m.texts
          /\ EncodeTurn(target, m).media = {ImagePart(AudioPart(k)) : k \in m.media}
        BY <1>1 DEF EncodeTurn, EncodeOpenAI
    <2> QED
        BY <1>1, <2>1 DEF ImagePart, AudioPart, Replaces
<1>2. CASE target = "anthropic"
    <2>1. /\ EncodeTurn(target, m).texts = m.texts
          /\ EncodeTurn(target, m).media =
                {ImagePart(k) : k \in m.media \ {"audio", "audio_file"}}
        BY <1>2 DEF EncodeTurn, EncodeAnthropic
    <2> QED
        BY <1>2, <2>1 DEF ImagePart, Replaces
<1>3. CASE target = "gemini"
    BY <1>3 DEF EncodeTurn, EncodeGemini, Message
<1> QED
    BY <1>1, <1>2, <1>3, KindCases

LEMMA EncodedToOpenAI ==
    ASSUME NEW m
    PROVE  /\ EncodeTurn("openai", m).calls = m.toolCalls
           /\ EncodeTurn("openai", m).results =
                 IF m.role = "tool" /\ m.results # <<>> THEN <<Head(m.results)>> ELSE <<>>
BY DEF EncodeTurn, EncodeOpenAI

LEMMA EncodedCalls ==
    ASSUME NEW target \in Kinds \ {"openai"}, NEW m \in Message
    PROVE  /\ DOMAIN EncodeTurn(target, m).calls = DOMAIN CallsOf(m)
           /\ \A k \in DOMAIN CallsOf(m) :
                 /\ EncodeTurn(target, m).calls[k].name = CallsOf(m)[k].name
                 /\ EncodeTurn(target, m).calls[k].args = CallsOf(m)[k].args
                 /\ target = "anthropic" =>
                       EncodeTurn(target, m).calls[k].id = CallsOf(m)[k].id
<1>1. CASE target = "anthropic"
    BY <1>1 DEF EncodeTurn, EncodeAnthropic
<1>2. CASE target = "gemini"
    <2> DEFINE cs == Over(CallsOf(m), ToGeminiCall)
    <2>1. EncodeTurn(target, m).calls = cs
        BY <1>2 DEF EncodeTurn, EncodeGemini
    <2>2. DOMAIN cs = DOMAIN CallsOf(m)
          /\ \A k \in DOMAIN CallsOf(m) : cs[k] = ToGeminiCall(CallsOf(m)[k])
        BY DEF Over
    <2>3. \A k \in DOMAIN CallsOf(m) : CallsOf(m)[k] \in Call
        BY DEF CallsOf, Message
    <2>4. ASSUME NEW c \in Call
          PROVE  ToGeminiCall(c).name = c.name /\ ToGeminiCall(c).args = c.args
        BY DEF ToGeminiCall, Call
    <2> HIDE DEF cs
    <2> QED
        BY <1>2, <2>1, <2>2, <2>3, <2>4
<1> QED
    BY <1>1, <1>2, KindCases

LEMMA EncodedResults ==
    ASSUME NEW target \in Kinds \ {"openai"}, NEW m \in Message
    PROVE  /\ DOMAIN EncodeTurn(target, m).results = DOMAIN m.results
           /\ \A k \in DOMAIN m.results :
                 /\ EncodeTurn(target, m).results[k].val = m.results[k].val
                 /\ target = "anthropic" =>
                       EncodeTurn(target, m).results[k].id = m.results[k].id
                 /\ target = "gemini" =>
                       EncodeTurn(target, m).results[k].name = m.results[k].id.name
<1>1. CASE target = "anthropic"
    BY <1>1 DEF EncodeTurn, EncodeAnthropic
<1>2. CASE target = "gemini"
    <2> DEFINE rs == Over(m.results, ToGeminiResult)
    <2>1. EncodeTurn(target, m).results = rs
        BY <1>2 DEF EncodeTurn, EncodeGemini
    <2>2. DOMAIN rs = DOMAIN m.results
          /\ \A k \in DOMAIN m.results : rs[k] = ToGeminiResult(m.results[k])
        BY DEF Over
    <2>3. ASSUME NEW r
          PROVE  ToGeminiResult(r).name = r.id.name /\ ToGeminiResult(r).val = r.val
        BY DEF ToGeminiResult, StripCallPrefix
    <2> HIDE DEF rs
    <2> QED
        BY <1>2, <2>1, <2>2, <2>3
<1> QED
    BY <1>1, <1>2, KindCases

(***************************************************************************)
(* Decoded and encoded: what an upstream is sent of a client's turn.       *)
(***************************************************************************)
SentTurn(source, target, t) ==
    IF source = "openai" /\ target = "openai" THEN t
    ELSE EncodeTurn(target, DecodeTurn(source, t))

LEMMA TextsSent ==
    ASSUME NEW source \in Kinds, NEW target \in Kinds, NEW t \in Turn, WellShaped(source, t)
    PROVE  \/ /\ SentTurn(source, target, t).texts = t.texts
              /\ LET sent == SentTurn(source, target, t).media IN
                    /\ \A k \in t.media : k \in sent \/ Lost(source, target, k)
                    /\ \A k \in sent : k \in t.media \/ \E o \in t.media : Replaces(k, o)
           \/ source = "gemini" /\ target = "openai" /\ t.results # <<>>
<1> DEFINE m == DecodeTurn(source, t)
<1>1. CASE source = "openai" /\ target = "openai"
    BY <1>1 DEF SentTurn
<1>2. CASE ~(source = "openai" /\ target = "openai")
    <2>1. /\ m \in Message /\ m.texts = t.texts /\ m.media = t.media \ Unread(source)
          /\ m.role = "tool" =>
                (source = "openai" /\ t.role = "tool") \/ (source = "gemini" /\ t.results # <<>>)
        BY DecodedParts
    <2>2. SentTurn(source, target, t) = EncodeTurn(target, m)
        BY <1>2 DEF SentTurn
    <2>3. \A k \in t.media : k \in m.media \/ Lost(source, target, k)
        BY <1>2, <2>1, KindCases DEF Unread, Lost
    <2>4. \A k : k = "audio" /\ target = "anthropic" => Lost(source, target, k)
        BY DEF Lost
    <2>5. \A k : k \in {"audio_file", "document"} /\ k \in m.media /\ target # "gemini"
                     => Lost(source, target, k)
        BY <2>1, KindCases DEF Unread, Lost
    <2>6. m.media \subseteq t.media
        BY <2>1
    <2> HIDE DEF m
    <2> QED
        BY <1>2, <2>1, <2>2, <2>3, <2>4, <2>5, <2>6, EncodedTexts
<1> QED
    BY <1>1, <1>2

LEMMA CallsSent ==
    ASSUME NEW source \in Kinds, NEW target \in Kinds, NEW t \in Turn, WellShaped(source, t),
           NEW sent, sent = SentTurn(source, target, t)
    PROVE  /\ \/ DOMAIN sent.calls = DOMAIN t.calls
              \/ source = "gemini" /\ target = "openai" /\ sent.calls = <<>>
           /\ \A k \in DOMAIN sent.calls :
                 /\ k \in DOMAIN t.calls
                 /\ sent.calls[k].name = t.calls[k].name
                 /\ sent.calls[k].args = t.calls[k].args
                 /\ target # "gemini" => sent.calls[k].id = CommonID(source, t.calls[k])
<1> DEFINE m == DecodeTurn(source, t)
<1>1. CASE source = "openai" /\ target = "openai"
    BY <1>1 DEF SentTurn, CommonID
<1>2. CASE ~(source = "openai" /\ target = "openai")
    <2>1. /\ m \in Message
          /\ m.toolCalls = IF source = "gemini" THEN <<>> ELSE t.calls
          /\ DOMAIN CallsOf(m) = DOMAIN t.calls
          /\ \A k \in DOMAIN t.calls :
                 /\ CallsOf(m)[k].id = CommonID(source, t.calls[k])
                 /\ CallsOf(m)[k].name = t.calls[k].name
                 /\ CallsOf(m)[k].args = t.calls[k].args
        BY DecodedParts
    <2>2. sent = EncodeTurn(target, m)
        BY <1>2 DEF SentTurn
    <2> HIDE DEF m
    <2>3. CASE target = "openai"
        <3>1. sent.calls = m.toolCalls
            BY <2>2, <2>3, EncodedToOpenAI
        <3> QED
            BY <1>2, <2>1, <2>3, <3>1 DEF CommonID
    <2>4. CASE target # "openai"
        <3>1. /\ DOMAIN sent.calls = DOMAIN CallsOf(m)
              /\ \A k \in DOMAIN CallsOf(m) :
                    /\ sent.calls[k].name = CallsOf(m)[k].name
                    /\ sent.calls[k].args = CallsOf(m)[k].args
                    /\ target = "anthropic" => sent.calls[k].id = CallsOf(m)[k].id
            BY <2>1, <2>2, <2>4, EncodedCalls
        <3> QED
            BY <2>1, <2>4, <3>1, KindCases
    <2> QED
        BY <2>3, <2>4
<1> QED
    BY <1>1, <1>2

LEMMA ResultsSent ==
    ASSUME NEW source \in Kinds, NEW target \in Kinds, NEW t \in Turn, WellShaped(source, t),
           NEW sent, sent = SentTurn(source, target, t)
    PROVE  /\ \/ DOMAIN sent.results = DOMAIN t.results
              \/ source = "anthropic" /\ target = "openai" /\ sent.results = <<>>
              \/ /\ source = "gemini" /\ target = "openai" /\ t.results # <<>>
                 /\ Len(sent.results) = 1 /\ DOMAIN sent.results = {1}
           /\ \A k \in DOMAIN sent.results :
                 /\ k \in DOMAIN t.results
                 /\ sent.results[k].val = t.results[k].val
                 /\ target # "gemini" => sent.results[k].id = CommonID(source, t.results[k])
                 /\ target = "gemini" =>
                       sent.results[k].name = CommonID(source, t.results[k]).name
<1> DEFINE m == DecodeTurn(source, t)
<1>0. t.results \in Seq(Result)
    BY DEF Turn
<1>1. CASE source = "openai" /\ target = "openai"
    BY <1>1 DEF SentTurn, CommonID
<1>2. CASE ~(source = "openai" /\ target = "openai")
    <2>1. /\ m \in Message
          /\ m.role = "tool" <=>
                (source = "openai" /\ t.role = "tool") \/ (source = "gemini" /\ t.results # <<>>)
          /\ m.results \in Seq(Result) /\ DOMAIN m.results = DOMAIN t.results
          /\ \A k \in DOMAIN t.results :
                 /\ m.results[k].id = CommonID(source, t.results[k])
                 /\ m.results[k].val = t.results[k].val
        BY DecodedParts
    <2>2. sent = EncodeTurn(target, m)
        BY <1>2 DEF SentTurn
    <2> HIDE DEF m
    <2>3. CASE target = "openai"
        <3>1. sent.results = IF m.role = "tool" /\ m.results # <<>>
                             THEN <<Head(m.results)>> ELSE <<>>
            BY <2>2, <2>3, EncodedToOpenAI
        <3>2. CASE source = "anthropic"
            BY <2>1, <2>3, <3>1, <3>2
        <3>3. CASE source = "gemini" /\ t.results = <<>>
            BY <2>1, <3>1, <3>3
        <3>4. CASE source = "gemini" /\ t.results # <<>>
            <4>1. 1 \in DOMAIN t.results /\ m.results # <<>>
                BY <1>0, <2>1, <3>4
            <4>2. sent.results = <<m.results[1]>>
                BY <2>1, <3>1, <3>4, <4>1
            <4>3. /\ Len(sent.results) = 1 /\ DOMAIN sent.results = {1}
                  /\ sent.results[1] = m.results[1]
                BY <4>2
            <4> QED
                BY <2>1, <2>3, <3>4, <4>1, <4>3
        <3> QED
            BY <1>2, <2>3, <3>2, <3>3, <3>4, KindCases
    <2>4. CASE target # "openai"
        <3>1. /\ DOMAIN sent.results = DOMAIN m.results
              /\ \A k \in DOMAIN m.results :
                    /\ sent.results[k].val = m.results[k].val
                    /\ target = "anthropic" => sent.results[k].id = m.results[k].id
                    /\ target = "gemini" => sent.results[k].name = m.results[k].id.name
            BY <2>1, <2>2, <2>4, EncodedResults
        <3> QED
            BY <2>1, <2>4, <3>1, KindCases
    <2> QED
        BY <2>3, <2>4
<1> QED
    BY <1>1, <1>2

(***************************************************************************)
(* A request in flight, turn by turn.                                      *)
(***************************************************************************)
LEMMA InFlight ==
    ASSUME Inv, pc = "upstream"
    PROVE  /\ client \in Kinds /\ upstream \in Kinds
           /\ Len(request.turns) = Len(history) /\ DOMAIN request.turns = DOMAIN history
           /\ \A i \in DOMAIN history :
                 /\ history[i] \in Turn /\ WellShaped(client, history[i])
                 /\ request.turns[i] = SentTurn(client, upstream, history[i])
<1>1. /\ client \in Kinds /\ upstream \in Kinds /\ history \in Seq(Turn)
      /\ request.turns = TranslateTurns(client, upstream)
    BY DEF Inv, TypeOK, Sent
<1>2. /\ TranslateTurns(client, upstream) \in Seq(Turn)
      /\ Len(TranslateTurns(client, upstream)) = Len(history)
      /\ \A i \in DOMAIN history :
            TranslateTurns(client, upstream)[i] = SentTurn(client, upstream, history[i])
    BY <1>1, TurnsTranslated DEF SentTurn
<1>3. DOMAIN request.turns = DOMAIN history
    BY <1>1, <1>2
<1> QED
    BY <1>1, <1>2, <1>3 DEF Inv, HistoryInv, Shaped

(***************************************************************************)
(* TextsReach: every text of a history of any length is sent on, whatever  *)
(* the protocols, and every attachment but those that Mislaid names, which *)
(* is exactly what is left out or replaced.                                *)
(***************************************************************************)
THEOREM EveryTextReaches == Spec => []TextsReach
<1>1. Inv => TextsReach
    <2>1. ASSUME Inv, pc = "upstream", NEW i \in DOMAIN history
          PROVE  \/ /\ request.turns[i].texts = history[i].texts
                    /\ \A k \in history[i].media :
                          k \in request.turns[i].media \/ Mislaid(k)
                    /\ \A k \in request.turns[i].media :
                          k \in history[i].media \/ \E o \in history[i].media : Replaces(k, o)
                 \/ client = "gemini" /\ upstream = "openai" /\ history[i].results # <<>>
        <3>1. \A k : Lost(client, upstream, k) <=> Mislaid(k)
            BY DEF Lost, Mislaid
        <3> QED
            BY <2>1, <3>1, InFlight, TextsSent
    <2> QED
        BY <2>1, InFlight DEF TextsReach
<1> QED
    BY <1>1, InvAlways, PTL

(***************************************************************************)
(* CallsReach: so is every call and every result, but for those that the   *)
(* property names.                                                         *)
(***************************************************************************)
THEOREM EveryCallReaches == Spec => []CallsReach
<1>1. ASSUME Inv, pc = "upstream", NEW i \in DOMAIN history
      PROVE  /\ \/ SameCalls(request.turns[i].calls, history[i].calls)
                \/ client = "gemini" /\ upstream = "openai" /\ request.turns[i].calls = <<>>
             /\ \/ SameResults(request.turns[i].results, history[i].results)
                \/ client = "anthropic" /\ upstream = "openai" /\ request.turns[i].results = <<>>
                \/ /\ client = "gemini" /\ upstream = "openai"
                   /\ SameResults(request.turns[i].results, <<Head(history[i].results)>>)
    <2> DEFINE sent == request.turns[i]
               said == history[i]
    <2>1. /\ client \in Kinds /\ upstream \in Kinds /\ said \in Turn
          /\ WellShaped(client, said) /\ sent = SentTurn(client, upstream, said)
        BY <1>1, InFlight
    <2>2. sent \in Turn
        <3>1. Len(request.turns) = Len(history) /\ request.turns \in Seq(Turn)
            BY <1>1, InFlight DEF Inv, TypeOK
        <3>2. i \in DOMAIN request.turns
            BY <1>1, InFlight
        <3> QED
            BY <3>1, <3>2
    <2> HIDE DEF sent, said
    <2>3. /\ sent.calls \in Seq(Call) /\ said.calls \in Seq(Call)
          /\ sent.results \in Seq(Result) /\ said.results \in Seq(Result)
        BY <2>1, <2>2 DEF Turn
    <2>4. \/ SameCalls(sent.calls, said.calls)
          \/ client = "gemini" /\ upstream = "openai" /\ sent.calls = <<>>
        <3>1. /\ \/ DOMAIN sent.calls = DOMAIN said.calls
                 \/ client = "gemini" /\ upstream = "openai" /\ sent.calls = <<>>
              /\ \A k \in DOMAIN sent.calls :
                    /\ sent.calls[k].name = said.calls[k].name
                    /\ sent.calls[k].args = said.calls[k].args
            BY <2>1, CallsSent
        <3>2. DOMAIN sent.calls = DOMAIN said.calls => Len(sent.calls) = Len(said.calls)
            BY <2>3
        <3> QED
            BY <3>1, <3>2 DEF SameCalls
    <2>5. \/ SameResults(sent.results, said.results)
          \/ client = "anthropic" /\ upstream = "openai" /\ sent.results = <<>>
          \/ /\ client = "gemini" /\ upstream = "openai"
             /\ SameResults(sent.results, <<Head(said.results)>>)
        <3>1. /\ \/ DOMAIN sent.results = DOMAIN said.results
                 \/ client = "anthropic" /\ upstream = "openai" /\ sent.results = <<>>
                 \/ /\ client = "gemini" /\ upstream = "openai" /\ said.results # <<>>
                    /\ Len(sent.results) = 1 /\ DOMAIN sent.results = {1}
              /\ \A k \in DOMAIN sent.results : sent.results[k].val = said.results[k].val
            BY <2>1, ResultsSent
        <3>2. DOMAIN sent.results = DOMAIN said.results =>
                  Len(sent.results) = Len(said.results)
            BY <2>3
        <3>3. said.results # <<>> => Head(said.results) = said.results[1]
            BY <2>3
        <3> QED
            BY <3>1, <3>2, <3>3 DEF SameResults
    <2> QED
        BY <2>4, <2>5 DEF sent, said
<1>2. Inv => CallsReach
    BY <1>1 DEF CallsReach
<1> QED
    BY <1>2, InvAlways, PTL

(***************************************************************************)
(* ResultsCorrelate: in a conversation of any length and any changes of    *)
(* provider, OpenAI and Anthropic are sent a result under the id of its    *)
(* call, and Gemini under its function's name if the gateway or the client *)
(* made the id; under an id that another provider minted, under the name   *)
(* of no function, whichever call it answers.                              *)
(***************************************************************************)
THEOREM ResultsFindTheirCalls == Spec => []ResultsCorrelate
<1>1. ASSUME Inv, pc = "upstream",
             NEW i \in DOMAIN request.turns, NEW j \in DOMAIN request.turns,
             NEW k \in DOMAIN request.turns[i].results, NEW l \in DOMAIN request.turns[j].calls,
             request.turns[i].results[k].val = request.turns[j].calls[l].args
      PROVE  /\ j < i
             /\ upstream # "gemini" =>
                   request.turns[i].results[k].id = request.turns[j].calls[l].id
             /\ upstream = "gemini" =>
                   request.turns[i].results[k].name =
                      IF history[j].calls[l].id.by = "upstream"
                      THEN NoFunction ELSE request.turns[j].calls[l].name
    <2> DEFINE s == request.turns[i].results[k]
               d == request.turns[j].calls[l]
               r == history[i].results[k]
               c == history[j].calls[l]
    <2>0. /\ client \in Kinds /\ upstream \in Kinds
          /\ i \in DOMAIN history /\ j \in DOMAIN history
          /\ history[i] \in Turn /\ WellShaped(client, history[i])
          /\ request.turns[i] = SentTurn(client, upstream, history[i])
          /\ history[j] \in Turn /\ WellShaped(client, history[j])
          /\ request.turns[j] = SentTurn(client, upstream, history[j])
        BY <1>1, InFlight
    <2>1. /\ k \in DOMAIN history[i].results /\ s.val = r.val
          /\ upstream # "gemini" => s.id = CommonID(client, r)
          /\ upstream = "gemini" => s.name = CommonID(client, r).name
        BY <2>0, ResultsSent
    <2>2. /\ l \in DOMAIN history[j].calls /\ d.name = c.name /\ d.args = c.args
          /\ upstream # "gemini" => d.id = CommonID(client, c)
        BY <2>0, CallsSent
    <2>3. r.val = c.args
        BY <1>1, <2>1, <2>2
    <2>4. j < i /\ Answers(client, r, c)
        BY <1>1, <2>0, <2>1, <2>2, <2>3 DEF Inv, HistoryInv, Correlated
    <2>5. Known(client, c)
        BY <1>1, <2>0, <2>2 DEF Inv, HistoryInv, Numbered
    <2> HIDE DEF s, d, r, c
    <2>6. CommonID(client, r) = CommonID(client, c)
        BY <2>4 DEF Answers, CommonID
    <2>7. CommonID(client, c).name = IF c.id.by = "upstream" THEN NoFunction ELSE c.name
        BY <2>5 DEF Known, CommonID, CallPrefix, Minted, NoID
    <2>8. upstream # "gemini" => s.id = d.id
        BY <2>1, <2>2, <2>6
    <2>9. upstream = "gemini" =>
              s.name = IF c.id.by = "upstream" THEN NoFunction ELSE d.name
        BY <2>1, <2>2, <2>6, <2>7
    <2> QED
        BY <2>4, <2>8, <2>9 DEF s, d, c
<1>2. ASSUME Inv, pc = "upstream", upstream # "gemini",
             NEW i \in DOMAIN request.turns, NEW j \in DOMAIN request.turns,
             NEW k \in DOMAIN request.turns[i].calls, NEW l \in DOMAIN request.turns[j].calls,
             request.turns[i].calls[k].id = request.turns[j].calls[l].id,
             request.turns[i].calls[k].args # request.turns[j].calls[l].args
      PROVE  /\ request.turns[i].calls[k].id = CallPrefix(request.turns[i].calls[k].name)
             /\ request.turns[i].calls[k].name = request.turns[j].calls[l].name
    <2> DEFINE a == request.turns[i].calls[k]
               d == request.turns[j].calls[l]
               b == history[i].calls[k]
               c == history[j].calls[l]
    <2>0. /\ client \in Kinds /\ upstream \in Kinds
          /\ i \in DOMAIN history /\ j \in DOMAIN history
          /\ history[i] \in Turn /\ WellShaped(client, history[i])
          /\ request.turns[i] = SentTurn(client, upstream, history[i])
          /\ history[j] \in Turn /\ WellShaped(client, history[j])
          /\ request.turns[j] = SentTurn(client, upstream, history[j])
        BY <1>2, InFlight
    <2>1. /\ k \in DOMAIN history[i].calls /\ a.name = b.name /\ a.args = b.args
          /\ a.id = CommonID(client, b)
        BY <1>2, <2>0, CallsSent
    <2>2. /\ l \in DOMAIN history[j].calls /\ d.name = c.name /\ d.args = c.args
          /\ d.id = CommonID(client, c)
        BY <1>2, <2>0, CallsSent
    <2>3. Known(client, b) /\ Known(client, c)
        BY <1>2, <2>0, <2>1, <2>2 DEF Inv, HistoryInv, Numbered
    <2>4. a.id = d.id /\ a.args # d.args
        BY <1>2
    <2> HIDE DEF a, b, c, d
    <2>5. /\ a.id = Minted(b.args) \/ a.id = CallPrefix(b.name)
          /\ d.id = Minted(c.args) \/ d.id = CallPrefix(c.name)
        BY <2>1, <2>2, <2>3 DEF Known, CommonID
    <2>6. /\ \A m, n : Minted(m) = Minted(n) => m = n
          /\ \A m, n : CallPrefix(m) = CallPrefix(n) => m = n
          /\ \A m, n : Minted(m) # CallPrefix(n)
        BY DEF Minted, CallPrefix
    <2>7. a.id = CallPrefix(b.name) /\ d.id = CallPrefix(c.name) /\ b.name = c.name
        BY <2>1, <2>2, <2>4, <2>5, <2>6
    <2> QED
        BY <2>1, <2>2, <2>7 DEF a, d
<1>3. Inv => ResultsCorrelate
    BY <1>1, <1>2 DEF ResultsCorrelate
<1> QED
    BY <1>3, InvAlways, PTL

-----------------------------------------------------------------------------
(***************************************************************************)
(* The choice of tools in the common form, and what each permits.          *)
(***************************************************************************)
Modes == {"auto", "none", "required", "specific"}

LEMMA WordsOfModes ==
    ASSUME NEW kind \in Kinds
    PROVE  /\ DOMAIN Vocabulary[kind] = Modes
           /\ Vocabulary[kind]["auto"] \in {"auto", "AUTO"}
           /\ Vocabulary[kind]["none"] \in {"none", "NONE"}
           /\ Vocabulary[kind]["required"] \in {"required", "any", "ANY"}
           /\ Vocabulary[kind]["specific"] \in {"function", "tool", "ANY"}
           /\ kind = "gemini" => Vocabulary[kind]["required"] = Vocabulary[kind]["specific"]
           /\ kind # "gemini" => Vocabulary[kind]["required"] # Vocabulary[kind]["specific"]
           /\ kind # "gemini" => Vocabulary[kind]["required"] # "ANY"
<1>1. CASE kind = "openai"
    BY <1>1 DEF Vocabulary, Modes
<1>2. CASE kind = "anthropic"
    BY <1>2 DEF Vocabulary, Modes
<1>3. CASE kind = "gemini"
    BY <1>3 DEF Vocabulary, Modes
<1> QED
    BY <1>1, <1>2, <1>3, KindCases

LEMMA ChoiceDecoded ==
    ASSUME NEW kind \in Kinds, NEW mode \in Modes, NEW names \in SUBSET Functions,
           mode = "specific" <=> \E f \in Functions : names = {f},
           mode \in {"auto", "none"} => names = {}
    PROVE  DecodeChoice(kind, Choice(Vocabulary[kind][mode], names)) =
               Choice(mode, IF mode = "specific" THEN names ELSE {})
<1> DEFINE Means(m) == /\ Vocabulary[kind][m] = Vocabulary[kind][mode]
                       /\ m = "specific" <=> \E f \in Functions : names = {f}
<1>1. mode \in DOMAIN Vocabulary[kind] /\ Means(mode)
    BY WordsOfModes
<1>2. ASSUME NEW m \in DOMAIN Vocabulary[kind], Means(m) PROVE m = mode
    <2>1. m \in Modes /\ (m = "specific" <=> mode = "specific")
        BY <1>2, WordsOfModes
    <2> QED
        BY <1>2, <2>1, WordsOfModes DEF Modes
<1>3. (CHOOSE m \in DOMAIN Vocabulary[kind] : Means(m)) = mode
    BY <1>1, <1>2
<1> QED
    BY <1>3 DEF DecodeChoice, Choice

LEMMA Permitted ==
    ASSUME NEW kind \in Kinds, NEW names \in SUBSET Functions
    PROVE  /\ Permits(Choice(Vocabulary[kind]["auto"], {})) = {NoFunction} \cup Functions
           /\ Permits(Choice(Vocabulary[kind]["none"], {})) = {NoFunction}
           /\ Permits(Choice(Vocabulary[kind]["required"], {})) = Functions
           /\ names # {} => Permits(Choice(Vocabulary[kind]["specific"], names)) = names
<1>1. Permits(Choice(Vocabulary[kind]["auto"], {})) = {NoFunction} \cup Functions
    BY WordsOfModes DEF Permits, Choice
<1>2. Permits(Choice(Vocabulary[kind]["none"], {})) = {NoFunction}
    BY WordsOfModes DEF Permits, Choice
<1>3. Permits(Choice(Vocabulary[kind]["required"], {})) = Functions
    BY WordsOfModes DEF Permits, Choice
<1>4. names # {} => Permits(Choice(Vocabulary[kind]["specific"], names)) = names
    BY WordsOfModes DEF Permits, Choice
<1> QED
    BY <1>1, <1>2, <1>3, <1>4

(***************************************************************************)
(* Every choice on a wire is a word of one of the modes.                   *)
(***************************************************************************)
LEMMA ChoiceForms ==
    ASSUME NEW kind \in Kinds, NEW c \in WireChoices(kind)
    PROVE  \/ \E mode \in {"auto", "none", "required"} : c = Choice(Vocabulary[kind][mode], {})
           \/ \E f \in Functions : c = Choice(Vocabulary[kind]["specific"], {f})
           \/ /\ kind = "gemini"
              /\ \E names \in SUBSET Functions :
                    /\ c = Choice(Vocabulary[kind]["required"], names)
                    /\ ~ \E f \in Functions : names = {f}
<1>1. Vocabulary[kind].specific = Vocabulary[kind]["specific"]
    OBVIOUS
<1>2. ASSUME NEW names \in SUBSET Functions, kind = "gemini",
             c = Choice(Vocabulary[kind]["specific"], names)
      PROVE  \/ \E f \in Functions : c = Choice(Vocabulary[kind]["specific"], {f})
             \/ /\ c = Choice(Vocabulary[kind]["required"], names)
                /\ ~ \E f \in Functions : names = {f}
    BY <1>2, WordsOfModes
<1>3. CASE \E mode \in {"auto", "none", "required"} : c = Choice(Vocabulary[kind][mode], {})
    BY <1>3
<1>4. ASSUME NEW names \in IF kind = "gemini" THEN SUBSET Functions
                            ELSE {{f} : f \in Functions},
             c = Choice(Vocabulary[kind]["specific"], names)
      PROVE  \/ \E f \in Functions : c = Choice(Vocabulary[kind]["specific"], {f})
             \/ /\ kind = "gemini"
                /\ \E ns \in SUBSET Functions :
                      /\ c = Choice(Vocabulary[kind]["required"], ns)
                      /\ ~ \E f \in Functions : ns = {f}
    <2>1. CASE kind = "gemini"
        BY <1>2, <1>4, <2>1
    <2>2. CASE kind # "gemini"
        BY <1>4, <2>2
    <2> QED
        BY <2>1, <2>2
<1>5. \/ \E mode \in {"auto", "none", "required"} : c = Choice(Vocabulary[kind][mode], {})
      \/ \E names \in IF kind = "gemini" THEN SUBSET Functions ELSE {{f} : f \in Functions} :
            c = Choice(Vocabulary[kind]["specific"], names)
    BY <1>1 DEF WireChoices
<1> QED
    BY <1>3, <1>4, <1>5

LEMMA ChoiceTranslated ==
    ASSUME NEW source \in Kinds, NEW target \in Kinds, NEW c \in WireChoices(source)
    PROVE  \/ Permits(TranslateChoice(source, target, c)) = Permits(c)
           \/ /\ \E f, g \in c.names : f # g
              /\ Permits(TranslateChoice(source, target, c)) = Functions
<1> DEFINE d == TranslateChoice(source, target, c)
<1>1. CASE source = "openai" /\ target = "openai"
    BY <1>1 DEF TranslateChoice
<1>2. CASE ~(source = "openai" /\ target = "openai")
    <2>0. d = EncodeChoice(target, DecodeChoice(source, c))
        BY <1>2 DEF TranslateChoice
    <2> HIDE DEF d
    <2>1. ASSUME NEW mode \in {"auto", "none", "required"},
                 c = Choice(Vocabulary[source][mode], {})
          PROVE  Permits(d) = Permits(c)
        <3>1. DecodeChoice(source, c) = Choice(mode, {})
            BY <2>1, ChoiceDecoded DEF Modes
        <3>2. d = Choice(Vocabulary[target][mode], {})
            BY <2>0, <3>1 DEF EncodeChoice, Choice
        <3> QED
            BY <2>1, <3>2, Permitted
    <2>2. ASSUME NEW f \in Functions, c = Choice(Vocabulary[source]["specific"], {f})
          PROVE  Permits(d) = Permits(c)
        <3>1. DecodeChoice(source, c) = Choice("specific", {f})
            BY <2>2, ChoiceDecoded DEF Modes
        <3>2. d = Choice(Vocabulary[target]["specific"], {f})
            BY <2>0, <3>1 DEF EncodeChoice, Choice
        <3>3. {f} \in SUBSET Functions /\ {f} # {}
            OBVIOUS
        <3> QED
            BY <2>2, <3>2, <3>3, Permitted
    <2>3. ASSUME source = "gemini", NEW names \in SUBSET Functions,
                 c = Choice(Vocabulary[source]["required"], names),
                 ~ \E f \in Functions : names = {f}
          PROVE  \/ Permits(d) = Permits(c)
                 \/ (\E f, g \in c.names : f # g) /\ Permits(d) = Functions
        <3>1. DecodeChoice(source, c) = Choice("required", {})
            BY <2>3, ChoiceDecoded DEF Modes
        <3>2. d = Choice(Vocabulary[target]["required"], {})
            BY <2>0, <3>1 DEF EncodeChoice, Choice
        <3>3. Permits(d) = Functions
            BY <3>2, Permitted
        <3>4. CASE names = {}
            BY <2>3, <3>3, <3>4, Permitted
        <3>5. CASE names # {}
            <4>1. \E f, g \in names : f # g
                BY <2>3, <3>5
            <4>2. c.names = names
                BY <2>3 DEF Choice
            <4> QED
                BY <3>3, <4>1, <4>2
        <3> QED
            BY <3>4, <3>5
    <2>4. \/ Permits(d) = Permits(c)
          \/ (\E f, g \in c.names : f # g) /\ Permits(d) = Functions
        <3>1. CASE \E mode \in {"auto", "none", "required"} :
                       c = Choice(Vocabulary[source][mode], {})
            BY <2>1, <3>1
        <3>2. CASE \E f \in Functions : c = Choice(Vocabulary[source]["specific"], {f})
            BY <2>2, <3>2
        <3>3. CASE /\ source = "gemini"
                   /\ \E names \in SUBSET Functions :
                         /\ c = Choice(Vocabulary[source]["required"], names)
                         /\ ~ \E f \in Functions : names = {f}
            BY <2>3, <3>3
        <3> QED
            BY <3>1, <3>2, <3>3, ChoiceForms
    <2> QED
        BY <2>4 DEF d
<1> QED
    BY <1>1, <1>2

(***************************************************************************)
(* ChoiceKept: between any two protocols and for any set of functions, a   *)
(* choice of tools permits what it permitted, or, for a list, any of them. *)
(***************************************************************************)
THEOREM ChoiceIsKept == Spec => []ChoiceKept
<1>1. ASSUME Inv, pc = "upstream" 
      PROVE  \/ Permits(request.choice) = Permits(choice)
             \/ /\ \E f, g \in choice.names : f # g
                /\ Permits(request.choice) = Functions
    <2>1. /\ client \in Kinds /\ upstream \in Kinds /\ choice \in WireChoices(client)
          /\ request.choice = TranslateChoice(client, upstream, choice)
        BY <1>1, ChoicesOnWire DEF Inv, TypeOK, Sent
    <2> QED
        BY <2>1, ChoiceTranslated
<1>2. Inv => ChoiceKept
    BY <1>1 DEF ChoiceKept
<1> QED
    BY <1>2, InvAlways, PTL

-----------------------------------------------------------------------------
(***************************************************************************)
(* A finish reason of an answer without calls, and of one with them, comes *)
(* back from the client's protocol as it went in, but for its case.        *)
(***************************************************************************)
LEMMA FinishRoundTrip ==
    ASSUME NEW target \in Kinds,
           NEW ir \in {"stop", "length", "content_filter"} \cup Foreign,
           NEW stream \in BOOLEAN
    PROVE  ToUpper(NormaliseFinish(target, FinishFromIR(target, ir, stream))) = ToUpper(ir)
<1>0. ir \in {"stop", "length", "content_filter", "other", "refusal", "pause_turn",
              "OTHER", "MALFORMED_FUNCTION_CALL"}
    BY ForeignReasons
<1>1. CASE target = "openai"
    <2>1. NormaliseFinish(target, FinishFromIR(target, ir, stream)) = ir
        BY <1>0, <1>1 DEF FinishFromIR, NormaliseFinish, Translated, FinishTable, OpenAIFinish
    <2> QED
        BY <2>1
<1>2. CASE target = "anthropic"
    <2>1. FinishFromIR("anthropic", ir, stream) =
              IF ir = "stop" THEN "end_turn" ELSE IF ir = "length" THEN "max_tokens" ELSE ir
        BY <1>0 DEF FinishFromIR, Translated
    <2>2. NormaliseFinish(target, FinishFromIR(target, ir, stream)) = ir
        BY <1>0, <1>2, <2>1 DEF NormaliseFinish, Translated, FinishTable, AnthropicStop
    <2> QED
        BY <2>2
<1>3. CASE target = "gemini"
    <2>1. CASE ir \in {"stop", "length", "content_filter"}
        <3>1. FinishFromIR("gemini", ir, stream) =
                  IF ir = "stop" THEN "STOP" ELSE IF ir = "length" THEN "MAX_TOKENS" ELSE "SAFETY"
            BY <2>1 DEF FinishFromIR, GeminiFinishFromIR
        <3>2. NormaliseFinish(target, FinishFromIR(target, ir, stream)) = ir
            BY <1>3, <2>1, <3>1 DEF NormaliseFinish, Translated, FinishTable, GeminiFinish
        <3> QED
            BY <3>2
    <2>2. CASE ir \in {"other", "refusal", "pause_turn", "OTHER", "MALFORMED_FUNCTION_CALL"}
        <3>1. FinishFromIR("gemini", ir, stream) = ToUpper(ir)
            BY <2>2 DEF FinishFromIR, GeminiFinishFromIR
        <3>2. ToUpper(ir) \in {"OTHER", "REFUSAL", "PAUSE_TURN", "MALFORMED_FUNCTION_CALL"}
              /\ ToUpper(ToUpper(ir)) = ToUpper(ir)
            BY <2>2 DEF ToUpper, Translated, Capitals
        <3>3. NormaliseFinish(target, ToUpper(ir)) = ToUpper(ir)
            BY <1>3, <3>2 DEF NormaliseFinish, Translated, FinishTable, GeminiFinish
        <3> QED
            BY <1>3, <3>1, <3>2, <3>3
    <2> QED
        BY <1>0, <2>1, <2>2
<1> QED
    BY <1>1, <1>2, <1>3, KindCases

LEMMA FinishWithoutCalls ==
    ASSUME NEW source \in Kinds, NEW reason \in Finishes(source, FALSE)
    PROVE  NormaliseFinish(source, reason)
              \in {"stop", "length", "content_filter"} \cup Foreign
<1>1. NormaliseFinish(source, reason) \in CommonFinish \cup Foreign
    BY FinishTyped, KindCases
<1>2. CASE reason \in DOMAIN FinishTable[source]
    <2>1. FinishTable[source][reason] # "tool_calls"
        <3>1. CASE source = "openai"
            BY <1>2, <3>1 DEF Finishes, FinishTable, OpenAIFinish, Untabled
        <3>2. CASE source = "anthropic"
            BY <1>2, <3>2 DEF Finishes, FinishTable, AnthropicStop, Untabled
        <3>3. CASE source = "gemini"
            BY <1>2, <3>3 DEF FinishTable, GeminiFinish
        <3> QED
            BY <3>1, <3>2, <3>3, KindCases
    <2> QED
        BY <1>1, <1>2, <2>1 DEF NormaliseFinish, Translated, CommonFinish
<1>3. CASE reason \notin DOMAIN FinishTable[source]
    <2>1. reason \in Untabled[source] /\ NormaliseFinish(source, reason) = reason
        BY <1>3, ReasonKnown DEF NormaliseFinish, Translated
    <2> QED
        BY <2>1 DEF Foreign
<1> QED
    BY <1>2, <1>3

LEMMA FinishWithCalls ==
    ASSUME NEW source \in {"openai", "anthropic"}, NEW reason \in Finishes(source, TRUE)
    PROVE  NormaliseFinish(source, reason) = "tool_calls"
<1>1. CASE source = "openai"
    BY <1>1 DEF Finishes, NormaliseFinish, Translated, FinishTable, OpenAIFinish
<1>2. CASE source = "anthropic"
    BY <1>2 DEF Finishes, NormaliseFinish, Translated, FinishTable, AnthropicStop
<1> QED
    BY <1>1, <1>2

LEMMA CallsTold ==
    ASSUME NEW target \in Kinds, NEW asked, asked # <<>>
    PROVE  Tells(target, FinishFromIR(target, "tool_calls", FALSE), asked) = "tool_calls"
<1>1. CASE target = "openai"
    BY <1>1 DEF Tells, FinishFromIR, NormaliseFinish, Translated, FinishTable, OpenAIFinish
<1>2. CASE target = "anthropic"
    <2>1. FinishFromIR("anthropic", "tool_calls", FALSE) = "tool_use"
        BY DEF FinishFromIR, Translated
    <2>2. NormaliseFinish("anthropic", "tool_use") = "tool_calls"
        BY DEF NormaliseFinish, Translated, FinishTable, AnthropicStop
    <2> QED
        BY <1>2, <2>1, <2>2 DEF Tells
<1>3. CASE target = "gemini"
    <2>1. FinishFromIR("gemini", "tool_calls", FALSE) = "STOP"
        BY DEF FinishFromIR, GeminiFinishFromIR
    <2> QED
        BY <1>3, <2>1 DEF Tells
<1> QED
    BY <1>1, <1>2, <1>3, KindCases

(***************************************************************************)
(* An answer is given to the client as AnswerKept has it.                  *)
(***************************************************************************)
LEMMA AnswerGiven ==
    ASSUME Inv, NEW text \in BOOLEAN, NEW offer \in Offers,
           NEW role \in AnswerRoles(upstream), NEW reason \in Finishes(upstream, offer # <<>>),
           Answer(role, text, offer, reason)
    PROVE  AnswerKept'
<1> DEFINE given == answer'.turn
           told == TranslateAnswer(upstream, client, given, streaming)
           asIs == client = "openai" /\ upstream = "openai"
<1>0. /\ upstream \in Kinds /\ client \in Kinds /\ streaming \in BOOLEAN
      /\ calls \in Nat /\ lines \in Nat /\ history \in Seq(Turn)
    BY DEF Inv, TypeOK
<1>1. /\ given = AnswerOf(upstream, role, text, offer) /\ answer'.finish = reason
      /\ history' = Append(history, told)
      /\ client' = client /\ upstream' = upstream /\ streaming' = streaming
      /\ finish' = IF upstream = client /\ (streaming => client = "openai") THEN reason
                   ELSE FinishFromIR(client, NormaliseFinish(upstream, reason), streaming)
    BY DEF Answer
<1>2. given \in Turn /\ given.calls \in Seq(Call) /\ Len(given.calls) = Len(offer)
      /\ offer \in Seq(Functions)
    BY <1>0, <1>1, OfferTyped, OffersAreLists DEF Turn
<1>3. told \in Turn /\ told.calls \in Seq(Call)
    BY <1>0, <1>2, AnswerTyped DEF Turn
<1>4. history'[Len(history')] = told
    BY <1>0, <1>1, <1>3
<1>5. /\ told.texts = given.texts
      /\ \/ streaming /\ ~asIs /\ told.calls = <<>>
         \/ /\ ~streaming \/ asIs
            /\ Len(told.calls) = Len(given.calls)
            /\ \A l \in DOMAIN told.calls : /\ told.calls[l].name = given.calls[l].name
                                            /\ told.calls[l].args = given.calls[l].args
            /\ {upstream, client} \subseteq {"openai", "anthropic"} =>
                  told.calls = given.calls
    BY <1>0, <1>1, Told
<1> HIDE DEF told, given
<1>6. \/ ToUpper(Tells(client, finish', told.calls))
            = ToUpper(Tells(upstream, reason, given.calls))
      \/ given.calls # <<>> /\ (streaming \/ upstream = "gemini")
    <2>1. CASE given.calls = <<>>
        <3>1. offer = <<>> /\ told.calls = <<>>
            <4>1. Len(offer) = 0 /\ Len(told.calls) = 0
                BY <1>2, <1>3, <1>5, <2>1
            <4> QED
                BY <1>2, <1>3, <4>1
        <3>2. reason \in Finishes(upstream, FALSE)
            BY <3>1
        <3>3. /\ Tells(client, finish', told.calls) = NormaliseFinish(client, finish')
              /\ Tells(upstream, reason, given.calls) = NormaliseFinish(upstream, reason)
            BY <2>1, <3>1 DEF Tells
        <3>4. CASE upstream = client /\ (streaming => client = "openai")
            BY <1>1, <3>3, <3>4
        <3>5. CASE ~(upstream = client /\ (streaming => client = "openai"))
            <4>1. finish' = FinishFromIR(client, NormaliseFinish(upstream, reason), streaming)
                BY <1>1, <3>5
            <4> QED
                <5>1. NormaliseFinish(upstream, reason)
                          \in {"stop", "length", "content_filter"} \cup Foreign
                    BY <1>0, <3>2, FinishWithoutCalls
                <5> DEFINE ir == NormaliseFinish(upstream, reason)
                <5> HIDE DEF ir
                <5>2. ToUpper(NormaliseFinish(client, FinishFromIR(client, ir, streaming)))
                          = ToUpper(ir)
                    BY <1>0, <5>1, FinishRoundTrip DEF ir
                <5> QED
                    BY <3>3, <4>1, <5>2 DEF ir
        <3> QED
            BY <3>4, <3>5
    <2>2. CASE given.calls # <<>> /\ ~streaming /\ upstream # "gemini"
        <3>1. offer # <<>> /\ told.calls # <<>>
            BY <1>2, <1>3, <1>5, <2>2
        <3>2. reason \in Finishes(upstream, TRUE) /\ upstream \in {"openai", "anthropic"}
            BY <1>0, <2>2, <3>1, KindCases
        <3>3. /\ NormaliseFinish(upstream, reason) = "tool_calls"
              /\ Tells(client, FinishFromIR(client, "tool_calls", FALSE), told.calls)
                    = "tool_calls"
            BY <1>0, <3>1, <3>2, FinishWithCalls, CallsTold
        <3>4. Tells(upstream, reason, given.calls) = "tool_calls"
            BY <2>2, <3>3 DEF Tells
        <3>5. CASE upstream = client
            BY <1>1, <2>2, <3>3, <3>4, <3>5 DEF Tells
        <3>6. CASE upstream # client
            <4>1. streaming = FALSE
                BY <1>0, <2>2
            <4>2. finish' = FinishFromIR(client, "tool_calls", FALSE)
                BY <1>1, <3>3, <3>6, <4>1
            <4> QED
                BY <3>3, <3>4, <4>2
        <3> QED
            BY <3>5, <3>6
    <2> QED
        BY <2>1, <2>2
<1>7. \/ streaming /\ ~asIs /\ told.calls = <<>>
      \/ /\ ~streaming \/ asIs
         /\ SameCalls(told.calls, given.calls)
         /\ {client, upstream} \subseteq {"openai", "anthropic"} => told.calls = given.calls
    BY <1>5 DEF SameCalls
<1> QED
    BY <1>1, <1>4, <1>5, <1>6, <1>7 DEF AnswerKept, given

(***************************************************************************)
(* AnswerKept: whatever the protocols and the answer.                      *)
(***************************************************************************)
THEOREM AnswersAreKept == Spec => []AnswerKept
<1>1. Init => AnswerKept
    BY DEF Init, AnswerKept
<1>2. ASSUME Inv, AnswerKept, [Next]_vars PROVE AnswerKept'
    <2>1. ASSUME pc' # "client" PROVE AnswerKept'
        BY <2>1 DEF AnswerKept
    <2>2. ASSUME UNCHANGED <<client, history, pc, served, got>> PROVE AnswerKept'
        BY <1>2, <2>2 DEF AnswerKept, served, got
    <2>3. ASSUME NEW attached \in Questions[client], Ask(attached) PROVE pc' # "client"
        BY <2>3 DEF Ask, Say
    <2>4. ASSUME NEW comment \in BOOLEAN, NEW shown \in SUBSET {"result_image"},
           Reply(comment, shown) PROVE pc' # "client"
        BY <2>4 DEF Reply, Say
    <2>5. ASSUME NEW want \in Wants, Refused(want) PROVE pc' # "client"
        BY <2>5 DEF Refused
    <2>6. ASSUME NEW want \in Wants, NEW c \in Choices[client], NEW stream \in BOOLEAN,
                 Forward(want, c, stream)
          PROVE  pc' # "client"
        BY <2>6 DEF Forward
    <2>7. Failed => pc' # "client"
        BY DEF Failed
    <2>8. ASSUME NEW c \in Configs, Install(c) PROVE AnswerKept'
        BY <2>2, <2>8 DEF Install
    <2>9. UNCHANGED vars => AnswerKept'
        BY <2>2 DEF vars
    <2> QED
        BY <1>2, <2>1, <2>3, <2>4, <2>5, <2>6, <2>7, <2>8, <2>9, AnswerGiven DEF Next
<1> QED
    BY <1>1, <1>2, InvAlways, PTL DEF Spec
=============================================================================
