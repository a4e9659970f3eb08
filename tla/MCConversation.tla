--------------------------- MODULE MCConversation ---------------------------
(***************************************************************************)
(* Instances of Conversation for TLC.                                      *)
(***************************************************************************)
EXTENDS Conversation

CONSTANTS f, g, h,      \* functions
          m             \* a model

Plain == [prefix |-> NoPrefix, model |-> m]

Vendor(name, host, enabled, keys) ==
    [name |-> name, host |-> host, enabled |-> enabled, keys |-> keys, models |-> {Plain}]

(***************************************************************************)
(* One provider of each protocol.  Then: Gemini by its host alone, Claude  *)
(* disabled, and Gemini by its name but without keys.                      *)
(***************************************************************************)
Names3 == {"claude", "vertex", "local"}
AllUp == <<Vendor("local", "elsewhere", TRUE, FALSE),
           Vendor("claude", "anthropic.com", TRUE, TRUE),
           [Vendor("vertex", "googleapis.com", TRUE, TRUE) EXCEPT !.models = {}]>>
Edited == <<Vendor("local", "googleapis.com", TRUE, TRUE),
            Vendor("claude", "anthropic.com", FALSE, TRUE),
            Vendor("vertex", "elsewhere", TRUE, FALSE)>>
TwoConfigs == {AllUp, Edited}

(***************************************************************************)
(* Answers without a call, with one, with two of one function, of two.     *)
(***************************************************************************)
FourOffers == {<<>>, <<f>>, <<f, f>>, <<g, f>>}

(***************************************************************************)
(* No attachment, or one of every kind.                                    *)
(***************************************************************************)
AllOrNone == [kind \in Kinds |-> {{}, CanAttach[kind]}]

(***************************************************************************)
(* Any; one function; Gemini's list of two.                                *)
(***************************************************************************)
SomeChoices ==
    [openai |-> {Choice("required", {}), Choice("function", {f})},
     anthropic |-> {Choice("none", {}), Choice("tool", {g})},
     gemini |-> {Choice("AUTO", {}), Choice("ANY", {f}), Choice("ANY", {f, g})}]
=============================================================================
