------------------------------ MODULE Provider ------------------------------
(***************************************************************************)
(* The LLM call: create_provider (ai/factory.py), one POST without retry   *)
(* (ai/http.py, ai/shared.py) and the two decoders of the vendors'         *)
(* envelopes (ai/openai_compat.py, ai/gemini.py).  Whatever fails on the   *)
(* way raises, and the planner answers every exception with HOLD, so the   *)
(* module says when an answer gets through.                                *)
(***************************************************************************)
EXTENDS Planner

(* What came back, layer by layer: the transport, the HTTP status, the     *)
(* body as JSON, an error in the envelope (an object or any other value),  *)
(* the finish reason, the message content, the token usage, and the        *)
(* content parsed as JSON.                                                 *)
Reply ==
    [transport : {"answered", "timeout", "http_error", "unreachable", "cut_off"},
     status : Nat, body : {"object", "other_json", "no_json"},
     error : {"none", "object", "other"}, finish : {"complete", "length", "filtered"},
     content : {"text", "parts", "blank", "null", "missing"},
     usage : {"numbers", "absent", "infinite"},
     json : {"object", "other_json", "no_json"}, answer : LLMAnswer]

(* post_json: one POST and a 2xx body that is JSON.                        *)
Delivered(r) ==
    r.transport = "answered" /\ 200 <= r.status /\ r.status < 300 /\ r.body # "no_json"

(* The content the two decoders take for text: a string or a list of text  *)
(* parts in the OpenAI format, a list of parts in Gemini's.                *)
OpenAIText == {"text", "parts"}
GeminiText == {"parts"}
TextIn(vendor) == IF vendor = "gemini" THEN GeminiText ELSE OpenAIText

(* Mutant: the envelope's error object is not looked at.                   *)
MutGenerates(vendor, r) ==
    /\ Delivered(r) /\ r.body = "object"
    /\ r.content \in TextIn(vendor)
    /\ r.usage # "infinite"
    /\ r.json # "no_json"

(* generate() returns a response: delivered, an envelope without an error  *)
(* object, text in it, usage (int() of an infinite number raises) and      *)
(* parse_structured.  An error that is no object is passed over, and the   *)
(* finish reason is stored and not looked at.                              *)
Generates(vendor, r) ==
    /\ Delivered(r) /\ r.body = "object"
    /\ r.error # "object"
    /\ r.content \in TextIn(vendor)
    /\ r.usage # "infinite"
    /\ r.json # "no_json"

(* What LLMPlanner.plan validates: the answer if it is a JSON object.      *)
AnswerOf(vendor, r) ==
    IF Generates(vendor, r) /\ r.json = "object" THEN r.answer ELSE NoAnswer

(* create_provider succeeds: a known name, a model that is not blank, and  *)
(* a key where the vendor needs one.  A key of blanks passes for Gemini.   *)
ProviderOK(name, model, key) ==
    /\ name \in {"openai", "deepseek", "gemini", "ollama"}
    /\ model # "blank"
    /\ name \in {"openai", "deepseek"} => key = "set"
    /\ name = "gemini" => key \in {"set", "blank"}
=============================================================================
