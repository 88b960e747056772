---------------------------- MODULE ModelClient ----------------------------
(***************************************************************************)
(* One call of a provider over HTTP: DeepSeekClient::chat and stream_chat  *)
(* (src/client/mod.rs) and OpenAiEmbedder::embed_texts                     *)
(* (src/retrieval/openai.rs).  All three check the request, send it and    *)
(* wait for the head of the response under tokio's timeout; the body is    *)
(* read without one, or left to the ChatStream.  What a body says is told  *)
(* apart by what the caller gets: an answer or an error.  The calls share  *)
(* nothing but a configuration that does not change, so one call stands    *)
(* for any number of them.  The order of the embeddings, which the call    *)
(* sorts, is left to MemoryKnowledge and PgKnowledge, which take any.      *)
(***************************************************************************)
VARIABLES
  beta,      \* DeepSeekConfig::base_url ends in /beta
  call       \* the call: its kind, where it is, the status of the response

clientVars == <<beta, call>>

Kinds == {"chat", "stream", "embed"}

(* at: not made, awaiting the head of the response, awaiting its body, or  *)
(* what it came back with: a ChatStream, an answer, an error.              *)
NoCall == [kind |-> "none", at |-> "idle", success |-> FALSE]

Init == beta \in BOOLEAN /\ call = NoCall

Awaits(phase) == call.at = phase
Goes(phase) == call' = [call EXCEPT !.at = phase] /\ UNCHANGED beta

(* prepare_request with validate_beta_requirements, and validate_texts:    *)
(* EmptyMessages, StrictToolsRequireBetaBaseUrl, EmptyEmbeddingInput or a  *)
(* text that is blank.                                                     *)
Refused(kind, empty, strict) == empty \/ (kind # "embed" /\ strict /\ ~beta)

(* The request is checked and sent; a refused one is not sent.  An ask     *)
(* that has an answer may call again.                                      *)
Call(kind, empty, strict) ==
  /\ Awaits("idle") \/ Awaits("answered")
  /\ call' = [NoCall EXCEPT !.kind = kind,
                            !.at = IF Refused(kind, empty, strict) THEN "failed" ELSE "sent"]
  /\ UNCHANGED beta

(* send: the head of the response arrives. *)
Head(success) ==
  /\ Awaits("sent")
  /\ call' = [call EXCEPT !.success = success,
                          !.at = IF call.kind = "stream" /\ success THEN "open" ELSE "body"]
  /\ UNCHANGED beta

(* send: Timeout, OpenAiTimeout. *)
TimesOut == Awaits("sent") /\ Goes("failed")

(* The connection breaks before or in the body. *)
Breaks == (Awaits("sent") \/ Awaits("body")) /\ Goes("failed")

(* The body has arrived: with an error status it is the text of an Api     *)
(* error; it may not decode; a response without embeddings, or with an     *)
(* empty one, is an EmbeddingFailure.                                      *)
Body ==
  /\ Awaits("body")
  /\ Goes("failed") \/ (call.success /\ Goes("answered"))

(* The future of the call is dropped while it waits. *)
Drop == (Awaits("sent") \/ Awaits("body")) /\ Goes("dropped")

Returned == call.at \in {"open", "answered", "failed", "dropped"}

(* The caller has taken what the call came back with. *)
Done == Returned /\ call' = NoCall /\ UNCHANGED beta

Next ==
  \/ \E kind \in Kinds, empty, strict \in BOOLEAN : Call(kind, empty, strict)
  \/ \E success \in BOOLEAN : Head(success)
  \/ TimesOut \/ Breaks \/ Body \/ Drop \/ Done

Spec == Init /\ [][Next]_clientVars
=============================================================================
