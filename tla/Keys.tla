-------------------------------- MODULE Keys --------------------------------
(* What a call is taken to ask: the request builders of the adapters         *)
(* (src/llmtivo/intercept.py, litellm.py, langchain.py) and the fingerprint  *)
(* of a request (keys.py).  The digest is taken to be injective, so that a   *)
(* fingerprint is the material it digests; dictionaries are functions and    *)
(* have no order of keys.                                                    *)
EXTENDS Naturals, Sequences, FiniteSets

CONSTANT None   \* Python's None, or no such key

-----------------------------------------------------------------------------
(* Calls.  A text says something, laid out tidily, with runs of spaces, or   *)
(* over several lines.  The content of a message is one text, or a list of   *)
(* blocks with a text each.  A prompt is a sequence of messages; one that is *)
(* a string is a single message by "user".  A LangChain model also takes the *)
(* PromptValue that a prompt template makes, of messages or of one text.     *)
(*                                                                           *)
(* A chat call hands over its prompt as the first argument, as the second    *)
(* after the model, or under a keyword, and may then name a model.  A tool   *)
(* call hands over the arguments the model chose, and with them what the      *)
(* framework injects; an embedding call, texts.                              *)

Builders == {"default", "langchain", "litellm", "tool", "embedding"}

Ways == {"first", "second", "messages", "input"}

Forms == {"plain", "ChatPromptValue", "StringPromptValue"}

NoCall == [builder |-> "default", entry |-> "invoke", on |-> None, model |-> None, way |-> "first",
           form |-> "plain", prompt |-> <<>>, tools |-> <<>>, temperature |-> None,
           tool |-> None, arguments |-> <<>>, injected |-> <<>>, texts |-> None]

-----------------------------------------------------------------------------
(* Request builders: what reaches the fingerprint *)

NoRequest == [model |-> None, form |-> "plain", messages |-> <<>>, tools |-> <<>>, temperature |-> None,
              tool |-> None, arguments |-> <<>>, texts |-> None]

\* A model given as the first argument is read as the prompt.
Misread(name) ==
    <<[role |-> "user",
       content |-> [blocks |-> FALSE, texts |-> <<[says |-> name, layout |-> "tidy"]>>]]>>

FirstArgument(call) ==
    IF call.way = "first" THEN call.prompt ELSE Misread(call.model)

Positional(call) == call.way \in {"first", "second"}

\* The client or its class keeps the model's name, unless a keyword says it.
Named(call) == IF call.way # "second" /\ call.model # None THEN call.model ELSE call.on

DefaultRequest(call) ==
    [NoRequest EXCEPT
        !.model = Named(call), !.tools = call.tools, !.temperature = call.temperature,
        !.messages = IF Positional(call) THEN FirstArgument(call) ELSE call.prompt]

LangchainRequest(call) ==
    [NoRequest EXCEPT
        !.model = call.on, !.tools = call.tools,
        !.form = IF call.way = "first" THEN call.form ELSE "plain",
        !.messages = IF Positional(call) THEN FirstArgument(call) ELSE <<>>]

LitellmRequest(call) ==
    [NoRequest EXCEPT
        !.model = Named(call), !.tools = call.tools,
        !.messages = CASE call.way = "messages" -> call.prompt
                       [] call.way = "input"    -> <<>>
                       [] OTHER                 -> FirstArgument(call)]

\* Parameters that the framework injects beside the model's own arguments.
Injected == {"runtime", "config", "callbacks", "run_manager", "state", "store",
             "tool_call_id"}

AskedAll(arguments) == arguments

Asked(arguments) == [k \in DOMAIN arguments \ Injected |-> arguments[k]]

\* What a tool is called with, the framework's parameters among the model's.
Passed(call) ==
    [k \in DOMAIN call.arguments \cup DOMAIN call.injected |->
        IF k \in DOMAIN call.arguments THEN call.arguments[k] ELSE call.injected[k]]

ToolRequest(call) ==
    [NoRequest EXCEPT !.tool = call.tool, !.arguments = Asked(Passed(call))]

EmbeddingRequest(call) ==
    [NoRequest EXCEPT !.model = call.on, !.texts = call.texts]

Request(call) ==
    CASE call.builder = "default"   -> DefaultRequest(call)
      [] call.builder = "langchain" -> LangchainRequest(call)
      [] call.builder = "litellm"   -> LitellmRequest(call)
      [] call.builder = "tool"      -> ToolRequest(call)
      [] call.builder = "embedding" -> EmbeddingRequest(call)

-----------------------------------------------------------------------------
(* The fingerprint *)

\* White space of any kind is one space.
Normalize(text) == [text EXCEPT !.layout = "tidy"]

\* In the JSON of a block a line break is an escape, no longer white space.
NormalizeJson(text) ==
    IF text.layout = "spaced" THEN [text EXCEPT !.layout = "tidy"] ELSE text

ContentOf(content) ==
    [content EXCEPT !.texts = [i \in DOMAIN content.texts |->
        IF content.blocks THEN NormalizeJson(content.texts[i])
                          ELSE Normalize(content.texts[i])]]

Escaped(content) ==
    [content EXCEPT !.texts = [i \in DOMAIN content.texts |-> NormalizeJson(content.texts[i])]]

\* To iterate over a PromptValue gives its fields, pairs of a name and a value:
\* what is taken for a message is such a pair, which has no role, and its content
\* is JSON in which a message is a string without its role.
FieldsOf(request) ==
    <<[role |-> "tuple",
       content |-> [type |-> request.form,
                    parts |-> [i \in DOMAIN request.messages |->
                                  Escaped(request.messages[i].content)]]]>>

MessagesOf(request) ==
    IF request.form # "plain" THEN FieldsOf(request)
    ELSE [i \in DOMAIN request.messages |->
             [request.messages[i] EXCEPT !.content = ContentOf(@)]]

\* Once sorted, a list of names tells which there are and how often each.
ToolNames(request) ==
    [name \in {request.tools[i] : i \in DOMAIN request.tools} |->
        Cardinality({i \in DOMAIN request.tools : request.tools[i] = name})]

FingerprintWithoutArguments(request) ==
    [model |-> request.model, messages |-> MessagesOf(request),
     tools |-> ToolNames(request), texts |-> request.texts,
     tool |-> request.tool, arguments |-> <<>>]

\* The texts of an embedding are the question as they are.
Fingerprint(request) ==
    [model |-> request.model, messages |-> MessagesOf(request),
     tools |-> ToolNames(request), texts |-> request.texts,
     tool |-> request.tool, arguments |-> request.arguments]

=============================================================================
