------------------------------ MODULE Exchange ------------------------------
(* One call that is recorded, and a later one that is replayed from it: what *)
(* the request builders, the fingerprint and the codecs do between a client  *)
(* and the tape (src/llmtivo/keys.py, langchain.py, litellm.py, cassette.py).*)
(* The recorder in between, with its ordinals and modes, is Recorder; here   *)
(* it replays strictly, at the place of the one interaction.  What becomes   *)
(* of an answer on the way to the tape and back is a matter of Replies.      *)
EXTENDS Keys

CONSTANTS Calls,              \* calls that the test may make
          Words,              \* what a text may say
          Answers,            \* what a live call may return
          Encoded(_, _, _),   \* what of an answer is put on the tape, by the
          Decoded(_, _, _)    \* builder and whether it streams, and comes back

ASSUME CallsAssumption ==
    \A call \in Calls :
        /\ call.builder \in Builders /\ call.way \in Ways /\ call.form \in Forms
        /\ call.form # "plain" => call.builder = "langchain"

VARIABLES stage,   \* empty, recorded, replayed or refused
          asked,   \* the call that was recorded
          answer,  \* what its client returned
          line,    \* the interaction on the tape
          again,   \* the later call
          reply    \* what it got

vars == <<stage, asked, answer, line, again, reply>>

NoLine == [fingerprint |-> Fingerprint(NoRequest), response |-> None]

TypeOK ==
    /\ stage \in {"empty", "recorded", "replayed", "refused"}
    /\ {asked, again} \subseteq Calls \cup {NoCall}
    /\ stage # "empty" => answer \in Answers[asked]
    /\ \A k \in DOMAIN line.fingerprint.arguments : k \notin Injected

Init ==
    /\ stage = "empty"
    /\ asked = NoCall /\ answer = None /\ line = NoLine
    /\ again = NoCall /\ reply = None

Streamed(call) == call.entry = "stream"

Record(call) ==
    /\ stage = "empty"
    /\ stage' = "recorded" /\ asked' = call
    /\ answer' \in Answers[call]
    /\ line' = [fingerprint |-> Fingerprint(Request(call)),
                response |-> Encoded(call.builder, Streamed(call), answer')]
    /\ UNCHANGED <<again, reply>>

Replay(call) ==
    /\ stage = "recorded"
    /\ Fingerprint(Request(call)) = line.fingerprint
    /\ stage' = "replayed" /\ again' = call
    /\ reply' = Decoded(call.builder, Streamed(call), line.response)
    /\ UNCHANGED <<asked, answer, line>>

Refuse(call) ==
    /\ stage = "recorded"
    /\ Fingerprint(Request(call)) # line.fingerprint
    /\ stage' = "refused" /\ again' = call
    /\ UNCHANGED <<asked, answer, line, reply>>

\* The test is recorded anew, from nothing.
Truncate ==
    /\ stage \in {"replayed", "refused"}
    /\ stage' = "empty" /\ asked' = NoCall /\ answer' = None
    /\ line' = NoLine /\ again' = NoCall /\ reply' = None

Next == (\E call \in Calls : Record(call) \/ Replay(call) \/ Refuse(call)) \/ Truncate

Spec == Init /\ [][Next]_vars

-----------------------------------------------------------------------------
(* Reference: the meaning of a call *)

Speaker(role) == IF role = "human" THEN "user" ELSE role

\* Who says what, in which words, however they are laid out and spelled.
Part(content) ==
    [blocks |-> content.blocks,
     words |-> [j \in DOMAIN content.texts |-> content.texts[j].says]]

Said(prompt) ==
    [i \in DOMAIN prompt |->
        [speaker |-> Speaker(prompt[i].role), part |-> Part(prompt[i].content)]]

Offered(tools) == {tools[i] : i \in DOMAIN tools}

Meaning(call) ==
    [model |-> IF call.model # None THEN call.model ELSE call.on,
     said |-> Said(call.prompt), tools |-> Offered(call.tools),
     tool |-> call.tool, arguments |-> call.arguments, texts |-> call.texts]

\* The same, but for who says it.
Unvoiced(call) ==
    [Meaning(call) EXCEPT !.said = [i \in DOMAIN call.prompt |-> Part(call.prompt[i].content)]]

Templated(call) == call.form # "plain"

SpeltAlike(c, d) ==
    \A i \in DOMAIN c.prompt : c.prompt[i].role = d.prompt[i].role

(* The forms in which an entry point is called that its builder reads.       *)

Text == [says : Words, layout : {"tidy", "spaced", "wrapped"}]

Content == [blocks : BOOLEAN, texts : Seq(Text)]

Message == [role : STRING, content : Content]

NoTool(call) == call.tool = None /\ call.arguments = <<>> /\ call.texts = None

NoPrompt(call) == call.prompt = <<>> /\ call.tools = <<>> /\ call.model = None

\* The model chooses arguments, the framework adds its own under other names.
Separate(call) ==
    /\ call.arguments = [k \in DOMAIN call.arguments |-> call.arguments[k]]
    /\ DOMAIN call.arguments \cap Injected = {} /\ DOMAIN call.injected \subseteq Injected

\* A prompt and a model where the builder looks for it, and no tool twice.
Readable(call) ==
    /\ call.prompt \in Seq(Message)
    /\ Templated(call) => call.builder = "langchain"
    /\ \A i, j \in DOMAIN call.tools : call.tools[i] = call.tools[j] => i = j
    /\ \/ call.builder = "default" /\ NoTool(call) /\ call.way # "second"
       \/ call.builder = "langchain" /\ NoTool(call) /\ call.way = "first" /\ call.model = None
       \/ call.builder = "litellm" /\ NoTool(call) /\ call.way \in {"first", "messages"}
       \/ /\ call.builder = "tool" /\ NoPrompt(call) /\ Separate(call)
          /\ call.on = None /\ call.texts = None
       \/ /\ call.builder = "embedding" /\ NoPrompt(call)
          /\ call.tool = None /\ call.arguments = <<>>

BrokenInJson(call) ==
    \E i \in DOMAIN call.prompt : LET content == call.prompt[i].content IN
        (content.blocks \/ Templated(call)) /\ \E j \in DOMAIN content.texts : content.texts[j].layout = "wrapped"

-----------------------------------------------------------------------------
(* Properties *)

\* A recorded answer is served only to a call that means what the recorded one
\* meant: the model, who said what, the tools on offer, the tool and the
\* arguments the model chose for it, the texts to embed (fingerprint and the
\* request builders); only of two prompts that are both made by a template the
\* roles may differ.  It holds of calls that are Readable.
AnswersTheQuestion ==
    stage = "replayed" =>
        \/ Meaning(again) = Meaning(asked)
        \/ Templated(again) /\ Templated(asked) /\ Unvoiced(again) = Unvoiced(asked)

\* A call that means the same is not refused, whatever its temperature, the
\* layout of its prompt, the order of its tools or what the framework injects:
\* unless a role is spelt differently, lines break inside a block of content or a
\* template, or only one of the prompts is a template's or they are of two kinds.
\* It holds of calls that are Readable.
NoNeedlessDrift ==
    stage = "refused" /\ Meaning(again) = Meaning(asked) =>
        \/ ~SpeltAlike(asked, again) \/ asked.form # again.form
        \/ BrokenInJson(asked) \/ BrokenInJson(again)

=============================================================================
