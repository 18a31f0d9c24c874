----------------------------- MODULE MCExchange -----------------------------
(* Calls that differ from a plain one in a few respects each, and values of  *)
(* each kind nested in each other.                                           *)
EXTENDS Replies

CONSTANTS m1, m2, hi, bye, s, t, warm

\* Strings of the program that nothing orders.
Texts == [says : {hi, bye}, layout : {"tidy", "spaced", "wrapped"}]

Messages == {[role |-> role, content |-> [blocks |-> blocks, texts |-> <<text>>]] :
                role \in {"user", "human"}, blocks \in BOOLEAN, text \in Texts}

Tidy(role, word) == [role |-> role, content |-> [blocks |-> FALSE,
                        texts |-> <<[says |-> word, layout |-> "tidy"]>>]]

Prompts == {<<message>> : message \in Messages}
           \cup {<<Tidy("system", hi), Tidy("user", word)>> : word \in {hi, bye}}

Plainly == [NoCall EXCEPT !.on = m1, !.prompt = <<Tidy("user", hi)>>]

ToolSets == {<<>>, <<s>>, <<s, t>>, <<t, s>>}

Worded == {[Plainly EXCEPT !.prompt = p] : p \in Prompts}

Optioned == {[Plainly EXCEPT !.way = way, !.model = model, !.tools = tools, !.temperature = temp] :
                way \in {"first", "messages", "input"}, model \in {None, m1, m2},
                tools \in ToolSets, temp \in {None, warm}}

OnLangchain == {[Plainly EXCEPT !.builder = "langchain", !.entry = entry, !.on = on,
                                !.prompt = <<Tidy(role, hi)>>, !.tools = tools] :
                   entry \in {"invoke", "stream"}, on \in {m1, m2},
                   role \in {"user", "human"}, tools \in {<<>>, <<t, s>>}}

OnLitellm == {[Plainly EXCEPT !.builder = "litellm", !.on = None, !.model = model,
                              !.way = "messages", !.prompt = <<Tidy("user", word)>>] :
                 model \in {m1, m2}, word \in {hi, bye}}
             \cup {[Plainly EXCEPT !.builder = "litellm", !.on = on] : on \in {m1, m2}}

Arguments == {[path |-> w] : w \in {hi, bye}} \cup {[path |-> hi, limit |-> bye]}

ToTools == {[NoCall EXCEPT !.builder = "tool", !.tool = tool, !.arguments = arguments,
                           !.injected = injected] :
               tool \in {s, t}, arguments \in Arguments,
               injected \in {<<>>} \cup {[runtime |-> w] : w \in {hi, bye}}}

ToEmbeddings == {[NoCall EXCEPT !.builder = "embedding", !.entry = entry, !.on = on,
                                !.texts = <<word>>] :
                    entry \in {"embed_query", "embed_documents"},
                    on \in {m1, m2}, word \in {hi, bye}}

\* What a prompt template makes: words, layout, blocks and, of messages, roles vary.
FromTemplates ==
    LET On(form, message) == [Plainly EXCEPT !.builder = "langchain", !.form = form,
                                             !.prompt = <<message>>]
    IN  {On("ChatPromptValue", [message EXCEPT !.role = role]) :
            message \in Messages, role \in {"system", "user"}}
        \cup {On("StringPromptValue", message) :
                 message \in {n \in Messages : n.role = "user" /\ ~n.content.blocks}}

MCCalls == Worded \cup Optioned \cup OnLangchain \cup FromTemplates
           \cup OnLitellm \cup ToTools \cup ToEmbeddings

ASSUME ReadableAssumption == \A call \in MCCalls : Readable(call)

\* Calls of entry points in forms that their request builders do not read.
MCLookalikes == {[Plainly EXCEPT !.builder = "litellm", !.on = None, !.model = m1,
                                 !.way = way, !.prompt = <<Tidy("user", word)>>] :
                    way \in {"input", "messages"}, word \in {hi, bye}}

-----------------------------------------------------------------------------

Atoms == {NoneValue, Value("atom", "", <<>>)}

Objects == {Value("message", "AIMessage", <<Value("atom", "", <<>>)>>),
            Value("message", "Answer", <<Value("atom", "", <<>>)>>),
            Value("object", "Send", <<>>)}

Command(update, goto, graph, resume) ==
    Value("command", "Command", <<update, goto, graph, resume>>)

Containers(values) ==
    {Value(kind, "", parts) : kind \in {"list", "tuple", "dict"},
                              parts \in {<<>>} \cup {<<v>> : v \in values}}

Flat == Atoms \cup Objects \cup Containers(Atoms \cup Objects)

NoGoto == Value("tuple", "", <<>>)

Commands == {Command(update, goto, NoneValue, NoneValue) : update, goto \in Flat}
            \cup {Command(NoneValue, NoGoto, graph, resume) : graph \in Atoms, resume \in Flat}

Nested == Containers({Command(v, goto, NoneValue, NoneValue) : v \in Atoms \cup Objects,
                                                               goto \in Atoms})

Values == Flat \cup Containers(Flat) \cup Commands \cup Nested
          \cup {Command(update, NoGoto, NoneValue, NoneValue) : update \in Containers(Flat) \cup Nested}

Chunks == {Value("list", "", <<v, w>>) : v \in Flat, w \in Objects}

MCAnswers ==
    [call \in MCCalls \cup MCLookalikes |->
        CASE call = [NoCall EXCEPT !.builder = "tool", !.tool = s, !.arguments = [path |-> hi]] -> Values
          [] call.entry = "stream" /\ call.on = m1 -> Chunks
          [] call.entry = "stream"                 -> {Value("list", "", <<>>)}
          [] call.builder = "default"              -> {NoneValue}
          [] OTHER                                 -> {NoneValue} \cup Objects]

=============================================================================
