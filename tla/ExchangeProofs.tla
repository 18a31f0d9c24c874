-------------------------- MODULE ExchangeProofs --------------------------
(* Theorems about Exchange, for any calls in a form that their request       *)
(* builders read, of prompts and lists of tools of any length, and for any   *)
(* codec: what a fingerprint tells apart is what the calls mean.             *)
EXTENDS Exchange, FiniteSetTheorems, TLAPS

AllReadable == \A call \in Calls : Readable(call)

-----------------------------------------------------------------------------
(* The request builders *)

\* What the framework injects is taken out again of what a tool is called with.
LEMMA AskedIsGiven ==
    ASSUME NEW call, Separate(call)
    PROVE  Asked(Passed(call)) = call.arguments
<1>1. DOMAIN Passed(call) = DOMAIN call.arguments \cup DOMAIN call.injected
  BY DEF Passed
<1>2. DOMAIN Passed(call) \ Injected = DOMAIN call.arguments
  BY <1>1 DEF Separate
<1>3. \A k \in DOMAIN call.arguments : Passed(call)[k] = call.arguments[k]
  BY DEF Passed
<1>4. Asked(Passed(call)) = [k \in DOMAIN call.arguments |-> call.arguments[k]]
  BY <1>2, <1>3 DEF Asked
<1> QED BY <1>4 DEF Separate

\* A builder finds in a call it can read the whole of its meaning.
LEMMA RequestMeans ==
    ASSUME NEW call, Readable(call)
    PROVE  /\ Request(call).model = Meaning(call).model
           /\ Request(call).form = call.form
           /\ Request(call).messages = call.prompt
           /\ Request(call).tools = call.tools
           /\ Request(call).tool = call.tool
           /\ Request(call).arguments = call.arguments
           /\ Request(call).texts = call.texts
<1>0. call.form = "plain" \/ call.builder = "langchain"
  BY DEF Readable, Templated
<1>1. CASE call.builder = "default" /\ NoTool(call) /\ call.way # "second"
  BY <1>0, <1>1 DEF Request, DefaultRequest, NoRequest, NoTool, Positional, FirstArgument, Named, Meaning
<1>2. CASE call.builder = "langchain" /\ NoTool(call) /\ call.way = "first" /\ call.model = None
  BY <1>0, <1>2 DEF Request, LangchainRequest, NoRequest, NoTool, Positional, FirstArgument, Meaning
<1>3. CASE call.builder = "litellm" /\ NoTool(call) /\ call.way \in {"first", "messages"}
  BY <1>0, <1>3 DEF Request, LitellmRequest, NoRequest, NoTool, FirstArgument, Named, Meaning
<1>4. CASE call.builder = "tool" /\ NoPrompt(call) /\ Separate(call)
           /\ call.on = None /\ call.texts = None
  BY <1>0, <1>4, AskedIsGiven DEF Request, ToolRequest, NoRequest, NoPrompt, Meaning
<1>5. CASE call.builder = "embedding" /\ NoPrompt(call)
           /\ call.tool = None /\ call.arguments = <<>>
  BY <1>0, <1>5 DEF Request, EmbeddingRequest, NoRequest, NoPrompt, Meaning
<1> QED BY <1>1, <1>2, <1>3, <1>4, <1>5 DEF Readable

-----------------------------------------------------------------------------
(* The fingerprint *)

\* The names and their counts tell which tools are on offer.
LEMMA ToolsTell ==
    ASSUME NEW r, NEW q, ToolNames(r) = ToolNames(q)
    PROVE  Offered(r.tools) = Offered(q.tools)
<1>1. DOMAIN ToolNames(r) = Offered(r.tools) /\ DOMAIN ToolNames(q) = Offered(q.tools)
  BY DEF ToolNames, Offered
<1> QED BY <1>1

\* And nothing else, if no tool is offered twice.
LEMMA ToolsCount ==
    ASSUME NEW r, NEW q, Offered(r.tools) = Offered(q.tools),
           \A i, j \in DOMAIN r.tools : r.tools[i] = r.tools[j] => i = j,
           \A i, j \in DOMAIN q.tools : q.tools[i] = q.tools[j] => i = j
    PROVE  ToolNames(r) = ToolNames(q)
<1>1. ASSUME NEW x, \A i, j \in DOMAIN x.tools : x.tools[i] = x.tools[j] => i = j
      PROVE  ToolNames(x) = [name \in Offered(x.tools) |-> 1]
  <2>1. ASSUME NEW name \in Offered(x.tools)
        PROVE  Cardinality({i \in DOMAIN x.tools : x.tools[i] = name}) = 1
    <3>1. PICK i \in DOMAIN x.tools : x.tools[i] = name
      BY <2>1 DEF Offered
    <3>2. {j \in DOMAIN x.tools : x.tools[j] = name} = {i}
      BY <1>1, <3>1
    <3> QED BY <3>2, FS_Singleton
  <2> QED BY <2>1 DEF ToolNames, Offered
<1> QED BY <1>1

\* What is digested of a text says the same, and has no layout left but for
\* the line breaks in JSON.
LEMMA TextsDigested ==
    ASSUME NEW text \in Text
    PROVE  /\ Normalize(text) = [says |-> text.says, layout |-> "tidy"]
           /\ NormalizeJson(text).says = text.says
           /\ text.layout # "wrapped" => NormalizeJson(text) = [says |-> text.says, layout |-> "tidy"]
BY DEF Text, Normalize, NormalizeJson

\* What is digested of a message is its content's, part by part.
LEMMA ContentsDigested ==
    ASSUME NEW content \in Content
    PROVE  /\ ContentOf(content).blocks = content.blocks
           /\ ContentOf(content) = [blocks |-> content.blocks, texts |-> ContentOf(content).texts]
           /\ DOMAIN ContentOf(content).texts = DOMAIN content.texts
           /\ \A j \in DOMAIN content.texts :
                 /\ ContentOf(content).texts[j].says = content.texts[j].says
                 /\ ~content.blocks \/ content.texts[j].layout # "wrapped" =>
                       ContentOf(content).texts[j] = [says |-> content.texts[j].says,
                                                      layout |-> "tidy"]
           /\ ContentOf(content).texts =
                 [j \in DOMAIN content.texts |-> ContentOf(content).texts[j]]
<1>1. content.texts \in Seq(Text) /\ content = [blocks |-> content.blocks, texts |-> content.texts]
  BY DEF Content
<1> DEFINE texts == [j \in DOMAIN content.texts |->
                        IF content.blocks THEN NormalizeJson(content.texts[j])
                                          ELSE Normalize(content.texts[j])]
<1>2. ContentOf(content) = [blocks |-> content.blocks, texts |-> texts]
  <2>1. ContentOf(content) = [content EXCEPT !.texts = texts]
    BY Zenon DEF ContentOf
  <2>2. ASSUME NEW t PROVE [content EXCEPT !.texts = t] = [blocks |-> content.blocks, texts |-> t]
    BY <1>1
  <2> HIDE DEF texts
  <2> QED BY <2>1, <2>2
<1>3. ASSUME NEW j \in DOMAIN content.texts
      PROVE  /\ texts[j].says = content.texts[j].says
             /\ ~content.blocks \/ content.texts[j].layout # "wrapped" =>
                   texts[j] = [says |-> content.texts[j].says, layout |-> "tidy"]
  <2>1. content.texts[j] \in Text
    BY <1>1
  <2>2. texts[j] = IF content.blocks THEN NormalizeJson(content.texts[j])
                                     ELSE Normalize(content.texts[j])
    OBVIOUS
  <2> HIDE DEF texts
  <2>3. CASE content.blocks
    BY <2>1, <2>2, <2>3, TextsDigested
  <2>4. CASE ~content.blocks
    BY <2>1, <2>2, <2>4, TextsDigested
  <2> QED BY <2>3, <2>4
<1>4. DOMAIN texts = DOMAIN content.texts /\ texts = [j \in DOMAIN content.texts |-> texts[j]]
  OBVIOUS
<1> HIDE DEF texts
<1> QED BY <1>2, <1>3, <1>4

\* A message is digested role and content apart.
LEMMA MessagesDigested ==
    ASSUME NEW request, request.form = "plain", request.messages \in Seq(Message)
    PROVE  /\ MessagesOf(request) =
                 [i \in DOMAIN request.messages |->
                     [role |-> request.messages[i].role,
                      content |-> ContentOf(request.messages[i].content)]]
           /\ \A i \in DOMAIN request.messages : request.messages[i].content \in Content
<1>1. ASSUME NEW i \in DOMAIN request.messages
      PROVE  /\ request.messages[i].content \in Content
             /\ [request.messages[i] EXCEPT !.content = ContentOf(@)] =
                   [role |-> request.messages[i].role,
                    content |-> ContentOf(request.messages[i].content)]
  <2>1. request.messages[i] \in Message
    OBVIOUS
  <2> QED BY <2>1 DEF Message
<1> QED BY <1>1 DEF MessagesOf

\* In a template, all of it is JSON.
LEMMA EscapesDigested ==
    ASSUME NEW content \in Content
    PROVE  /\ Escaped(content).blocks = content.blocks
           /\ Escaped(content) = [blocks |-> content.blocks, texts |-> Escaped(content).texts]
           /\ DOMAIN Escaped(content).texts = DOMAIN content.texts
           /\ \A j \in DOMAIN content.texts :
                 /\ Escaped(content).texts[j].says = content.texts[j].says
                 /\ content.texts[j].layout # "wrapped" =>
                       Escaped(content).texts[j] = [says |-> content.texts[j].says,
                                                    layout |-> "tidy"]
           /\ Escaped(content).texts =
                 [j \in DOMAIN content.texts |-> Escaped(content).texts[j]]
<1>1. content.texts \in Seq(Text) /\ content = [blocks |-> content.blocks, texts |-> content.texts]
  BY DEF Content
<1> DEFINE texts == [j \in DOMAIN content.texts |-> NormalizeJson(content.texts[j])]
<1>2. Escaped(content) = [blocks |-> content.blocks, texts |-> texts]
  BY <1>1 DEF Escaped
<1>3. ASSUME NEW j \in DOMAIN content.texts
      PROVE  /\ texts[j].says = content.texts[j].says
             /\ content.texts[j].layout # "wrapped" =>
                   texts[j] = [says |-> content.texts[j].says, layout |-> "tidy"]
  <2>1. content.texts[j] \in Text
    BY <1>1
  <2>2. texts[j] = NormalizeJson(content.texts[j])
    OBVIOUS
  <2> HIDE DEF texts
  <2> QED BY <2>1, <2>2, TextsDigested
<1>4. DOMAIN texts = DOMAIN content.texts /\ texts = [j \in DOMAIN content.texts |-> texts[j]]
  OBVIOUS
<1> HIDE DEF texts
<1> QED BY <1>2, <1>3, <1>4

\* Contents that are digested alike have the same words in the same parts.
LEMMA ContentsTell ==
    ASSUME NEW c \in Content, NEW d \in Content,
           ContentOf(c) = ContentOf(d) \/ Escaped(c) = Escaped(d)
    PROVE  Part(c) = Part(d)
<1>1. c.blocks = d.blocks /\ DOMAIN c.texts = DOMAIN d.texts
  <2>1. CASE ContentOf(c) = ContentOf(d)
    BY <2>1, ContentsDigested
  <2>2. CASE Escaped(c) = Escaped(d)
    BY <2>2, EscapesDigested
  <2> QED BY <2>1, <2>2
<1>2. ASSUME NEW j \in DOMAIN c.texts PROVE c.texts[j].says = d.texts[j].says
  <2>1. CASE ContentOf(c) = ContentOf(d)
    <3>1. /\ ContentOf(c).texts[j].says = c.texts[j].says
          /\ ContentOf(d).texts[j].says = d.texts[j].says
      BY <1>1, ContentsDigested
    <3> QED BY <2>1, <3>1
  <2>2. CASE Escaped(c) = Escaped(d)
    <3>1. /\ Escaped(c).texts[j].says = c.texts[j].says
          /\ Escaped(d).texts[j].says = d.texts[j].says
      BY <1>1, EscapesDigested
    <3> QED BY <2>2, <3>1
  <2> QED BY <2>1, <2>2
<1> QED BY <1>1, <1>2 DEF Part

\* Which these are, and what each says, can be told from a part.
LEMMA PartsTell ==
    ASSUME NEW c, NEW d, Part(c) = Part(d)
    PROVE  /\ c.blocks = d.blocks
           /\ DOMAIN c.texts = DOMAIN d.texts
           /\ \A j \in DOMAIN c.texts : c.texts[j].says = d.texts[j].says
<1> DEFINE f == [j \in DOMAIN c.texts |-> c.texts[j].says]
           g == [j \in DOMAIN d.texts |-> d.texts[j].says]
<1>1. c.blocks = d.blocks /\ f = g
  BY DEF Part
<1>2. DOMAIN f = DOMAIN c.texts /\ DOMAIN g = DOMAIN d.texts
  OBVIOUS
<1>3. /\ \A j \in DOMAIN c.texts : f[j] = c.texts[j].says
      /\ \A j \in DOMAIN d.texts : g[j] = d.texts[j].says
  OBVIOUS
<1> HIDE DEF f, g
<1> QED BY <1>1, <1>2, <1>3

Unbroken(content) == \A j \in DOMAIN content.texts : content.texts[j].layout # "wrapped"

\* And contents of the same words in the same parts are digested alike, unless
\* lines break inside of a block.
LEMMA ContentsMerge ==
    ASSUME NEW c \in Content, NEW d \in Content, Part(c) = Part(d),
           c.blocks => Unbroken(c), d.blocks => Unbroken(d)
    PROVE  ContentOf(c) = ContentOf(d)
<1>1. ASSUME NEW j \in DOMAIN c.texts PROVE ContentOf(c).texts[j] = ContentOf(d).texts[j]
  <2>1. j \in DOMAIN d.texts /\ c.texts[j].says = d.texts[j].says
    BY PartsTell
  <2>2. ContentOf(c).texts[j] = [says |-> c.texts[j].says, layout |-> "tidy"]
    BY ContentsDigested DEF Unbroken
  <2>3. ContentOf(d).texts[j] = [says |-> d.texts[j].says, layout |-> "tidy"]
    BY <2>1, ContentsDigested DEF Unbroken
  <2> QED BY <2>1, <2>2, <2>3
<1>2. ContentOf(c).texts = ContentOf(d).texts
  BY <1>1, PartsTell, ContentsDigested
<1>3. /\ ContentOf(c) = [blocks |-> c.blocks, texts |-> ContentOf(c).texts]
      /\ ContentOf(d) = [blocks |-> d.blocks, texts |-> ContentOf(d).texts]
  BY ContentsDigested
<1> QED BY <1>2, <1>3, PartsTell

\* Or, in a template, anywhere.
LEMMA EscapesMerge ==
    ASSUME NEW c \in Content, NEW d \in Content, Part(c) = Part(d), Unbroken(c), Unbroken(d)
    PROVE  Escaped(c) = Escaped(d)
<1>1. ASSUME NEW j \in DOMAIN c.texts PROVE Escaped(c).texts[j] = Escaped(d).texts[j]
  <2>1. j \in DOMAIN d.texts /\ c.texts[j].says = d.texts[j].says
    BY PartsTell
  <2>2. Escaped(c).texts[j] = [says |-> c.texts[j].says, layout |-> "tidy"]
    BY EscapesDigested DEF Unbroken
  <2>3. Escaped(d).texts[j] = [says |-> d.texts[j].says, layout |-> "tidy"]
    BY <2>1, EscapesDigested DEF Unbroken
  <2> QED BY <2>1, <2>2, <2>3
<1>2. Escaped(c).texts = Escaped(d).texts
  BY <1>1, PartsTell, EscapesDigested
<1>3. /\ Escaped(c) = [blocks |-> c.blocks, texts |-> Escaped(c).texts]
      /\ Escaped(d) = [blocks |-> d.blocks, texts |-> Escaped(d).texts]
  BY EscapesDigested
<1> QED BY <1>2, <1>3, PartsTell

-----------------------------------------------------------------------------
(* Prompts, of messages and from templates *)

\* What is digested of a template: its kind, and the contents of its messages.
Fields(form, parts) == <<[role |-> "tuple", content |-> [type |-> form, parts |-> parts]]>>

LEMMA TemplatesDigested ==
    ASSUME NEW request, request.form # "plain"
    PROVE  MessagesOf(request) =
               Fields(request.form, [i \in DOMAIN request.messages |->
                                        Escaped(request.messages[i].content)])
BY DEF MessagesOf, FieldsOf, Fields

LEMMA FieldsTell ==
    ASSUME NEW f, NEW p, NEW g, NEW q, Fields(f, p) = Fields(g, q)
    PROVE  f = g /\ p = q
<1>1. Fields(f, p)[1].content = Fields(g, q)[1].content
  OBVIOUS
<1>2. [type |-> f, parts |-> p] = [type |-> g, parts |-> q]
  BY <1>1 DEF Fields
<1> QED BY <1>2

\* No list of messages is digested like a template.
LEMMA FormsTell ==
    ASSUME NEW r, NEW q, r.form = "plain", r.messages \in Seq(Message), q.form # "plain"
    PROVE  MessagesOf(r) # MessagesOf(q)
<1> DEFINE p == [i \in DOMAIN q.messages |-> Escaped(q.messages[i].content)]
<1> SUFFICES ASSUME MessagesOf(r) = MessagesOf(q) PROVE FALSE
  OBVIOUS
<1>1. MessagesOf(q) = Fields(q.form, p)
  BY TemplatesDigested
<1> HIDE DEF p
<1>2. /\ DOMAIN MessagesOf(q) = {1}
      /\ MessagesOf(q)[1].content = [type |-> q.form, parts |-> p]
  BY <1>1 DEF Fields
<1>3. 1 \in DOMAIN r.messages /\ r.messages[1].content \in Content
  BY <1>2, MessagesDigested
<1>4. MessagesOf(r)[1].content = ContentOf(r.messages[1].content)
  BY <1>3, MessagesDigested
<1>5. DOMAIN ContentOf(r.messages[1].content) = {"blocks", "texts"}
  <2>1. PICK texts : ContentOf(r.messages[1].content) = [blocks |-> r.messages[1].content.blocks, texts |-> texts]
    BY <1>3, ContentsDigested
  <2> QED BY <2>1
<1>6. DOMAIN [type |-> q.form, parts |-> p] = {"type", "parts"}
  OBVIOUS
<1> QED BY <1>2, <1>4, <1>5, <1>6

\* Lists of messages that are digested alike are said by the same, in the same words.
LEMMA PromptsTell ==
    ASSUME NEW r, NEW q, r.form = "plain", q.form = "plain",
           r.messages \in Seq(Message), q.messages \in Seq(Message),
           MessagesOf(r) = MessagesOf(q)
    PROVE  Said(r.messages) = Said(q.messages)
<1>1. /\ MessagesOf(r) = [i \in DOMAIN r.messages |->
             [role |-> r.messages[i].role, content |-> ContentOf(r.messages[i].content)]]
      /\ MessagesOf(q) = [i \in DOMAIN q.messages |->
             [role |-> q.messages[i].role, content |-> ContentOf(q.messages[i].content)]]
      /\ \A i \in DOMAIN r.messages : r.messages[i].content \in Content
      /\ \A i \in DOMAIN q.messages : q.messages[i].content \in Content
  BY MessagesDigested
<1>2. DOMAIN r.messages = DOMAIN q.messages
  BY <1>1
<1>3. ASSUME NEW i \in DOMAIN r.messages
      PROVE  /\ r.messages[i].role = q.messages[i].role
             /\ Part(r.messages[i].content) = Part(q.messages[i].content)
  <2>1. MessagesOf(r)[i] = [role |-> r.messages[i].role, content |-> ContentOf(r.messages[i].content)]
    BY <1>1
  <2>2. MessagesOf(q)[i] = [role |-> q.messages[i].role, content |-> ContentOf(q.messages[i].content)]
    BY <1>1, <1>2
  <2>3. /\ r.messages[i].role = q.messages[i].role
        /\ ContentOf(r.messages[i].content) = ContentOf(q.messages[i].content)
    BY <2>1, <2>2
  <2> QED BY <1>1, <1>2, <2>3, ContentsTell
<1> QED BY <1>2, <1>3 DEF Said

Parts(prompt) == [i \in DOMAIN prompt |-> Part(prompt[i].content)]

\* Templates that are digested alike have the same words in the same messages.
LEMMA TemplatesTell ==
    ASSUME NEW r, NEW q, r.form # "plain", q.form # "plain",
           r.messages \in Seq(Message), q.messages \in Seq(Message),
           MessagesOf(r) = MessagesOf(q)
    PROVE  Parts(r.messages) = Parts(q.messages)
<1> DEFINE f == [i \in DOMAIN r.messages |-> Escaped(r.messages[i].content)]
           g == [i \in DOMAIN q.messages |-> Escaped(q.messages[i].content)]
<1>1. f = g
  <2>1. MessagesOf(r) = Fields(r.form, f) /\ MessagesOf(q) = Fields(q.form, g)
    BY TemplatesDigested
  <2> HIDE DEF f, g
  <2>2. Fields(r.form, f) = Fields(q.form, g)
    BY <2>1
  <2>3. \A form, parts, other, more : Fields(form, parts) = Fields(other, more) => parts = more
    BY FieldsTell
  <2> QED BY <2>2, <2>3
<1>2. DOMAIN r.messages = DOMAIN q.messages
  BY <1>1
<1>3. ASSUME NEW i \in DOMAIN r.messages
      PROVE  Part(r.messages[i].content) = Part(q.messages[i].content)
  <2>1. r.messages[i] \in Message /\ q.messages[i] \in Message
    BY <1>2
  <2>2. r.messages[i].content \in Content /\ q.messages[i].content \in Content
    BY <2>1 DEF Message
  <2>3. f[i] = Escaped(r.messages[i].content) /\ g[i] = Escaped(q.messages[i].content)
    BY <1>2
  <2> HIDE DEF f, g
  <2>4. Escaped(r.messages[i].content) = Escaped(q.messages[i].content)
    BY <1>1, <2>3
  <2> QED BY <2>2, <2>4, ContentsTell
<1> QED BY <1>2, <1>3 DEF Parts

\* Prompts of one form, said alike by the same, are digested alike, unless lines
\* break where the digest takes note of it.
LEMMA PromptsMerge ==
    ASSUME NEW r, NEW q, r.form = q.form,
           r.messages \in Seq(Message), q.messages \in Seq(Message),
           Said(r.messages) = Said(q.messages),
           \A i \in DOMAIN r.messages : r.messages[i].role = q.messages[i].role,
           \A i \in DOMAIN r.messages :
               r.messages[i].content.blocks \/ r.form # "plain" => Unbroken(r.messages[i].content),
           \A i \in DOMAIN q.messages :
               q.messages[i].content.blocks \/ q.form # "plain" => Unbroken(q.messages[i].content)
    PROVE  MessagesOf(r) = MessagesOf(q)
<1>1. DOMAIN r.messages = DOMAIN q.messages
  BY DEF Said
<1>2. ASSUME NEW i \in DOMAIN r.messages
      PROVE  /\ r.messages[i].content \in Content /\ q.messages[i].content \in Content
             /\ Part(r.messages[i].content) = Part(q.messages[i].content)
  <2>1. r.messages[i] \in Message /\ q.messages[i] \in Message
    BY <1>1
  <2>2. Said(r.messages)[i].part = Said(q.messages)[i].part
    OBVIOUS
  <2>3. /\ Said(r.messages)[i].part = Part(r.messages[i].content)
        /\ Said(q.messages)[i].part = Part(q.messages[i].content)
    BY <1>1 DEF Said
  <2> QED BY <2>1, <2>2, <2>3 DEF Message
<1>3. CASE r.form = "plain"
  <2>1. \A i \in DOMAIN r.messages :
            ContentOf(r.messages[i].content) = ContentOf(q.messages[i].content)
    BY <1>1, <1>2, ContentsMerge
  <2>2. /\ MessagesOf(r) = [i \in DOMAIN r.messages |->
               [role |-> r.messages[i].role, content |-> ContentOf(r.messages[i].content)]]
        /\ MessagesOf(q) = [i \in DOMAIN q.messages |->
               [role |-> q.messages[i].role, content |-> ContentOf(q.messages[i].content)]]
    BY <1>3, MessagesDigested
  <2> QED BY <1>1, <2>1, <2>2
<1>4. CASE r.form # "plain"
  <2>1. \A i \in DOMAIN r.messages :
            Escaped(r.messages[i].content) = Escaped(q.messages[i].content)
    BY <1>1, <1>2, <1>4, EscapesMerge
  <2>2. [i \in DOMAIN r.messages |-> Escaped(r.messages[i].content)]
        = [i \in DOMAIN q.messages |-> Escaped(q.messages[i].content)]
    BY <1>1, <2>1
  <2> QED BY <1>4, <2>2, TemplatesDigested
<1> QED BY <1>3, <1>4

-----------------------------------------------------------------------------
(* Fingerprints and meanings *)

\* What a fingerprint is made of, for a call that its builder can read.
LEMMA FingerprintsMatch ==
    ASSUME NEW c, NEW d, Readable(c), Readable(d)
    PROVE  /\ Request(c).form = c.form /\ Request(d).form = d.form
           /\ Request(c).messages = c.prompt /\ Request(d).messages = d.prompt
           /\ c.prompt \in Seq(Message) /\ d.prompt \in Seq(Message)
           /\ Fingerprint(Request(c)) = Fingerprint(Request(d)) <=>
                  /\ MessagesOf(Request(c)) = MessagesOf(Request(d))
                  /\ Meaning(c).model = Meaning(d).model /\ Offered(c.tools) = Offered(d.tools)
                  /\ c.texts = d.texts /\ c.tool = d.tool /\ c.arguments = d.arguments
<1> DEFINE r == Request(c)
           q == Request(d)
<1>1. /\ r.form = c.form /\ q.form = d.form
      /\ r.messages = c.prompt /\ q.messages = d.prompt
      /\ r.tools = c.tools /\ q.tools = d.tools
      /\ r.model = Meaning(c).model /\ q.model = Meaning(d).model
      /\ r.texts = c.texts /\ r.tool = c.tool /\ r.arguments = c.arguments
      /\ q.texts = d.texts /\ q.tool = d.tool /\ q.arguments = d.arguments
  BY RequestMeans
<1>2. Fingerprint(r) = Fingerprint(q) <=>
          /\ r.model = q.model /\ MessagesOf(r) = MessagesOf(q) /\ ToolNames(r) = ToolNames(q)
          /\ r.texts = q.texts /\ r.tool = q.tool /\ r.arguments = q.arguments
  BY DEF Fingerprint
<1> HIDE DEF r, q
<1>3. ToolNames(r) = ToolNames(q) <=> Offered(c.tools) = Offered(d.tools)
  BY <1>1, ToolsTell, ToolsCount DEF Readable
<1>4. c.prompt \in Seq(Message) /\ d.prompt \in Seq(Message)
  BY DEF Readable
<1> QED BY <1>1, <1>2, <1>3, <1>4 DEF r, q

\* Calls with one fingerprint mean the same, but for the roles of two templates:
\* nobody is served the answer to another question for want of other detail.
LEMMA FingerprintsTell ==
    ASSUME NEW c, NEW d, Readable(c), Readable(d),
           Fingerprint(Request(c)) = Fingerprint(Request(d))
    PROVE  \/ Meaning(c) = Meaning(d)
           \/ Templated(c) /\ Templated(d) /\ Unvoiced(c) = Unvoiced(d)
<1>1. /\ Meaning(c).model = Meaning(d).model /\ Offered(c.tools) = Offered(d.tools)
      /\ c.texts = d.texts /\ c.tool = d.tool /\ c.arguments = d.arguments
  BY FingerprintsMatch
<1>2. CASE ~Templated(c) /\ ~Templated(d)
  <2>1. Said(c.prompt) = Said(d.prompt)
    BY <1>2, FingerprintsMatch, PromptsTell DEF Templated
  <2> QED BY <1>1, <2>1 DEF Meaning
<1>3. CASE Templated(c) /\ Templated(d)
  <2>1. Parts(c.prompt) = Parts(d.prompt)
    BY <1>3, FingerprintsMatch, TemplatesTell DEF Templated
  <2> QED BY <1>1, <1>3, <2>1 DEF Meaning, Unvoiced, Parts
<1>4. Templated(c) <=> Templated(d)
  BY FingerprintsMatch, FormsTell DEF Templated
<1> QED BY <1>2, <1>3, <1>4

\* Calls that mean the same have one fingerprint, unless a role is spelt in two
\* ways, lines break inside of JSON or the prompts are of two forms.
LEMMA FingerprintsMerge ==
    ASSUME NEW c, NEW d, Readable(c), Readable(d), Meaning(c) = Meaning(d),
           SpeltAlike(c, d), c.form = d.form, ~BrokenInJson(c), ~BrokenInJson(d)
    PROVE  Fingerprint(Request(c)) = Fingerprint(Request(d))
<1>1. /\ Said(c.prompt) = Said(d.prompt) /\ Offered(c.tools) = Offered(d.tools)
      /\ c.texts = d.texts /\ c.tool = d.tool /\ c.arguments = d.arguments
  BY DEF Meaning
<1>2. \A i \in DOMAIN c.prompt : c.prompt[i].role = d.prompt[i].role
  BY DEF SpeltAlike
<1>3. /\ \A i \in DOMAIN c.prompt :
             c.prompt[i].content.blocks \/ c.form # "plain" => Unbroken(c.prompt[i].content)
      /\ \A i \in DOMAIN d.prompt :
             d.prompt[i].content.blocks \/ d.form # "plain" => Unbroken(d.prompt[i].content)
  BY DEF BrokenInJson, Unbroken, Templated
<1>4. MessagesOf(Request(c)) = MessagesOf(Request(d))
  BY <1>1, <1>2, <1>3, FingerprintsMatch, PromptsMerge
<1> QED BY <1>1, <1>4, FingerprintsMatch

-----------------------------------------------------------------------------
(* Exchanges *)

\* What was recorded stands on the tape under its fingerprint, and what was
\* replayed or refused was compared with it.
Compared ==
    /\ stage # "empty" => /\ asked \in Calls
                          /\ line.fingerprint = Fingerprint(Request(asked))
    /\ stage \in {"replayed", "refused"} => again \in Calls
    /\ stage = "replayed" => Fingerprint(Request(again)) = Fingerprint(Request(asked))
    /\ stage = "refused" => Fingerprint(Request(again)) # Fingerprint(Request(asked))

\* Every step keeps it.
LEMMA ComparedInvariance == Spec => []Compared
<1>1. Init => Compared
  BY DEF Init, Compared
<1>2. Compared /\ [Next]_vars => Compared'
  <2> SUFFICES ASSUME Compared, [Next]_vars PROVE Compared'
    OBVIOUS
  <2>1. ASSUME NEW call \in Calls, Record(call) PROVE Compared'
    BY <2>1 DEF Record, Compared
  <2>2. ASSUME NEW call \in Calls, Replay(call) PROVE Compared'
    BY <2>2 DEF Replay, Compared
  <2>3. ASSUME NEW call \in Calls, Refuse(call) PROVE Compared'
    BY <2>3 DEF Refuse, Compared
  <2>4. CASE Truncate
    BY <2>4 DEF Truncate, Compared
  <2>5. CASE UNCHANGED vars
    BY <2>5 DEF vars, Compared
  <2> QED BY <2>1, <2>2, <2>3, <2>4, <2>5 DEF Next
<1> QED BY <1>1, <1>2, PTL DEF Spec

\* A replayed call is given the answer to a call that meant the same: the model,
\* who said what, the tools on offer, the tool and its arguments, the texts; but
\* two prompts made by templates are only known to say the same.
THEOREM RepliesAnswerTheQuestion ==
    ASSUME AllReadable
    PROVE  Spec => []AnswersTheQuestion
<1>1. Compared => AnswersTheQuestion
  BY FingerprintsTell DEF AllReadable, Compared, AnswersTheQuestion
<1> QED BY <1>1, ComparedInvariance, PTL

\* A call is refused only if it means something else, spells a role in another
\* way, hands over its prompt in another form or breaks lines inside of a block
\* of content or of a template.
THEOREM RefusalsAreMeant ==
    ASSUME AllReadable
    PROVE  Spec => []NoNeedlessDrift
<1>1. ASSUME Compared PROVE NoNeedlessDrift
  <2> SUFFICES ASSUME stage = "refused", Meaning(again) = Meaning(asked), SpeltAlike(asked, again),
                      asked.form = again.form, ~BrokenInJson(asked), ~BrokenInJson(again)
               PROVE  FALSE
    BY DEF NoNeedlessDrift
  <2>1. Readable(asked) /\ Readable(again)
    BY <1>1 DEF AllReadable, Compared
  <2>2. Fingerprint(Request(asked)) = Fingerprint(Request(again))
    BY <2>1, FingerprintsMerge
  <2> QED BY <1>1, <2>2 DEF Compared
<1> QED BY <1>1, ComparedInvariance, PTL

-----------------------------------------------------------------------------
(* Type correctness *)

\* What is digested of a call has none of the framework's parameters in it.
LEMMA NothingInjected ==
    /\ \A k \in DOMAIN Fingerprint(NoRequest).arguments : k \notin Injected
    /\ \A call \in Calls : \A k \in DOMAIN Fingerprint(Request(call)).arguments : k \notin Injected
<1>1. DOMAIN <<>> = {}
  OBVIOUS
<1>2. DOMAIN Fingerprint(NoRequest).arguments = {}
  BY <1>1 DEF Fingerprint, NoRequest
<1>3. ASSUME NEW call \in Calls
      PROVE  \A k \in DOMAIN Request(call).arguments : k \notin Injected
  <2>1. CASE call.builder = "default"
    BY <1>1, <2>1 DEF Request, DefaultRequest, NoRequest
  <2>2. CASE call.builder = "langchain"
    BY <1>1, <2>2 DEF Request, LangchainRequest, NoRequest
  <2>3. CASE call.builder = "litellm"
    BY <1>1, <2>3 DEF Request, LitellmRequest, NoRequest
  <2>4. CASE call.builder = "tool"
    <3>1. Request(call).arguments = Asked(Passed(call))
      BY <2>4 DEF Request, ToolRequest, NoRequest
    <3> QED BY <3>1 DEF Asked
  <2>5. CASE call.builder = "embedding"
    BY <1>1, <2>5 DEF Request, EmbeddingRequest, NoRequest
  <2> QED BY <2>1, <2>2, <2>3, <2>4, <2>5, CallsAssumption DEF Builders
<1>4. \A r : Fingerprint(r).arguments = r.arguments
  BY DEF Fingerprint
<1> QED BY <1>2, <1>3, <1>4

\* Type correctness, and no parameter of the framework on a tape.
THEOREM TypeCorrectness == Spec => []TypeOK
<1>1. Init => TypeOK
  BY NothingInjected DEF Init, TypeOK, NoLine
<1>2. TypeOK /\ [Next]_vars => TypeOK'
  <2> SUFFICES ASSUME TypeOK, [Next]_vars PROVE TypeOK'
    OBVIOUS
  <2>1. ASSUME NEW call \in Calls, Record(call) PROVE TypeOK'
    <3>1. line'.fingerprint = Fingerprint(Request(call))
      BY <2>1 DEF Record
    <3> QED BY <2>1, <3>1, NothingInjected DEF Record, TypeOK
  <2>2. ASSUME NEW call \in Calls, Replay(call) \/ Refuse(call) PROVE TypeOK'
    BY <2>2 DEF Replay, Refuse, TypeOK
  <2>3. CASE Truncate
    BY <2>3, NothingInjected DEF Truncate, TypeOK, NoLine
  <2>4. CASE UNCHANGED vars
    BY <2>4 DEF vars, TypeOK
  <2> QED BY <2>1, <2>2, <2>3, <2>4 DEF Next
<1> QED BY <1>1, <1>2, PTL DEF Spec

=============================================================================
