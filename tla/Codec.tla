------------------------------- MODULE Codec -------------------------------
(* How a response becomes JSON on the tape and what comes back: the codecs   *)
(* of the adapters (src/llmtivo/langchain.py, litellm.py), the serialisation *)
(* of an interaction (cassette.py) and the chunks of a stream (recorder.py). *)
(*                                                                           *)
(* A value has a kind and parts.  A message is an object with a model_dump,  *)
(* named for its class; a command is LangGraph's, with the parts update,     *)
(* goto, graph and resume; an object is any other.  A dictionary may carry a *)
(* tag: the class it was dumped from, or "Command".  A repr is the string    *)
(* that is left of an object.                                                *)
EXTENDS Naturals, Sequences

CONSTANT KnownClasses   \* those an adapter finds again by their name

RECURSIVE EncodeAny(_), DecodeAny(_), Json(_), Plain(_), Rebuildable(_)

Value(kind, name, parts) == [kind |-> kind, name |-> name, parts |-> parts]

NoneValue == Value("atom", "None", <<>>)

Falsy(value) == value = NoneValue \/ (value.kind \in {"list", "tuple", "dict"} /\ value.parts = <<>>)

OnParts(Op(_), value) == [value EXCEPT !.parts = [i \in DOMAIN value.parts |-> Op(value.parts[i])]]

-----------------------------------------------------------------------------
(* Onto the tape *)

Dump(value) == IF value.kind = "message" THEN [value EXCEPT !.kind = "dict"] ELSE value

EncodeCommandAsOther(value) == Dump(value)

\* The field graph is taken as it is.
Encode(value) ==
    IF value.kind = "command"
    THEN Value("dict", "Command", [i \in 1..4 |->
             IF i = 3 THEN value.parts[i] ELSE EncodeAny(value.parts[i])])
    ELSE Dump(value)

EncodeAny(value) ==
    CASE value.kind = "dict"              -> OnParts(EncodeAny, value)
      [] value.kind \in {"list", "tuple"} -> OnParts(EncodeAny, Value("list", "", value.parts))
      [] OTHER                            -> Encode(value)

\* asdict opens a command like any dataclass, json.dumps makes a tuple a list,
\* and what it does not know a string.  Only of values that it can dump: an object
\* that cannot be copied, or keys that are no strings, raise after the call.
Json(value) ==
    CASE value.kind \in {"message", "object"} -> Value("repr", value.name, <<>>)
      [] value.kind = "command"               -> OnParts(Json, Value("dict", "", value.parts))
      [] value.kind = "tuple"                 -> OnParts(Json, Value("list", "", value.parts))
      [] OTHER                                -> OnParts(Json, value)

-----------------------------------------------------------------------------
(* Back from it *)

\* The object a tagged dictionary was dumped from, or its bare fields.
Rebuild(value) ==
    IF value.kind = "dict" /\ value.name # ""
    THEN IF value.name \in KnownClasses THEN [value EXCEPT !.kind = "message"]
                                        ELSE [value EXCEPT !.name = ""]
    ELSE value

IsCommand(value) == value.kind = "dict" /\ value.name = "Command"

OrEmpty(value) == IF Falsy(value) THEN Value("tuple", "", <<>>) ELSE value

Decode(value) ==
    IF IsCommand(value)
    THEN LET part == [i \in 1..4 |-> IF i = 3 THEN value.parts[i] ELSE DecodeAny(value.parts[i])]
         IN  Value("command", "Command", [part EXCEPT ![2] = OrEmpty(@)])
    ELSE Rebuild(value)

\* A command inside a container stays the dictionary it was encoded as.
DecodeAny(value) ==
    CASE value.kind = "dict" /\ value.name # "" /\ ~IsCommand(value) -> Rebuild(value)
      [] value.kind \in {"dict", "list"} -> OnParts(DecodeAny, value)
      [] OTHER -> value

-----------------------------------------------------------------------------
(* What an entry point records and replays.  The codec is that of the        *)
(* adapter; a client without one records its responses as they are.          *)

EncodeBy(builder, value) ==
    CASE builder = "default" -> value
      [] builder = "litellm" -> Dump(value)
      [] OTHER               -> Encode(value)

DecodeBy(builder, value) ==
    CASE builder = "default" -> value
      [] builder = "litellm" -> Rebuild(value)
      [] OTHER               -> Decode(value)

\* A stream is recorded and replayed by its chunks; to iterate over anything
\* but a list gives the keys of a dictionary or the characters of a string.
ToTape(builder, streamed, value) ==
    Json(IF streamed THEN OnParts(LAMBDA chunk : EncodeBy(builder, chunk), value)
                     ELSE EncodeBy(builder, value))

FromTape(builder, streamed, value) ==
    CASE ~streamed           -> DecodeBy(builder, value)
      [] value.kind = "list" -> OnParts(LAMBDA chunk : DecodeBy(builder, chunk), value)
      [] OTHER               -> Value("list", "", <<Value("repr", value.name, <<>>)>>)

-----------------------------------------------------------------------------
(* Reference: which responses have a form on the tape that brings them back, *)
(* by what they are and not by how they are encoded.                         *)

PartsAre(Test(_), value) == \A i \in DOMAIN value.parts : Test(value.parts[i])

\* Plain data, as JSON itself has it.
Plain(value) ==
    value.kind \in {"atom", "list", "dict"} /\ value.name \in {"", "None"} /\ PartsAre(Plain, value)

KnownMessage(value) == value.kind = "message" /\ value.name \in KnownClasses

\* State of a graph: plain data with messages in it, at any depth.
Rebuildable(value) ==
    \/ Plain(value) \/ KnownMessage(value)
    \/ value.kind \in {"list", "dict"} /\ value.name = "" /\ PartsAre(Rebuildable, value)

FaithfulCommand(value) ==
    /\ value.kind = "command"
    /\ Rebuildable(value.parts[1]) /\ Plain(value.parts[3]) /\ Rebuildable(value.parts[4])
    /\ \/ value.parts[2] = Value("tuple", "", <<>>)
       \/ Rebuildable(value.parts[2]) /\ ~Falsy(value.parts[2])

Faithful(builder, value) ==
    \/ Plain(value)
    \/ KnownMessage(value) /\ builder # "default"
    \/ FaithfulCommand(value) /\ builder \notin {"default", "litellm"}

=============================================================================
