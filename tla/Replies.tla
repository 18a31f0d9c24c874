------------------------------ MODULE Replies ------------------------------
(* An exchange whose answers go through the codec of the adapter and through *)
(* JSON (Codec): what a replayed call returns, beside what it returned live. *)
(* The constants Encoded and Decoded of Exchange are ToTape and FromTape.    *)
EXTENDS Exchange, Codec

\* The same entry point replays the very value it returned when it was live, in
\* type and content, if and only if that is plain data, a message of a known
\* class, or a command whose state is made of these (Codec and its encoders).
RepliesAsLive ==
    stage = "replayed" /\ again.builder = asked.builder /\ again.entry = asked.entry =>
        (reply = answer <=> IF Streamed(asked)
                            THEN PartsAre(LAMBDA chunk : Faithful(asked.builder, chunk), answer)
                            ELSE Faithful(asked.builder, answer))

=============================================================================
