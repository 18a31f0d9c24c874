------------------------------- MODULE Modes -------------------------------
(* The recording modes of src/llmtivo/modes.py and what each one permits.  *)

Modes == {"record", "record_new", "replay", "replay_or_record", "off"}

MayReplay(mode) == mode \in {"record_new", "replay", "replay_or_record"}

\* Whether a cassette miss must fail rather than reach the network.
Strict(mode) == mode = "replay"

\* The effective mode of one test, given whether it already has a cassette.
Resolve(mode, hasCassette) ==
    IF mode = "record_new" THEN (IF hasCassette THEN "replay" ELSE "record")
                           ELSE mode

=============================================================================
