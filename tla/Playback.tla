------------------------------ MODULE Playback ------------------------------
(* What a strict run promises, src/llmtivo/recorder.py: each recording that  *)
(* the run finds answers one call that asks its question, and a call is      *)
(* refused only when none is left that does.  Nothing comes in meanwhile.    *)
CONSTANTS Calls, Questions, Interaction

VARIABLES open,     \* whether a run replays
          stock,    \* the recordings no call has been given
          given,    \* the answers given, each with its call and question
          refused   \* the calls refused, with their questions

playback == <<open, stock, given, refused>>

Init == open = FALSE /\ stock = {} /\ given = {} /\ refused = {}

Start ==
    /\ open = FALSE /\ open' = TRUE
    /\ stock' \in SUBSET Interaction
    /\ UNCHANGED <<given, refused>>

Unanswered(call) == \A entry \in given \cup refused : entry.call # call

Give(call, interaction) ==
    /\ open /\ Unanswered(call)
    /\ stock' = stock \ {interaction}
    /\ given' = given \cup {[call |-> call, question |-> interaction.fingerprint,
                             response |-> interaction.response]}
    /\ UNCHANGED <<open, refused>>

Refuse(call, question) ==
    /\ open /\ Unanswered(call)
    /\ \A interaction \in stock : interaction.fingerprint # question
    /\ refused' = refused \cup {[call |-> call, question |-> question]}
    /\ UNCHANGED <<open, stock, given>>

End ==
    /\ open /\ open' = FALSE
    /\ stock' = {} /\ given' = {} /\ refused' = {}

Next ==
    \/ Start \/ End
    \/ \E call \in Calls, interaction \in stock : Give(call, interaction)
    \/ \E call \in Calls, question \in Questions : Refuse(call, question)

Spec == Init /\ [][Next]_playback

=============================================================================
