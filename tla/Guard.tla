------------------------------- MODULE Guard -------------------------------
(* The network guard, src/llmtivo/guard.py: blocked_network replaces the     *)
(* connect methods of socket.socket, of which one stands for both, for the   *)
(* duration of a block.  The process that opens the blocks is Session.       *)
EXTENDS Naturals, Sequences

CONSTANTS Hosts,
          Loopback,   \* the hosts a suite may always reach
          Original    \* the connect method as the module found it

ASSUME HostsAssumption == 
    Loopback \subseteq Hosts /\ \A s \in SUBSET Hosts : s # Original

VARIABLES connect,  \* Original, or the hosts that the wrapper in place lets through
          guards,   \* what each open block lets through, innermost last
          reopened  \* history: an inner block was left since the last was entered

guardVars == <<connect, guards, reopened>>

GuardTypeOK ==
    /\ connect \in {Original} \cup SUBSET Hosts
    /\ guards \in Seq(SUBSET Hosts)
    /\ reopened \in BOOLEAN

GuardInit == connect = Original /\ guards = <<>> /\ reopened = FALSE

Reaches(host) == connect # Original => host \in connect

Block(allowed) ==
    /\ connect' = Loopback \cup allowed
    /\ guards' = Append(guards, Loopback \cup allowed)
    /\ reopened' = FALSE

\* A plausible slip: the methods are put back only if the block ended well.
UnblockForgotten ==
    /\ guards' = SubSeq(guards, 1, Len(guards) - 1)
    /\ reopened' = (Len(guards) > 1)
    /\ UNCHANGED connect

\* The original is put back, and not what the block found in its place.
Unblock ==
    /\ connect' = Original
    /\ guards' = SubSeq(guards, 1, Len(guards) - 1)
    /\ reopened' = (Len(guards) > 1)

=============================================================================
