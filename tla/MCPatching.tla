----------------------------- MODULE MCPatching -----------------------------
(* Two chat classes, of which one inherits, and four embeddings: the root,   *)
(* an implementation, and loaded later one that overrides it again and one  *)
(* that inherits it.                                                         *)
EXTENDS Patching, TLC

CONSTANTS base, chat, root, impl, nested, plain

MCClasses == {base, chat, root, impl, nested, plain}

MCMro == (base :> <<base>>) @@ (chat :> <<chat, base>>)
         @@ (root :> <<root>>) @@ (impl :> <<impl, root>>)
         @@ (nested :> <<nested, impl, root>>) @@ (plain :> <<plain, impl, root>>)

MCDefining == {base, root, impl, nested}

MCPreloaded == {base, chat, root, impl}

ASSUME HierarchyAssumption == OneLine /\ EmbeddingsDefine

=============================================================================
