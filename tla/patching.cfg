SPECIFICATION Spec
CONSTANTS
    base = base
    chat = chat
    root = root
    impl = impl
    nested = nested
    plain = plain
    Classes <- MCClasses
    Mro <- MCMro
    Defining <- MCDefining
    Preloaded <- MCPreloaded
    BaseChatModel = base
    Embeddings = root
    LiteLLM = {chat}
    ChatLiteLLM = chat
    Hook = Hook
    MaxBlocks = 3
    None = None
INVARIANTS
    TypeOK
    Restored
    WrappedOnce
    EmbeddingsIntercepted
PROPERTY
    LeavesAsFound
