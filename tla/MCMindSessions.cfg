SPECIFICATION SessionsSpec
CONSTANTS
  Kinds = {"decoding", "streaming"}
  Settings <- Framings
  Slots = 8
  Chunks = {1, 3, 5}
  Samples = 12
  Tokens = {a, b, eos}
  Eos = eos
  Context = 5
  DraftContexts = {2, 5}
  Prompts = {1, 3}
  MaxNews = {2, 6}
  Ks = {1, 3}
  Ngram = 2
CHECK_DEADLOCK FALSE
INVARIANTS DecodingInv StreamingInv
PROPERTY SessionsEnd
