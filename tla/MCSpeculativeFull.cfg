SPECIFICATION Spec
CONSTANTS
  Tokens = {a, b, eos}
  Eos = eos
  Context = 5
  DraftContexts = {5}
  Prompts = {1, 2, 4}
  MaxNews = {2, 6}
  Ks = {1, 3}
  Ngram = 2
CHECK_DEADLOCK FALSE
INVARIANT IdenticalToGreedy
