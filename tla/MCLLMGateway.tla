---------------------------- MODULE MCLLMGateway ----------------------------
(***************************************************************************)
(* Small instances of LLMGateway: one role whose primary is a local model  *)
(* with two cloud fallbacks, and one role that shares the first and the    *)
(* last of them and has a provider without a key in between.               *)
(***************************************************************************)
EXTENDS LLMGateway, TLC

CONSTANTS lmstudio, openai, anthropic, gemini, expansion

MCModels == {lmstudio, openai, anthropic, gemini}
MCRoles == {Synthesis, expansion}
MCChain == [r \in MCRoles |->
    IF r = Synthesis
    THEN <<lmstudio, openai, gemini>>
    ELSE <<lmstudio, anthropic, gemini>>]

MCSymmetry == Permutations(Callers)
=============================================================================
