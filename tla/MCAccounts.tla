---------------------------- MODULE MCAccounts ----------------------------
(* Instances of Accounts for TLC. *)
EXTENDS Accounts, TLC

Input(provider, mode, onOpen, azure, ollama) ==
    [provider |-> provider, mode |-> mode, onOpen |-> onOpen, azure |-> azure, ollama |-> ollama]

(* Credentials alone; a provider alone, or with what it requires; modes that   *)
(* fit and do not fit; the job; a setting that Ollama then lacks               *)
SomeInputs ==
    {Input(None, None, None, None, None),
     Input("azure", None, None, None, None), Input("azure", None, FALSE, TRUE, None),
     Input("ollama", None, TRUE, None, None),
     Input(None, "local", None, None, None), Input(None, "hybrid", FALSE, None, FALSE)}

Interchangeable == Permutations(Accounts) \cup Permutations(Requests) \cup Permutations(States)
=============================================================================
