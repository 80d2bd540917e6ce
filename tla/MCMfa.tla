-------------------------------- MODULE MCMfa --------------------------------
(* Mfa under TLC: two requests at a time, of one account.                   *)
EXTENDS Mfa, TLC

Symmetric == Permutations(Caller) \cup Permutations(Session)
                \cup Permutations(Factor) \cup Permutations(Batch)

==============================================================================
