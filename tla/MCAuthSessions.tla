---------------------------- MODULE MCAuthSessions ----------------------------
(* AuthSessions for TLC: one person, or two who want the same username.    *)
EXTENDS AuthSessions, TLC

CONSTANTS mail1, mail2, name

MCOneAccount  == {[email |-> mail1, username |-> name]}
MCTwoAccounts == {[email |-> m, username |-> name] : m \in {mail1, mail2}}

MCSymmetry == Permutations(Handlers) \cup Permutations(Tokens)
===============================================================================
