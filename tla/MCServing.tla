------------------------------ MODULE MCServing ------------------------------
(* Five components that share no state, each on its small instance: the    *)
(* scope cache, the start of the server, what a call knows of its user,    *)
(* the evaluation and the throwaway instance it is run against.  In a      *)
(* behaviour one part moves and the others are at rest.                    *)
EXTENDS MCScopeCache, ServerStart, CallContext, Evaluation, Throwaway
CONSTANTS p1, p2
VARIABLE part

TwoPeople == {p1, p2}
ServingSymmetry == Symmetry \cup Permutations(People)
Chosen ==
    {{"all"}, {"health"}, {"admin"}, {"find"}, {"create"}, {"typo"}, {"health", "find"},
     {"health", "create"}, {"health", "admin"}, {"all", "typo"}}

CacheAtRest == Init /\ \A t, s \in Threads : user[t] = user[s]
StartAtRest ==
    StartInit /\ conf = [gate |-> FALSE, selection |-> {"all"}, list |-> FALSE]
    /\ disk = [sets |-> Packaged, open |-> TRUE, own |-> FALSE, style |-> "unset"]
ContextAtRest == ContextInit /\ ~delegated /\ offered = {}
EvaluationAtRest == EvaluationInit /\ \A o \in DOMAIN options : ~options[o]
ThrowawayAtRest == ThrowawayInit /\ \A f \in DOMAIN flags : ~flags[f]

ServingInit ==
    \/ part = "cache" /\ Init /\ StartAtRest /\ ContextAtRest /\ EvaluationAtRest /\ ThrowawayAtRest
    \/ part = "start" /\ CacheAtRest /\ StartInit /\ ContextAtRest /\ EvaluationAtRest /\ ThrowawayAtRest
    \/ part = "context" /\ CacheAtRest /\ StartAtRest /\ ContextInit /\ EvaluationAtRest /\ ThrowawayAtRest
    \/ part = "evaluation" /\ CacheAtRest /\ StartAtRest /\ ContextAtRest /\ EvaluationInit /\ ThrowawayAtRest
    \/ part = "throwaway" /\ CacheAtRest /\ StartAtRest /\ ContextAtRest /\ EvaluationAtRest /\ ThrowawayInit

CacheMoves ==
    part = "cache" /\ UNCHANGED <<part, startVars, contextVars, evalVars, throwawayVars>>
StartMoves ==
    part = "start" /\ UNCHANGED <<part, vars, contextVars, evalVars, throwawayVars>>
ContextMoves ==
    part = "context" /\ UNCHANGED <<part, vars, startVars, evalVars, throwawayVars>>
EvaluationMoves ==
    part = "evaluation" /\ UNCHANGED <<part, vars, startVars, contextVars, throwawayVars>>
ThrowawayMoves ==
    part = "throwaway" /\ UNCHANGED <<part, vars, startVars, contextVars, evalVars>>

ServingNext ==
    \/ CacheMoves /\ Next
    \/ StartMoves /\ StartNext
    \/ ContextMoves /\ ContextNext
    \/ EvaluationMoves /\ EvaluationNext
    \/ ThrowawayMoves /\ ThrowawayNext

ServingSpec ==
    ServingInit
    /\ [][ServingNext]_<<part, vars, startVars, contextVars, evalVars, throwawayVars>>

(* The variables of the part that moves keep their types.                  *)
ServingTypeOK ==
    /\ part = "cache" => TypeOK
    /\ part = "start" => StartTypeOK
    /\ part = "context" => ContextTypeOK
    /\ part = "evaluation" => EvaluationTypeOK
    /\ part = "throwaway" => ThrowawayTypeOK
=============================================================================
