--------------------------- MODULE MCComposerReduce ----------------------------
(* A small instance of ComposerReduce: four molecules, the first with two rules,  *)
(* which make one to four batches and up to two levels of merges.                *)
EXTENDS ComposerReduce

MCRules == <<{"a1", "a2"}, {"b"}, {"c"}, {"d"}>>

\* Within a batch, across batches, about nothing, and a pair of questions of which
\* one reaches outside of the step that asks.
MCQuestions == {{{"a1", "a2"}}, {{"b", "c"}}, {{}, {"a1", "b"}}}

MCKnown == {{}, {{"a1", "a2"}, {"b", "c"}}, {{}, {"a1", "c"}}, {{"a1", "a2"}, {"a1"}}}
================================================================================
