----------------------------- MODULE MCSecretary -----------------------------
EXTENDS Secretary

\* The programs never run together, so that they may share their values, and a
\* permutation of these is one of every program.
CONSTANTS a1, a2, b1, b2, c

\* One domain, two with a rule and without, one rule that leaves a domain out, and more
\* domains than there may be specialists.
MCTopics == {{"weather"}, {"music"}, {"news", "weather"}, {"news", "stocks", "jobs"},
             {"news", "english", "voice", "music", "video"}}

Symmetry == Permutations({a1, a2}) \cup Permutations({b1, b2})
==============================================================================
