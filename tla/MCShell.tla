------------------------------- MODULE MCShell -------------------------------
(* A small instance of Shell for TLC: three names for aliases, two of which  *)
(* share a bucket, and lines that use each builtin well and badly.           *)
EXTENDS Shell

\* A process number of nobody, one of a sibling, and the two that waitpid takes for any child
MCGarbage == {-1, 0, 2, 99}

ll == <<"ll">>
la == <<"la">>
cat == <<"cat">>
MCNames == {ll, la, cat}
MCHash == (ll :> 0) @@ (la :> 0) @@ (cat :> 1)

MCDirect == {<<"/bin/cat">>, <<"./no">>}
MCExecutables == {<<"/bin", cat>>, <<"/bin", <<"head">>>>, <<"", <<"/bin/cat">>>>}
MCCopying == {cat, <<"/bin/cat">>}

MCDirs == {<<"/d">>}

T(w) == [j \in DOMAIN w |-> <<w[j]>>]
Def(name, value) == << << <<"alias">>, name, <<"=">>, value >> >>

MCCommands ==
  {Def(ll, cat), Def(la, <<"ll", " ", "x">>), Def(cat, <<"head">>), Def(ll, <<>>),
   <<T(<<"alias", "ll">>)>>, <<T(<<"unalias", "ll">>)>>, <<T(<<"unalias", "la">>)>>,
   <<T(ll)>>, <<T(<<"la">>)>>, <<T(<<"/bin/cat">>)>>, << << <<"path">>, <<>> >> >>,
   << << cat, <<"x", "|", " ">> >> >>, << << cat, <<"x", "'", "y">> >> >>,
   <<T(<<"cd", "/none">>)>>, <<T(<<"cd", "/d">>)>>,
   <<T(<<"which", "ll">>)>>, <<T(<<"history", "2">>)>>, <<T(<<"exit">>)>>,
   <<T(<<"exit", "1">>)>>, << <<>> >>,
   <<T(cat), T(cat), T(cat)>>, <<T(ll), T(<<"head">>), T(<<"./no">>)>>,
   <<T(cat), T(<<"history">>), T(<<"head">>)>>,
   <<T(cat), <<>>, T(cat)>>, <<<<>>, T(cat), T(cat)>>, <<T(cat), T(cat), <<>>>>,
   <<T(cat), T(cat), T(cat), T(cat)>>}

\* A quote that is not closed, and one inside a token that hides the bars after it
MCSlips == {<<"cat", " ", "'", "x">>,
            <<"cat", " ", "x", "'", " ", "|", " ", "cat", " ", "|", " ", "cat">>}

==============================================================================
