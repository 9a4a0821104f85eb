-------------------------------- MODULE Shell --------------------------------
(***************************************************************************)
(* wsh, the shell: it reads lines, splits them at |, expands the alias of  *)
(* each stage's first word, and runs a builtin, an external command or a   *)
(* pipeline (module Pipeline).  The alias table is the hash map of         *)
(* hash_map.c, the history the growing array of dynamic_array.c.           *)
(*                                                                         *)
(* A string is a sequence of characters, where a run of ordinary ones (a   *)
(* name, a directory) counts as one; blank, quote, bar and colon are the   *)
(* others.                                                                 *)
(***************************************************************************)
EXTENDS Pipeline, Sequences, FiniteSetsExt, TLC

CONSTANTS Commands,    \* what the user may want: stages, each a list of tokens
          Slips,       \* lines that are typed wrong
          Names,       \* strings used as alias names
          Hash,        \* the bucket of a name
          InitCap,     \* capacity the history starts with
          Direct,      \* names that begin with / or .
          Executables, \* the programs: <<directory, name>>, <<"", name>> if Direct
          Copying,     \* those that copy their input to their output
          Dirs,        \* the directories that exist, HOME one of them
          MaxLines,    \* bound on the lines read
          PipeBy       \* bound: the last line that may be a pipeline

ASSUME ShellAssumption ==
  /\ Hash \in [Names -> Nat] /\ InitCap \in Nat \ {0} /\ MaxLines \in Nat /\ PipeBy \in Nat

Buckets == {Hash[n] : n \in Names}

VARIABLES alias_hm,    \* bucket -> list of entries
          history_da,  \* [data, capacity]; capacity 0 before it is created
          PATH,        \* the string: directories and colons
          cwd,
          at,          \* "read", "pipeline", "exited", or "segv" after a fault
          line,        \* the line that is run, <<>> when there is none
          segs,        \* its segments, parsed
          wanted,      \* the command it was typed for
          typed,       \* all lines so far
          meant        \* what the alias builtins have asked for

lines == <<alias_hm, history_da, PATH, cwd, at, line, segs, wanted, typed, meant>>
allvars == <<vars, lines>>

-----------------------------------------------------------------------------
(* hash_map.c, dynamic_array.c                                              *)

hm_get(hm, k) ==
  LET found == {e \in Range(hm[Hash[k]]) : e.key = k}
  IN  IF found = {} THEN <<>> ELSE <<(CHOOSE e \in found : TRUE).value>>

\* Mutant: an entry is always added.
hm_putAgain(hm, k, v) == [hm EXCEPT ![Hash[k]] = <<[key |-> k, value |-> v]>> \o @]

hm_put(hm, k, v) ==
  LET b == hm[Hash[k]]
      new == [key |-> k, value |-> v]
  IN  [hm EXCEPT ![Hash[k]] =
        IF \E j \in DOMAIN b : b[j].key = k
        THEN [j \in DOMAIN b |-> IF b[j].key = k THEN new ELSE b[j]]
        ELSE <<new>> \o b]

\* The first entry of the key is unlinked, from the list's head or its middle.
hm_delete(hm, k) ==
  LET b == hm[Hash[k]]
      hits == {j \in DOMAIN b : b[j].key = k}
      first == CHOOSE j \in hits : \A h \in hits : j <= h
  IN  IF hits = {} THEN hm
      ELSE [hm EXCEPT ![Hash[k]] = SubSeq(b, 1, first - 1) \o SubSeq(b, first + 1, Len(b))]

\* A full array is given twice its capacity.
da_ensure_capacity(da) ==
  [data |-> da.data,
   capacity |-> IF Len(da.data) < da.capacity THEN da.capacity ELSE 2 * da.capacity]

\* What is stored beyond the capacity is not the array's, and lost.
da_put(da, x) ==
  LET room == da_ensure_capacity(da)
  IN  [data |-> IF Len(room.data) < room.capacity THEN Append(room.data, x) ELSE room.data,
       capacity |-> room.capacity]

add_history_after_exec(x) ==
  history_da' = da_put(IF history_da.capacity = 0 THEN [data |-> <<>>, capacity |-> InitCap]
                                                  ELSE history_da, x)

-----------------------------------------------------------------------------
(* Words and commands                                                       *)

\* Mutant: a bar in quotes splits the line.
BarsAll(s) == {k \in DOMAIN s : s[k] = "|"}

\* The bars that are not in quotes: in_single is flipped by every quote.
Bars(s) ==
  {k \in DOMAIN s : s[k] = "|" /\ Cardinality({j \in 1 .. k - 1 : s[j] = "'"}) % 2 = 0}

\* The pieces of a line between these bars
split_pipeline(s) ==
  LET ends == Bars(s) \cup {0, Len(s) + 1}
      End(p) == CHOOSE e \in ends : Cardinality({d \in ends : d < e}) = p
  IN  [p \in 1 .. Cardinality(ends) - 1 |-> SubSeq(s, End(p - 1) + 1, End(p) - 1)]

\* The tokens of a string, a blank added at its end: a token goes from quote to
\* quote, or from any other character to the next blank.  A missing quote leaves
\* no tokens.
parseline_no_subst(str) ==
  LET s == Append(str, " ")
      After(k, c) == {j \in k + 1 .. Len(s) : s[j] = c}
      From[k \in Nat, argv \in Seq(Seq(STRING))] ==
        IF k > Len(s) THEN [argv |-> argv, open |-> FALSE]
        ELSE IF s[k] = " " THEN From[k + 1, argv]
        ELSE LET quoted == s[k] = "'"
                 ends == After(k, IF quoted THEN "'" ELSE " ")
             IN  IF ends = {} THEN [argv |-> <<>>, open |-> TRUE]
                 ELSE From[Min(ends) + 1,
                           Append(argv, SubSeq(s, IF quoted THEN k + 1 ELSE k, Min(ends) - 1))]
  IN  From[1, <<>>]

Value(n) == IF n \in Names THEN hm_get(alias_hm, n) ELSE <<>>

\* The value of an alias was a token: no word of it begins with a quote, so that no
\* quote is missing in it.
expand_alias_first_token(argv) ==
  LET v == Value(Head(argv))
  IN  IF v = <<>> THEN argv ELSE parseline_no_subst(v[1]).argv \o Tail(argv)

is_builtin(name) ==
  name \in {<<b>> : b \in {"exit", "alias", "unalias", "which", "path", "cd", "history"}}

\* An empty PATH finds nothing.
resolve_exec_path(cmd) ==
  IF cmd \in Direct THEN <<"", cmd>> \in Executables
                    ELSE \E d \in Range(PATH) \ {":"} : <<d, cmd>> \in Executables

bi_which(argv) ==
  Len(argv) = 2 /\ (Value(argv[2]) # <<>> \/ is_builtin(argv[2]) \/ resolve_exec_path(argv[2]))

bi_history(argv) ==
  \/ history_da.capacity = 0 \/ Len(argv) = 1
  \/ Len(argv) = 2 /\ \E n \in 1 .. Len(history_da.data) : argv[2] = <<ToString(n)>>

bi_cd(argv) == Len(argv) = 1 \/ (Len(argv) = 2 /\ argv[2] \in Dirs)

bi_path(argv) == Len(argv) <= 2

bi_unalias(argv) == Len(argv) = 2

bi_alias(argv) == Len(argv) = 1 \/ (Len(argv) \in {3, 4} /\ argv[3] = <<"=">>)

\* Whether a builtin succeeds, and the rc after it.
BuiltinRc(argv) ==
  LET ok == CASE Head(argv) = <<"exit">>    -> Len(argv) = 1 /\ rc = 0
              [] Head(argv) = <<"alias">>   -> bi_alias(argv)
              [] Head(argv) = <<"unalias">> -> bi_unalias(argv)
              [] Head(argv) = <<"which">>   -> bi_which(argv)
              [] Head(argv) = <<"path">>    -> bi_path(argv)
              [] Head(argv) = <<"cd">>      -> bi_cd(argv)
              [] Head(argv) = <<"history">> -> bi_history(argv)
  IN  IF ok THEN 0 ELSE 1

\* How a stage of a pipeline runs.
KindOf(argv) ==
  CASE argv = <<>>                                         -> "nameless"
    [] argv # <<>> /\ is_builtin(argv[1])                  ->
         IF BuiltinRc(argv) = 0 THEN "builtin" ELSE "failing"
    [] argv # <<>> /\ ~is_builtin(argv[1]) /\ ~resolve_exec_path(argv[1]) -> "missing"
    [] OTHER -> IF argv[1] \in Copying THEN "copy" ELSE "quit"

-----------------------------------------------------------------------------
(* run_line                                                                 *)

Read == line' = <<>> /\ segs' = <<>> /\ wanted' = <<>> /\ at' = "read"
NoPipeline == UNCHANGED <<pc, i, pids, last_pid, status_last, child, io, failed>>
Keep == UNCHANGED <<alias_hm, PATH, cwd, meant>>

\* Every way through run_line ends with the line in the history.
Finish(x) == Read /\ add_history_after_exec(x)

\* How the user types a token, a stage and a command: in quotes where needed.
Typed(t) == IF t = <<>> \/ {" ", "|"} \cap Range(t) # {} THEN <<"'">> \o t \o <<"'">> ELSE t

TypedAll(seq, Type(_), sep) ==
  LET From[k \in 1 .. Len(seq) + 1] ==
        IF k > Len(seq) THEN <<>>
        ELSE (IF k = 1 THEN <<>> ELSE sep) \o Type(seq[k]) \o From[k + 1]
  IN  From[1]

TypedLine == [c \in Commands |->
  TypedAll(c, LAMBDA st : TypedAll(st, Typed, <<" ">>) \o <<" ">>, <<"|", " ">>)]

\* fgets gives line x, typed for command c and with a newline at least.  Pipelines
\* have nseg stages, which is also MAX_SEGS.  Splitting and parsing, the first thing
\* run_line does, depend on the line alone.
ReadLine(x, c) ==
  /\ at = "read" /\ line = <<>> /\ pc = "idle" /\ Len(typed) < MaxLines /\ x # <<>>
  /\ LET pieces == split_pipeline(x)
     IN  segs' = [p \in DOMAIN pieces |-> parseline_no_subst(pieces[p])]
  /\ Len(segs') = nseg => Len(typed) < PipeBy
  /\ line' = x /\ wanted' = c /\ typed' = Append(typed, x)
  /\ UNCHANGED <<vars, alias_hm, history_da, PATH, cwd, at, meant>>

Running == at = "read" /\ line # <<>>

\* split_pipeline() fails.
TooMany ==
  /\ Running /\ Len(segs) > nseg
  /\ rc' = 1 /\ Finish(line) /\ Keep
  /\ NoPipeline /\ UNCHANGED typed

\* Nothing to run: a blank line keeps rc, a missing quote sets it.
Blank ==
  /\ Running /\ Len(segs) = 1 /\ segs[1].argv = <<>>
  /\ rc' = IF segs[1].open THEN 1 ELSE rc
  /\ Finish(line) /\ Keep
  /\ NoPipeline /\ UNCHANGED typed

Argv(p) == expand_alias_first_token(segs[p].argv)

\* A single command, after the expansion of its alias
Single == Running /\ Len(segs) = 1 /\ segs[1].argv # <<>>

try_run_builtin ==
  /\ Single
  /\ LET argv == Argv(1)
         name == argv[1]
         puts == name = <<"alias">> /\ bi_alias(argv) /\ Len(argv) > 1
         value == IF Len(argv) = 4 THEN argv[4] ELSE <<>>
         deletes == name = <<"unalias">> /\ bi_unalias(argv)
     IN  /\ argv # <<>> /\ is_builtin(name) /\ argv # << <<"exit">> >>
         /\ rc' = BuiltinRc(argv)
         /\ alias_hm' = IF puts THEN hm_put(alias_hm, argv[2], value)
                        ELSE IF deletes /\ argv[2] \in Names THEN hm_delete(alias_hm, argv[2])
                        ELSE alias_hm
         /\ meant' = IF puts THEN [meant EXCEPT ![argv[2]] = <<value>>]
                     ELSE IF deletes /\ argv[2] \in Names THEN [meant EXCEPT ![argv[2]] = <<>>]
                     ELSE meant
         /\ PATH' = IF name = <<"path">> /\ Len(argv) = 2 THEN argv[2] ELSE PATH
         /\ cwd' = IF name = <<"cd">> /\ bi_cd(argv) /\ Len(argv) = 2 THEN argv[2]
                   ELSE IF name = <<"cd">> /\ Len(argv) = 1 THEN <<"HOME">> ELSE cwd
  /\ Finish(line)
  /\ NoPipeline /\ UNCHANGED typed

\* run_external(): the path is not found, fork fails, or the child's status.
run_external ==
  /\ Single
  /\ LET argv == Argv(1)
     IN  /\ argv # <<>> /\ ~is_builtin(argv[1])
         /\ rc' \in IF resolve_exec_path(argv[1]) THEN {0, 1} ELSE {1}
  /\ Finish(line) /\ Keep
  /\ NoPipeline /\ UNCHANGED typed

\* An alias for nothing: resolve_exec_path() reads through the null argv[0].
Fault ==
  /\ Single /\ Argv(1) = <<>>
  /\ at' = "segv" /\ line' = <<>> /\ segs' = <<>> /\ wanted' = <<>> /\ Keep
  /\ UNCHANGED <<vars, history_da, typed>>

NoTokens == \E p \in Segs : segs[p].argv = <<>>

BadPipeline ==
  /\ Running /\ Len(segs) = nseg /\ NoTokens
  /\ rc' = 1 /\ Finish(line) /\ Keep
  /\ NoPipeline /\ UNCHANGED typed

StartPipeline ==
  /\ Running /\ Len(segs) = nseg /\ ~NoTokens
  /\ run_pipeline([p \in Segs |-> KindOf(Argv(p))])
  /\ at' = "pipeline"
  /\ UNCHANGED <<alias_hm, history_da, PATH, cwd, line, segs, wanted, typed, meant>>

EndPipeline == /\ at = "pipeline" /\ Return /\ Finish(line) /\ Keep
               /\ UNCHANGED typed

ShellInit ==
  /\ Idle /\ rc = 0
  /\ alias_hm = [b \in Buckets |-> <<>>] /\ meant = [n \in Names |-> <<>>]
  /\ history_da = [data |-> <<>>, capacity |-> 0]
  /\ PATH = <<"/bin">> /\ cwd = <<"HOME">>
  /\ at = "read" /\ line = <<>> /\ segs = <<>> /\ wanted = <<>> /\ typed = <<>>

\* The builtin exit and the end of the input: wsh_free(), and the process ends.
clean_exit ==
  /\ \/ Single /\ Argv(1) = << <<"exit">> >>
     \/ at = "read" /\ line = <<>> /\ pc = "idle"
  /\ at' = "exited" /\ line' = <<>> /\ segs' = <<>> /\ wanted' = <<>>
  /\ alias_hm' = [b \in Buckets |-> <<>>] /\ meant' = [n \in Names |-> <<>>]
  /\ history_da' = [data |-> <<>>, capacity |-> 0]
  /\ UNCHANGED <<vars, PATH, cwd, typed>>

run_line == \/ TooMany \/ Blank \/ try_run_builtin \/ run_external \/ Fault
            \/ BadPipeline \/ StartPipeline \/ EndPipeline

Pipelines == (Parent \/ \E p \in Segs : Child(p)) /\ UNCHANGED lines

ShellNext == \/ (\E c \in Commands : ReadLine(TypedLine[c], c))
             \/ (\E x \in Slips : ReadLine(x, <<>>))
             \/ clean_exit \/ run_line \/ Pipelines

\* The kernel runs the shell and every child that can go on; the user need not
\* type.
Fairness == /\ WF_allvars(run_line) /\ WF_allvars(clean_exit /\ line # <<>>)
            /\ WF_allvars(Parent /\ UNCHANGED lines)
            /\ \A p \in Segs : WF_allvars(Child(p) /\ UNCHANGED lines)

ShellSpec == ShellInit /\ [][ShellNext]_allvars /\ Fairness

-----------------------------------------------------------------------------
(* Properties                                                               *)

\* The shell runs the command the user wanted: splitting the line at its bars and
\* parsing the pieces gives the stages and tokens that were typed, with blanks and
\* bars in quotes part of their token, stages left empty anywhere, and a quote
\* inside a token part of it.  No bar may follow such a quote: split_pipeline()
\* takes it for an opening one and hides the bar, parseline_no_subst() does not.
ParsedAsWanted ==
  wanted # <<>> => [p \in DOMAIN segs |-> segs[p].argv] = wanted

\* The shell remembers what it was told.  The hash map is the map the alias and
\* unalias builtins have asked for, also when names share a bucket and an entry
\* goes from the middle of its list, and it has no entry twice or in another
\* bucket.  Whatever became of a line, it is in the history once, as it was typed
\* and in order, when the next one is read: the array grows before it is full.
Remembered ==
  /\ \A n \in Names : hm_get(alias_hm, n) = meant[n]
  /\ \A b \in Buckets :
       /\ IsInjective([j \in DOMAIN alias_hm[b] |-> alias_hm[b][j].key])
       /\ \A e \in Range(alias_hm[b]) : Hash[e.key] = b
  /\ at = "read" /\ line = <<>> => history_da.data = typed

\* Every line comes to an end: the shell reads again, has exited, or has died of
\* the fault that an alias for nothing leads to (action Fault).  No
\* pipeline, whatever its commands read and write and whichever forks fail,
\* leaves shell and children waiting for each other.
Returns == []<>(line = <<>>)

=============================================================================
